------------------------------ MODULE ByzCoinNG ------------------------------
(***************************************************************************)
(* The ByzCoin-NG service: the leader's threads sign microblocks in        *)
(* overlapping runs of bftcosi_special, every server sends the blocks of   *)
(* different runs one after the other and verifies them one after the      *)
(* other (two priority queues), and clients wait at the leader for a       *)
(* signed block.                                                           *)
(*                                                                         *)
(* A run is named by its block's priority, the round number.  Of a run the *)
(* challenge and response phases are modelled, node by node; announcements *)
(* and commitments come before anything the runs share.  Every block       *)
(* passes bftVerify (GetBlock made its hashes), so nobody refuses.         *)
(* A rendezvous on NotifyChan or on the service's channel is one step: the *)
(* receiver is already waiting or does nothing else first.                 *)
(***************************************************************************)
EXTENDS Tree, PriorityQueue

CONSTANTS Thread,      \* goroutines of the simulation that call StartEpoch
          Client,      \* callers of Request, once each
          Rounds,      \* bound on e.Rounds
          Load         \* the workloads, see NGAssumption: e.Rounds, e.Threads,
                       \* who calls Request, how many signatures may time out

ASSUME NGAssumption ==
    /\ Rounds \in Nat \ {0}
    /\ Load \subseteq [rounds : 1..Rounds, threads : SUBSET Thread,
                       clients : SUBSET Client, timeouts : Nat]
    /\ Thread \cap Client = {} /\ "free" \notin Thread \cup Client

Epoch == 0..Rounds - 1
None == -2

VARIABLES
    s,          \* the leader's Service, see Init; s.rounds is e.Rounds
    thread,     \* [Thread -> [at, epoch]]
    client,     \* [Client -> [at, chan, reply]]: the done channel it waits on
                \* and the block it was answered with
    bft,        \* [Epoch -> [Node -> where the run is at the node]]
    verify,     \* [Epoch -> [Node -> "none", "queued", "running", "done"]]
    empty, pqueue,        \* [Node -> ...]: who may send the prepare challenge
    vempty, pqueuever     \* [Node -> ...]: who may verify

sendVars == <<bft, empty, pqueue>>
verifyVars == <<verify, vempty, pqueuever>>
vars == <<s, thread, client, sendVars, verifyVars>>

(* It may find no transaction to read, an error that Run only logs.        *)
StartSimul == BOOLEAN

Init == \E load \in Load :
    /\ s \in [rounds : {load.rounds}, transactions : StartSimul,
              barrier : {"free"}, trMutex : {"free"},
              currentpriority : {0}, expectedpriority : {0}, block : {None},
              done : {[id |-> 1, closed |-> FALSE]},
              timeouts : {load.timeouts}, panicked : {FALSE}]
    /\ thread = [t \in Thread |->
         [at |-> IF t \in load.threads THEN "idle" ELSE "ended", epoch |-> None]]
    /\ client = [c \in Client |->
         [at |-> IF c \in load.clients THEN "idle" ELSE "absent",
          chan |-> 0, reply |-> None]]
    /\ bft = [e \in Epoch |-> [n \in Node |-> "idle"]]
    /\ verify = [e \in Epoch |-> [n \in Node |-> "none"]]
    /\ empty = [n \in Node |-> TRUE] /\ pqueue = [n \in Node |-> <<>>]
    /\ vempty = [n \in Node |-> TRUE] /\ pqueuever = [n \in Node |-> <<>>]

----------------------------------------------------------------------------
(* A thread of the simulation takes the next round, or ends.               *)
TakeRound(t) ==
    /\ thread[t].at = "idle"
    /\ IF s.rounds > 0
       THEN /\ s' = [s EXCEPT !.rounds = @ - 1]
            /\ thread' = [thread EXCEPT ![t] =
                            [at |-> "barrier", epoch |-> s.rounds - 1]]
       ELSE /\ thread' = [thread EXCEPT ![t].at = "ended"]
            /\ UNCHANGED s
    /\ UNCHANGED <<client, sendVars, verifyVars>>

(* StartEpoch locks and unlocks Barrier.                                   *)
PassBarrier(t) ==
    /\ thread[t].at = "barrier" /\ s.barrier = "free"
    /\ thread' = [thread EXCEPT ![t].at = "lock"]
    /\ UNCHANGED <<s, client, sendVars, verifyVars>>

GetBlockFails == ~s.transactions

(* A run comes to the prepare challenge, which the root hands itself.      *)
StartChallenge(e) == bft' = [bft EXCEPT ![e][Root] = "challenged"]

(* Under TRMutex: GetBlock.  With no transaction StartEpoch returns the    *)
(* error and keeps the lock.                                               *)
MakeBlock(t) ==
    /\ thread[t].at = "lock" /\ s.trMutex = "free"
    /\ IF GetBlockFails
       THEN /\ s' = [s EXCEPT !.trMutex = t]
            /\ thread' = [thread EXCEPT ![t].at = "idle"]
            /\ UNCHANGED bft
       ELSE /\ s' = [s EXCEPT !.currentpriority = thread[t].epoch]
            /\ thread' = [thread EXCEPT ![t].at = "signing"]
            /\ StartChallenge(thread[t].epoch)
    /\ UNCHANGED <<client, empty, pqueue, verifyVars>>

(* What StartEpoch does with a signed block: the one somebody waits for is *)
(* published, others just end.                                             *)
Publish(t) ==
    IF s.expectedpriority \in {thread[t].epoch, -1}
    THEN /\ s' = [s EXCEPT !.block = thread[t].epoch]
         /\ thread' = [thread EXCEPT ![t].at = "close"]
    ELSE /\ thread' = [thread EXCEPT ![t].at = "idle"]
         /\ UNCHANGED s

(* StartBFTSignature gets the signature after the root's onDone.           *)
Signed(t) ==
    /\ thread[t].at = "signing" /\ bft[thread[t].epoch][Root] = "done"
    /\ Publish(t)
    /\ UNCHANGED <<client, sendVars, verifyVars>>

TimeoutUnverified(t) ==
    /\ thread[t].at = "signing" /\ s.timeouts > 0
    /\ Publish(t)
    /\ UNCHANGED <<client, sendVars, verifyVars>>

(* The signature did not come in time: the block stays without one, which  *)
(* signNewBlock's caller ignores and Verify then finds.                    *)
Timeout(t) ==
    /\ thread[t].at = "signing" /\ s.timeouts > 0
    /\ s' = [s EXCEPT !.timeouts = @ - 1]
    /\ thread' = [thread EXCEPT ![t].at = "idle"]
    /\ UNCHANGED <<client, sendVars, verifyVars>>

(* close(s.done) and s.done = make(chan bool) are two steps under no lock: *)
(* a second close of the same channel panics.                              *)
CloseDone(t) ==
    /\ thread[t].at = "close"
    /\ thread' = [thread EXCEPT ![t].at = "make"]
    /\ s' = [s EXCEPT !.done.closed = TRUE, !.panicked = s.done.closed]
    /\ UNCHANGED <<client, sendVars, verifyVars>>

MakeDone(t) ==
    /\ thread[t].at = "make"
    /\ thread' = [thread EXCEPT ![t].at = "idle"]
    /\ s' = [s EXCEPT !.done = [id |-> @.id + 1, closed |-> FALSE]]
    /\ UNCHANGED <<client, sendVars, verifyVars>>

----------------------------------------------------------------------------
(* Request: Barrier, then TRMutex, under which the transaction is added    *)
(* and the epoch to wait for chosen.                                       *)
LockBarrier(c) ==
    /\ client[c].at = "idle" /\ s.barrier = "free"
    /\ s' = [s EXCEPT !.barrier = c]
    /\ client' = [client EXCEPT ![c].at = "barrier"]
    /\ UNCHANGED <<thread, sendVars, verifyVars>>

AddTransaction(c) ==
    /\ client[c].at = "barrier" /\ s.trMutex = "free"
    /\ s' = [s EXCEPT !.transactions = TRUE, !.barrier = "free",
                      !.expectedpriority = s.currentpriority - 1]
    /\ client' = [client EXCEPT ![c].at = "added"]
    /\ UNCHANGED <<thread, sendVars, verifyVars>>

(* It reads s.done, then waits for that channel to be closed: it still is  *)
(* the current one, or it was replaced after it was closed.                *)
ReadDone(c) ==
    /\ client[c].at = "added"
    /\ client' = [client EXCEPT ![c].at = "waiting", ![c].chan = s.done.id]
    /\ UNCHANGED <<s, thread, sendVars, verifyVars>>

Answered(c) ==
    /\ client[c].at = "waiting"
    /\ client[c].chan < s.done.id \/ s.done.closed
    /\ client' = [client EXCEPT ![c].at = "answered", ![c].reply = s.block]
    /\ UNCHANGED <<s, thread, sendVars, verifyVars>>

----------------------------------------------------------------------------
(* handleChallengePrepare hands the block to the service: the goroutine of *)
(* newByzcoinNGService lets it go on if nobody is sending, and queues it   *)
(* otherwise.                                                              *)
EnterSendUnasked(e, n) ==
    /\ bft[e][n] = "challenged"
    /\ bft' = [bft EXCEPT ![e][n] = "sending"]
    /\ empty' = [empty EXCEPT ![n] = FALSE]
    /\ UNCHANGED <<s, thread, client, pqueue, verifyVars>>

EnterSend(e, n) ==
    /\ bft[e][n] = "challenged"
    /\ IF empty[n]
       THEN /\ empty' = [empty EXCEPT ![n] = FALSE]
            /\ bft' = [bft EXCEPT ![e][n] = "sending"]
            /\ UNCHANGED pqueue
       ELSE /\ pqueue' = [pqueue EXCEPT ![n] = HeapPush(@, e)]
            /\ bft' = [bft EXCEPT ![e][n] = "queued"]
            /\ UNCHANGED empty
    /\ UNCHANGED <<s, thread, client, verifyVars>>

Sent(e, n) == [m \in Node |-> CASE m = n -> "left"
                                 [] m \in Children(n) -> "challenged"
                                 [] OTHER -> bft[e][m]]

SendOnKeeping(e, n) ==
    /\ bft[e][n] = "sending"
    /\ bft' = [bft EXCEPT ![e] = Sent(e, n)]
    /\ UNCHANGED <<s, thread, client, empty, pqueue, verifyVars>>

(* It sends the challenge on and gives the service the item with priority  *)
(* -1, by which the next one of the queue may send.                        *)
SendOn(e, n) ==
    /\ bft[e][n] = "sending"
    /\ IF pqueue[n] # <<>>
       THEN /\ bft' = [bft EXCEPT ![e] = Sent(e, n), ![Last(pqueue[n])][n] = "sending"]
            /\ pqueue' = [pqueue EXCEPT ![n] = Rest(@)]
            /\ UNCHANGED empty
       ELSE /\ bft' = [bft EXCEPT ![e] = Sent(e, n)]
            /\ empty' = [empty EXCEPT ![n] = TRUE]
            /\ UNCHANGED pqueue
    /\ UNCHANGED <<s, thread, client, verifyVars>>

(* bftVerify, in a goroutine started before the block is sent on: it runs  *)
(* at once if no other does, and waits in the queue otherwise.             *)
EnterVerifyUnasked(e, n) ==
    /\ bft[e][n] \in {"sending", "left"} /\ verify[e][n] = "none"
    /\ verify' = [verify EXCEPT ![e][n] = "running"]
    /\ vempty' = [vempty EXCEPT ![n] = FALSE]
    /\ UNCHANGED <<s, thread, client, sendVars, pqueuever>>

EnterVerify(e, n) ==
    /\ bft[e][n] \in {"sending", "left"} /\ verify[e][n] = "none"
    /\ IF vempty[n]
       THEN /\ vempty' = [vempty EXCEPT ![n] = FALSE]
            /\ verify' = [verify EXCEPT ![e][n] = "running"]
            /\ UNCHANGED pqueuever
       ELSE /\ pqueuever' = [pqueuever EXCEPT ![n] = HeapPush(@, e)]
            /\ verify' = [verify EXCEPT ![e][n] = "queued"]
            /\ UNCHANGED vempty
    /\ UNCHANGED <<s, thread, client, sendVars>>

LeaveVerify(e, n) ==
    /\ verify[e][n] = "running"
    /\ IF pqueuever[n] # <<>>
       THEN /\ verify' = [verify EXCEPT ![e][n] = "done",
                                        ![Last(pqueuever[n])][n] = "running"]
            /\ pqueuever' = [pqueuever EXCEPT ![n] = Rest(@)]
            /\ UNCHANGED vempty
       ELSE /\ verify' = [verify EXCEPT ![e][n] = "done"]
            /\ vempty' = [vempty EXCEPT ![n] = TRUE]
            /\ UNCHANGED pqueuever
    /\ UNCHANGED <<s, thread, client, sendVars>>

(* The response of the prepare round, after those of the children and the  *)
(* node's own verification.                                                *)
HandleResponsePrepare(e, n) ==
    /\ bft[e][n] = "left" /\ verify[e][n] = "done"
    /\ \A c \in Children(n) : bft[e][c] = "prepared"
    /\ bft' = [bft EXCEPT ![e][n] = "prepared"]
    /\ UNCHANGED <<s, thread, client, empty, pqueue, verifyVars>>

(* The commit challenge goes down the tree and the responses come up; they *)
(* share nothing with other runs and BFTCoSi has them node by node.  The   *)
(* root's onDone ends the run.                                             *)
AllNodes(e, from, to) ==
    /\ bft[e][Root] = from
    /\ bft' = [bft EXCEPT ![e] = [n \in Node |-> to]]
    /\ UNCHANGED <<s, thread, client, empty, pqueue, verifyVars>>

HandleChallengeCommit(e) == AllNodes(e, "prepared", "committing")
HandleResponseCommit(e) == AllNodes(e, "committing", "done")

----------------------------------------------------------------------------
StartEpoch(t) == \/ TakeRound(t) \/ PassBarrier(t) \/ MakeBlock(t) \/ Signed(t)
                 \/ CloseDone(t) \/ MakeDone(t)
Request(c) == LockBarrier(c) \/ AddTransaction(c) \/ ReadDone(c) \/ Answered(c)
Run(e, n) == \/ EnterSend(e, n) \/ SendOn(e, n) \/ HandleResponsePrepare(e, n)
CommitRound(e) == HandleChallengeCommit(e) \/ HandleResponseCommit(e)
Verify(e, n) == EnterVerify(e, n) \/ LeaveVerify(e, n)

Next ==
    /\ ~s.panicked
    /\ \/ \E t \in Thread : StartEpoch(t) \/ Timeout(t)
       \/ \E c \in Client : Request(c)
       \/ \E e \in Epoch, n \in Node : Run(e, n) \/ Verify(e, n)
       \/ \E e \in Epoch : CommitRound(e)

Spec == Init /\ [][Next]_vars

(* Every goroutine that can go on does, until the process panics; nothing  *)
(* is assumed of timeouts, nor that a client ever comes.                   *)
FairSpec ==
    /\ Spec
    /\ \A t \in Thread : WF_vars(~s.panicked /\ StartEpoch(t))
    /\ \A c \in Client :
         WF_vars(~s.panicked /\ (AddTransaction(c) \/ ReadDone(c) \/ Answered(c)))
    /\ \A e \in Epoch, n \in Node : /\ WF_vars(~s.panicked /\ Run(e, n))
                                    /\ WF_vars(~s.panicked /\ Verify(e, n))
    /\ \A e \in Epoch : WF_vars(~s.panicked /\ CommitRound(e))
----------------------------------------------------------------------------
At(f, n, where) == {e \in Epoch : f[e][n] \in where}

TypeOK ==
    /\ s.expectedpriority \in -1..Rounds - 1
    /\ s.block \in Epoch \cup {None}
    /\ \A n \in Node : /\ Len(pqueue[n]) < Rounds
                       /\ Len(pqueuever[n]) < Rounds

(* At every server at most one run sends its challenge; the flag of the    *)
(* service's goroutine and its queue say who does and who waits, so that   *)
(* nobody waits for a sender that is not there, and one run is not queued. *)
OneSender ==
    /\ TypeOK
    /\ \A n \in Node :
        /\ Cardinality(At(bft, n, {"sending"})) = IF empty[n] THEN 0 ELSE 1
        /\ At(bft, n, {"queued"}) = {pqueue[n][i] : i \in DOMAIN pqueue[n]}
        /\ empty[n] => pqueue[n] = <<>>

(* The same of bftVerify's simulated hardware and its queue.               *)
OneVerifier ==
    \A n \in Node :
        /\ Cardinality(At(verify, n, {"running"})) = IF vempty[n] THEN 0 ELSE 1
        /\ At(verify, n, {"queued"}) = {pqueuever[n][i] : i \in DOMAIN pqueuever[n]}
        /\ vempty[n] => pqueuever[n] = <<>>

(* The block a client is answered with was verified by every server, and   *)
(* its signature is complete, whichever epochs end in between.             *)
ReplySigned ==
    \A c \in Client : client[c].at = "answered" =>
        /\ client[c].reply # None
        /\ \A n \in Node : /\ bft[client[c].reply][n] = "done"
                           /\ verify[client[c].reply][n] = "done"

Ended ==
    \/ s.panicked
    \/ s.trMutex # "free"
    \/ /\ \A t \in Thread : thread[t].at = "ended"
       /\ \A e \in Epoch, n \in Node : bft[e][n] \in {"idle", "done"}

(* All epochs get their signature and the threads end, timed out or not,   *)
(* unless the first epoch found no transaction and kept TRMutex, or two    *)
(* epochs closed the same channel.                                         *)
EpochsEnd == <>Ended
=============================================================================
