---------------------------- MODULE ByzCoinServer ----------------------------
(***************************************************************************)
(* The root's side of a byzcoin simulation round: the client that feeds    *)
(* transactions, the server goroutine that keeps up to a block of them,    *)
(* and Simulation.Run, which asks it for a block, starts the protocol and  *)
(* waits for it.                                                           *)
(***************************************************************************)
EXTENDS Integers, Sequences

CONSTANTS BlockSize,   \* e.Blocksize: transactions per block, also what the
                       \* client is asked to send
          TxFiles      \* the transaction lists the parser may find on disk

ASSUME ServerAssumption == BlockSize \in Nat \ {0}

VARIABLES
    file,          \* what parser.Parse returned
    sent,          \* AddTransaction calls the client has made
    transactions,  \* the server's pool
    want,          \* WaitEnoughBlocks waits for an answer on responseChan
    block,         \* what Instantiate gave to the protocol; <<>> before
    run            \* where Simulation.Run is

serverVars == <<file, sent, transactions, want, block, run>>

(* triggerTransactions sends the whole list once per requested             *)
(* transaction, or once per transaction read when there are fewer.         *)
Calls == Len(file) * (IF Len(file) < BlockSize THEN Len(file) ELSE BlockSize)

ServerInit ==
    /\ file \in TxFiles
    /\ sent = 0
    /\ transactions = <<>>
    /\ want = FALSE
    /\ block = <<>>
    /\ run = "client"

(* No transaction could be read: Run returns the error.                    *)
ClientFails ==
    /\ run = "client" /\ file = <<>>
    /\ run' = "failed"
    /\ UNCHANGED <<file, sent, transactions, want, block>>

(* AddTransaction and the case of listenEnoughBlocks that receives it; no  *)
(* request is open while the client of the same Run sends.                 *)
AddTransaction ==
    /\ run = "client" /\ sent < Calls
    /\ sent' = sent + 1
    /\ transactions' =
         IF Len(transactions) < BlockSize
         THEN Append(transactions, file[(sent % Len(file)) + 1])
         ELSE transactions
    /\ UNCHANGED <<file, want, block, run>>

(* The client is done; Instantiate sends on requestChan.                   *)
Request ==
    /\ run = "client" /\ file # <<>> /\ sent = Calls
    /\ want' = TRUE
    /\ run' = "request"
    /\ UNCHANGED <<file, sent, transactions, block>>

(* The server answers with the first BlockSize transactions, once it has   *)
(* them, and Instantiate makes the root's protocol instance.               *)
Answer ==
    /\ run = "request" /\ want /\ Len(transactions) >= BlockSize
    /\ block' = SubSeq(transactions, 1, BlockSize)
    /\ transactions' = SubSeq(transactions, BlockSize + 1, Len(transactions))
    /\ want' = FALSE
    /\ run' = "start"
    /\ UNCHANGED <<file, sent>>

ServerNext == ClientFails \/ AddTransaction \/ Request \/ Answer
=============================================================================
