----------------------------- MODULE MCSkipchain -----------------------------
(***************************************************************************)
(* Servers are interchangeable, and so are data and clients.  The second   *)
(* block after the genesis block is the first with a link of level 1.      *)
(*                                                                         *)
(* Skipchain has the height and the back-links of a block by definition;   *)
(* the loops that compute them read nothing that another call changes.     *)
(* They run in a scenario of their own, in which the chain is at rest.     *)
(***************************************************************************)
EXTENDS Skipchain, TLC

CONSTANTS MaxBase, MaxIndex

VARIABLES base, max, index, pc, rest, height, links, pointer

Loops == INSTANCE SkipHeightLoops
loopVars == <<base, max, index, pc, rest, height, links, pointer>>
allVars == <<vars, loopVars>>

Alike == Permutations(Server) \cup Permutations(Data) \cup Permutations(Client)

Growth == [mishaps |-> {"failure"}, calls |-> 3, blocks |-> 0, reads |-> TRUE]
Contest == [mishaps |-> {"concurrent"}, calls |-> 2, blocks |-> 1,
            reads |-> FALSE]
Restarts == [mishaps |-> {"failure", "crash"}, calls |-> 1, blocks |-> 2,
             reads |-> TRUE]
Mixed == [mishaps |-> {"failure", "concurrent"}, calls |-> 2, blocks |-> 0,
          reads |-> FALSE]
AtRest == [mishaps |-> {}, calls |-> 0, blocks |-> 1, reads |-> FALSE]

Scenarios == {Growth, Contest, Restarts, Mixed, AtRest}
Fork == {Contest}

MCInit ==
    /\ Init
    /\ \/ scenario = AtRest /\ Loops!Init
       \/ scenario # AtRest /\ Loops!Idle

MCNext ==
    \/ Next /\ UNCHANGED loopVars
    \/ Loops!Next /\ UNCHANGED vars

MCSpec == MCInit /\ [][MCNext]_allVars

(* The first loop of StoreSkipBlock computes the height the chain goes by. *)
HeightIsReference == Loops!HeightIsReference

(* The second loop finds the back-links the chain goes by. *)
LinksAreNearest == Loops!LinksAreNearest
=============================================================================
