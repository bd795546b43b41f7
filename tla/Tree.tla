-------------------------------- MODULE Tree --------------------------------
(***************************************************************************)
(* The onet tree over which bftcosi, messaging/propagate and cosi run.     *)
(* The operators are those of the vendored library's TreeNodeInstance and  *)
(* TreeNode (IsRoot, IsLeaf, Children, Parent, SubtreeCount).  A tree is   *)
(* given by the Parent function; Subtree[n] is n with everything below it. *)
(***************************************************************************)
EXTENDS Integers, FiniteSets

CONSTANTS Node,     \* the servers of the roster, one tree node each
          Root,     \* the node that starts the protocol
          Parent,   \* Parent[n] for every n but the root
          Subtree   \* Subtree[n]: n and its descendants

Children(n) == {c \in Node \ {Root} : Parent[c] = n}
IsLeaf(n) == Children(n) = {}
IsRoot(n) == n = Root
Below(n) == Subtree[n] \ {n}

(* What GenerateNaryTree builds: a finite tree, rooted at Root, reaching   *)
(* every node once.                                                        *)
ASSUME TreeAssumption ==
    /\ IsFiniteSet(Node)
    /\ Root \in Node
    /\ Parent \in [Node \ {Root} -> Node]
    /\ Subtree \in [Node -> SUBSET Node]
    /\ Subtree[Root] = Node
    /\ \A n \in Node :
         /\ Subtree[n] = {n} \cup UNION {Subtree[c] : c \in Children(n)}
         /\ \A c \in Children(n) : n \notin Subtree[c]
         /\ \A c, d \in Children(n) : c # d => Subtree[c] \cap Subtree[d] = {}
=============================================================================
