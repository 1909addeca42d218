---------------------------- MODULE TreeRemoval ----------------------------
(***************************************************************************)
(* What a ZooKeeper tree and somebody who has it removed may rely on: the  *)
(* tree loses its nodes leaf by leaf, and a caller is told nil only by the *)
(* very step that takes the last node away.  An error says nothing.        *)
(* ZkDelete, the model of the code, is shown to implement this module.     *)
(***************************************************************************)
CONSTANTS
    Nodes, Root, Parent,  \* the nodes there may be, and the parent of each
    Deleters

VARIABLES
    tree,   \* the nodes there are
    result  \* result[c]: what c was told, "none" when nothing yet

Init ==
    /\ tree \in SUBSET Nodes
    /\ result = [c \in Deleters |-> "none"]

Leaf(n) == n \in tree /\ \A m \in tree \ {Root} : Parent[m] # n

Grow ==
    /\ \E n \in Nodes :
         /\ n # Root => Parent[n] \in tree
         /\ tree' = tree \cup {n}
    /\ UNCHANGED result

Shrink ==
    /\ \E n \in tree : Leaf(n) /\ tree' = tree \ {n}
    /\ \/ UNCHANGED result
       \/ \E c \in Deleters : result' = [result EXCEPT ![c] = "error"]

Remove(c) ==
    /\ tree = {Root}
    /\ tree' = {}
    /\ result' = [result EXCEPT ![c] = "nil"]

GiveUp(c) ==
    /\ result' = [result EXCEPT ![c] = "error"]
    /\ UNCHANGED tree

Next == Grow \/ Shrink \/ \E c \in Deleters : Remove(c) \/ GiveUp(c)

Spec == Init /\ [][Next]_<<tree, result>>
=============================================================================
