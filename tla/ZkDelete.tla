------------------------------ MODULE ZkDelete ------------------------------
(***************************************************************************)
(* Removing the ZooKeeper tree of a package (src/zookeeper/zookeeper.go),  *)
(* the last part of an uninstall.  deleteTree lists the tree, one call for *)
(* each node, and then deletes node by node, from the last of the list to  *)
(* the first, and the root at the end.  Any call may fail, several         *)
(* uninstalls may be at the same tree, and the scheduler of the framework  *)
(* may still be writing to it: no lock or transaction ties the calls.      *)
(*                                                                         *)
(* failed and written are history variables.                               *)
(***************************************************************************)
EXTENDS Naturals

CONSTANTS
    Nodes,    \* the nodes there may be, numbered in the order of znodeTree
    Root,     \* the node whose tree is removed
    Parent,   \* Parent[n]: the parent of a node that is not the root
    Above,    \* Above[n]: the nodes on the way from the root to n
    Deleters  \* the calls of Delete

\* The nodes form a tree, and a node comes before what is below it.
ASSUME TreeAssumption ==
    /\ Nodes \subseteq Nat /\ Root \in Nodes
    /\ Parent \in [Nodes \ {Root} -> Nodes]
    /\ Above \in [Nodes -> SUBSET Nodes] /\ Above[Root] = {}
    /\ \A n \in Nodes \ {Root} :
         /\ Parent[n] < n
         /\ Root \in Above[n]
         /\ Above[n] = {Parent[n]} \cup Above[Parent[n]]
         /\ \A a \in Above[n] : \E m \in (Above[n] \cup {n}) \ {Root} : Parent[m] = a

VARIABLES
    tree,    \* the nodes in ZooKeeper
    pc,      \* pc[c]: where call c stands
    todo,    \* todo[c]: the nodes whose children c will ask for
    listed,  \* listed[c]: the nodes c has found and not yet deleted
    result,  \* result[c]: what c has returned
    failed,  \* whether a request to ZooKeeper has failed
    written  \* whether anybody has created a node

history == <<failed, written>>
vars == <<tree, pc, todo, listed, result, history>>

TypeOK ==
    /\ tree \in SUBSET Nodes
    /\ pc \in [Deleters -> {"idle", "list", "delete", "done"}]
    /\ todo \in [Deleters -> SUBSET Nodes]
    /\ listed \in [Deleters -> SUBSET (Nodes \ {Root})]
    /\ result \in [Deleters -> {"none", "nil", "error"}]
    /\ failed \in BOOLEAN /\ written \in BOOLEAN

Init ==
    /\ tree \in SUBSET Nodes /\ Root \in tree
    /\ \A n \in tree : Above[n] \subseteq tree
    /\ pc = [c \in Deleters |-> "idle"]
    /\ todo = [c \in Deleters |-> {}]
    /\ listed = [c \in Deleters |-> {}]
    /\ result = [c \in Deleters |-> "none"]
    /\ failed = FALSE /\ written = FALSE

Children(n) == {m \in tree \ {Root} : Parent[m] = n}

Return(c, value) ==
    /\ pc' = [pc EXCEPT ![c] = "done"]
    /\ result' = [result EXCEPT ![c] = value]

-----------------------------------------------------------------------------
\* Delete is called and connects.
Connect(c) ==
    /\ pc[c] = "idle"
    /\ pc' = [pc EXCEPT ![c] = "list"]
    /\ todo' = [todo EXCEPT ![c] = {Root}]
    /\ UNCHANGED <<tree, listed, result, history>>

\* znodeTree has come to n.
IsNext(c, n) == n \in todo[c] /\ \A m \in todo[c] : n <= m

\* NOT THE CODE: n itself is appended too.
ListSelf(c) ==
    /\ pc[c] = "list"
    /\ \E n \in tree :
         /\ IsNext(c, n)
         /\ todo' = [todo EXCEPT ![c] = (@ \ {n}) \cup Children(n)]
         /\ listed' = [listed EXCEPT ![c] = @ \cup Children(n) \cup {n}]
    /\ UNCHANGED <<tree, pc, result, history>>

\* The children of n are appended, and visited in their turn.
List(c) ==
    /\ pc[c] = "list"
    /\ \E n \in tree :
         /\ IsNext(c, n)
         /\ todo' = [todo EXCEPT ![c] = (@ \ {n}) \cup Children(n)]
         /\ listed' = [listed EXCEPT ![c] = @ \cup Children(n)]
    /\ UNCHANGED <<tree, pc, result, history>>

\* NOT THE CODE: begins again.
ListAgain(c) ==
    /\ pc[c] = "list"
    /\ \E n \in Nodes \ tree : IsNext(c, n)
    /\ todo' = [todo EXCEPT ![c] = {Root}]
    /\ UNCHANGED <<tree, pc, listed, result, history>>

\* A node has gone since its parent was asked: the error ends the call.
ListNoNode(c) ==
    /\ pc[c] = "list"
    /\ \E n \in Nodes \ tree : IsNext(c, n)
    /\ Return(c, "error")
    /\ UNCHANGED <<tree, todo, listed, history>>

Listed(c) ==
    /\ pc[c] = "list" /\ todo[c] = {}
    /\ pc' = [pc EXCEPT ![c] = "delete"]
    /\ UNCHANGED <<tree, todo, listed, result, history>>

-----------------------------------------------------------------------------
\* NOT THE CODE: the loop runs from the first to the last.
IsFirst(c, n) == n \in listed[c] /\ \A m \in listed[c] : n <= m

IsLast(c, n) == n \in listed[c] /\ \A m \in listed[c] : m <= n

\* conn.Delete of a node: ZooKeeper refuses when it is not there, or has
\* children.
Refused(n) == n \notin tree \/ Children(n) # {}

\* What is refused is only warned about.
DeleteNode(c) ==
    /\ pc[c] = "delete"
    /\ \E n \in Nodes :
         /\ IsLast(c, n)
         /\ listed' = [listed EXCEPT ![c] = @ \ {n}]
         /\ tree' = IF Refused(n) THEN tree ELSE tree \ {n}
    /\ UNCHANGED <<pc, todo, result, history>>

\* NOT THE CODE: the last refusal is only warned about as well.
DeleteRootWarning(c) ==
    /\ pc[c] = "delete" /\ listed[c] = {}
    /\ tree' = IF Refused(Root) THEN tree ELSE tree \ {Root}
    /\ Return(c, "nil")
    /\ UNCHANGED <<todo, listed, history>>

DeleteRoot(c) ==
    /\ pc[c] = "delete" /\ listed[c] = {}
    /\ IF Refused(Root) THEN Return(c, "error") /\ UNCHANGED tree
       ELSE Return(c, "nil") /\ tree' = tree \ {Root}
    /\ UNCHANGED <<todo, listed, history>>

-----------------------------------------------------------------------------
\* The connection, or a request of the listing, fails.
ListFails(c) ==
    /\ pc[c] \in {"idle", "list"}
    /\ failed' = TRUE
    /\ Return(c, "error")
    /\ UNCHANGED <<tree, todo, listed, written>>

\* The deletion of a node fails, or its answer is lost.
DeleteFails(c) ==
    /\ pc[c] = "delete"
    /\ failed' = TRUE
    /\ \E n \in Nodes :
         /\ IsLast(c, n) \/ (listed[c] = {} /\ n = Root)
         /\ tree' = tree \/ (~Refused(n) /\ tree' = tree \ {n})
         /\ IF listed[c] = {} THEN Return(c, "error") ELSE UNCHANGED <<pc, result>>
         /\ listed' = [listed EXCEPT ![c] = @ \ {n}]
    /\ UNCHANGED <<todo, written>>

\* The scheduler writes, as long as its tasks run.
Create(n) ==
    /\ n \notin tree
    /\ n # Root => Parent[n] \in tree
    /\ tree' = tree \cup {n}
    /\ written' = TRUE
    /\ UNCHANGED <<pc, todo, listed, result, failed>>

-----------------------------------------------------------------------------
znodeTree(c) == List(c) \/ ListNoNode(c) \/ Listed(c)
deleteTree(c) == znodeTree(c) \/ DeleteNode(c) \/ DeleteRoot(c)

Next ==
    \/ \E c \in Deleters : Connect(c) \/ deleteTree(c) \/ ListFails(c) \/ DeleteFails(c)
    \/ \E n \in Nodes : Create(n)

Spec == Init /\ [][Next]_vars

\* ZooKeeper, or the client library, answers every request.
FairSpec == Spec /\ \A c \in Deleters : WF_vars(deleteTree(c))

-----------------------------------------------------------------------------
\* Nothing but deletions has happened, and no request has failed.
Quiet == ~failed /\ ~written

(* When the framework has stopped writing and ZooKeeper answers, the tree  *)
(* is gone once every call has returned, however the calls interleave, and *)
(* exactly one caller was told nil: calls that trip over each other's      *)
(* deletions leave nothing behind, and only one of them takes the credit.  *)
QuietRemoval ==
    /\ Quiet
    /\ \A c \in Deleters : pc[c] \in {"idle", "done"}
    /\ \E c \in Deleters : pc[c] = "done"
    => /\ tree = {}
       /\ \E c \in Deleters : {d \in Deleters : result[d] = "nil"} = {c}

(* The tree is removed leaf by leaf, and nil is the answer of nothing but  *)
(* the step that removes the last node: whoever writes in the meantime, a  *)
(* caller learns from the error that nodes are left (postUninstall, the    *)
(* only caller, does not look at it: see Lifecycle).                       *)
Removal == INSTANCE TreeRemoval WITH
    Nodes <- Nodes, Root <- Root, Parent <- Parent, Deleters <- Deleters,
    tree <- tree, result <- result
RemovalSpec == Removal!Spec

(* A call returns, even if nodes come and go all the time.                 *)
DeleteEnds == \A c \in Deleters : pc[c] = "list" ~> pc[c] = "done"
=============================================================================
