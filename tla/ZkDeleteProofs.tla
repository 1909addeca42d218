--------------------------- MODULE ZkDeleteProofs ---------------------------
(***************************************************************************)
(* Proofs about ZkDelete, for every tree and any number of calls.  The     *)
(* argument for QuietRemoval: as long as nothing fails and nobody writes,  *)
(* a call that is listing has every node in its list or below a node it    *)
(* will still ask for; so a call that has left the listing deletes all     *)
(* there is; and a call that stumbles over a missing node leaves another   *)
(* one behind it that is deleting, or that has finished.                   *)
(***************************************************************************)
EXTENDS ZkDelete, TLAPS

\* A node has all the nodes above it.
Rooted == \A n \in tree : Above[n] \subseteq tree

\* c has n in its list, or will come to it.
Reached(c, n) == n = Root \/ n \in listed[c] \/ Above[n] \cap todo[c] # {}

ListInv(c) == pc[c] = "list" => \A n \in tree : Reached(c, n)

DeleteInv(c) == pc[c] = "delete" => tree \ {Root} \subseteq listed[c]

\* c has met a node that was deleted after c began.
Stumbled(c) == pc[c] = "done" \/ (pc[c] = "list" /\ ~(todo[c] \subseteq tree))

Finishing == Root \notin tree \/ \E d \in Deleters : pc[d] = "delete"

NilInv ==
    /\ \A c \in Deleters : result[c] = "nil" => Root \notin tree
    /\ \A c, d \in Deleters : result[c] = "nil" /\ result[d] = "nil" => c = d
    /\ Root \notin tree => \E c \in Deleters : result[c] = "nil"
    /\ \A c \in Deleters : result[c] = "nil" => pc[c] = "done"

QuietInv ==
    Quiet =>
        /\ \A c \in Deleters : ListInv(c) /\ DeleteInv(c)
        /\ \A c \in Deleters : Stumbled(c) => Finishing
        /\ NilInv

IInv == TypeOK /\ Rooted /\ QuietInv

-----------------------------------------------------------------------------
LEMMA NodesInNat == ASSUME NEW n \in Nodes PROVE n \in Nat
  BY TreeAssumption

LEMMA TypeInit == Init => TypeOK
  BY DEF Init, TypeOK

LEMMA ChildrenType == ASSUME TypeOK, NEW n PROVE Children(n) \in SUBSET (Nodes \ {Root})
  BY DEF TypeOK, Children

LEMMA TypeStep == TypeOK /\ [Next]_vars => TypeOK'
<1>. SUFFICES ASSUME TypeOK, [Next]_vars PROVE TypeOK'
  OBVIOUS
<1>. USE DEF TypeOK, history
<1>1. ASSUME NEW c \in Deleters, Connect(c) PROVE TypeOK'
  BY <1>1, TreeAssumption DEF Connect
<1>2. ASSUME NEW c \in Deleters, List(c) PROVE TypeOK'
  BY <1>2, ChildrenType DEF List
<1>3. ASSUME NEW c \in Deleters, ListNoNode(c) PROVE TypeOK'
  BY <1>3 DEF ListNoNode, Return
<1>4. ASSUME NEW c \in Deleters, Listed(c) PROVE TypeOK'
  BY <1>4 DEF Listed
<1>5. ASSUME NEW c \in Deleters, DeleteNode(c) PROVE TypeOK'
  BY <1>5 DEF DeleteNode
<1>6. ASSUME NEW c \in Deleters, DeleteRoot(c) PROVE TypeOK'
  BY <1>6 DEF DeleteRoot, Return
<1>7. ASSUME NEW c \in Deleters, ListFails(c) PROVE TypeOK'
  BY <1>7 DEF ListFails, Return
<1>8. ASSUME NEW c \in Deleters, DeleteFails(c) PROVE TypeOK'
  <2>1. PICK n \in Nodes :
          /\ tree' = tree \/ (~Refused(n) /\ tree' = tree \ {n})
          /\ IF listed[c] = {} THEN Return(c, "error") ELSE UNCHANGED <<pc, result>>
          /\ listed' = [listed EXCEPT ![c] = @ \ {n}]
    BY <1>8 DEF DeleteFails
  <2>2. /\ pc' \in [Deleters -> {"idle", "list", "delete", "done"}]
        /\ result' \in [Deleters -> {"none", "nil", "error"}]
    BY <2>1 DEF Return
  <2>3. tree' \in SUBSET Nodes /\ listed' \in [Deleters -> SUBSET (Nodes \ {Root})]
    BY <2>1
  <2>. QED
    BY <1>8, <2>2, <2>3 DEF DeleteFails
<1>9. ASSUME NEW n \in Nodes, Create(n) PROVE TypeOK'
  BY <1>9 DEF Create
<1>10. CASE UNCHANGED vars
  BY <1>10 DEF vars
<1>. QED
  BY <1>1, <1>2, <1>3, <1>4, <1>5, <1>6, <1>7, <1>8, <1>9, <1>10
     DEF Next, deleteTree, znodeTree

-----------------------------------------------------------------------------
(* The tree.                                                               *)

\* What a step of a call may do to the tree.
LEMMA TreeStep ==
    ASSUME TypeOK, [Next]_vars
    PROVE  \/ UNCHANGED tree
           \/ \E n \in tree : ~Refused(n) /\ tree' = tree \ {n}
           \/ \E n \in Nodes : Create(n)
<1>. USE DEF TypeOK
<1>1. ASSUME NEW n, ~Refused(n) PROVE n \in tree
  BY <1>1 DEF Refused
<1>2. ASSUME NEW c \in Deleters, DeleteNode(c) \/ DeleteRoot(c) \/ DeleteFails(c)
      PROVE  UNCHANGED tree \/ \E n \in tree : ~Refused(n) /\ tree' = tree \ {n}
  BY <1>1, <1>2 DEF DeleteNode, DeleteRoot, DeleteFails
<1>3. ASSUME NEW c \in Deleters,
             Connect(c) \/ List(c) \/ ListNoNode(c) \/ Listed(c) \/ ListFails(c)
      PROVE  UNCHANGED tree
  BY <1>3 DEF Connect, List, ListNoNode, Listed, ListFails
<1>. QED
  BY <1>2, <1>3 DEF Next, vars, deleteTree, znodeTree

\* A node that ZooKeeper lets go is above no other.
LEMMA LeafBelowNone ==
    ASSUME TypeOK, Rooted, NEW n \in tree, ~Refused(n), NEW m \in tree
    PROVE  n \notin Above[m]
<1>. SUFFICES ASSUME n \in Above[m] PROVE FALSE
  OBVIOUS
<1>1. m \in Nodes \ {Root}
  BY TreeAssumption DEF TypeOK
<1>2. PICK k \in (Above[m] \cup {m}) \ {Root} : Parent[k] = n
  BY <1>1, TreeAssumption
<1>3. k \in tree
  BY <1>2 DEF Rooted
<1>. QED
  BY <1>2, <1>3 DEF Refused, Children

LEMMA RootedStep == TypeOK /\ Rooted /\ [Next]_vars => Rooted'
<1>. SUFFICES ASSUME TypeOK, Rooted, [Next]_vars PROVE Rooted'
  OBVIOUS
<1>1. CASE UNCHANGED tree
  BY <1>1 DEF Rooted
<1>2. ASSUME NEW n \in tree, ~Refused(n), tree' = tree \ {n} PROVE Rooted'
  BY <1>2, LeafBelowNone DEF Rooted
<1>3. ASSUME NEW n \in Nodes, Create(n) PROVE Rooted'
  <2>1. Above[n] \subseteq tree
    <3>1. CASE n = Root
      BY <3>1, TreeAssumption
    <3>2. CASE n # Root
      BY <1>3, <3>2, TreeAssumption DEF Create, Rooted
    <3>. QED
      BY <3>1, <3>2
  <2>. QED
    BY <1>3, <2>1 DEF Create, Rooted
<1>. QED
  BY <1>1, <1>2, <1>3, TreeStep

\* A root without children is all there is.
LEMMA RootAlone ==
    ASSUME TypeOK, Rooted, ~Refused(Root) PROVE tree = {Root}
<1>1. Root \in tree
  BY DEF Refused
<1>2. ASSUME NEW n \in tree, n # Root PROVE FALSE
  <2>1. Root \in Above[n]
    BY <1>2, TreeAssumption DEF TypeOK
  <2>. QED
    BY <2>1, <1>1, LeafBelowNone
<1>. QED
  BY <1>1, <1>2

LEMMA Rootless == ASSUME TypeOK, Rooted, Root \notin tree PROVE tree = {}
<1>1. ASSUME NEW n \in tree PROVE FALSE
  <2>1. Root \in Above[n]
    BY TreeAssumption DEF TypeOK
  <2>. QED
    BY <2>1 DEF Rooted
<1>. QED
  BY <1>1

-----------------------------------------------------------------------------
(* Refinement.                                                             *)

LEMMA RemovalStep ==
    TypeOK /\ Rooted /\ [Next]_vars => [Removal!Next]_<<tree, result>>
<1>. SUFFICES ASSUME TypeOK, Rooted, [Next]_vars
              PROVE  [Removal!Next]_<<tree, result>>
  OBVIOUS
<1>. USE DEF TypeOK, Removal!Next, history
<1>1. ASSUME NEW n, ~Refused(n) PROVE Removal!Leaf(n)
  BY <1>1 DEF Refused, Children, Removal!Leaf
<1>2. ASSUME NEW c \in Deleters,
             Connect(c) \/ List(c) \/ Listed(c)
      PROVE  UNCHANGED <<tree, result>>
  BY <1>2 DEF Connect, List, Listed
<1>3. ASSUME NEW c \in Deleters, ListNoNode(c) \/ ListFails(c) PROVE Removal!GiveUp(c)
  BY <1>3 DEF ListNoNode, ListFails, Return, Removal!GiveUp
<1>4. ASSUME NEW c \in Deleters, DeleteNode(c)
      PROVE  UNCHANGED <<tree, result>> \/ Removal!Shrink
  BY <1>1, <1>4 DEF DeleteNode, Refused, Removal!Shrink
<1>5. ASSUME NEW c \in Deleters, DeleteRoot(c) PROVE Removal!GiveUp(c) \/ Removal!Remove(c)
  <2>1. CASE Refused(Root)
    BY <1>5, <2>1 DEF DeleteRoot, Return, Removal!GiveUp
  <2>2. CASE ~Refused(Root)
    BY <1>5, <2>2, RootAlone DEF DeleteRoot, Return, Removal!Remove
  <2>. QED
    BY <2>1, <2>2
<1>6. ASSUME NEW c \in Deleters, DeleteFails(c)
      PROVE  UNCHANGED <<tree, result>> \/ Removal!Shrink \/ Removal!GiveUp(c)
  <2>1. UNCHANGED result \/ result' = [result EXCEPT ![c] = "error"]
    BY <1>6 DEF DeleteFails, Return
  <2>2. UNCHANGED tree \/ \E n \in tree : Removal!Leaf(n) /\ tree' = tree \ {n}
    BY <1>1, <1>6 DEF DeleteFails, Refused
  <2>. QED
    BY <2>1, <2>2 DEF Removal!Shrink, Removal!GiveUp
<1>7. ASSUME NEW n \in Nodes, Create(n) PROVE Removal!Grow
  BY <1>7 DEF Create, Removal!Grow
<1>8. CASE UNCHANGED vars
  BY <1>8 DEF vars
<1>. QED
  BY <1>2, <1>3, <1>4, <1>5, <1>6, <1>7, <1>8 DEF Next, deleteTree, znodeTree

LEMMA RootedInit == Init => Rooted
  BY DEF Init, Rooted

\* deleteTree implements the removal leaf by leaf of TreeRemoval.
THEOREM RefinesRemoval == Spec => RemovalSpec
<1>1. Init => Removal!Init
  BY DEF Init, Removal!Init
<1>2. Spec => [](TypeOK /\ Rooted)
  BY TypeInit, TypeStep, RootedInit, RootedStep, PTL DEF Spec
<1>. QED
  BY <1>1, <1>2, RemovalStep, PTL DEF Spec, RemovalSpec, Removal!Spec

\* Type correctness of the deletion.
THEOREM TypeCorrect == Spec => []TypeOK
  BY TypeInit, TypeStep, PTL DEF Spec

-----------------------------------------------------------------------------
(* Quiet runs.                                                             *)

\* The steps of a run that stays quiet.
Step(c) ==
    \/ Connect(c) \/ List(c) \/ ListNoNode(c) \/ Listed(c)
    \/ DeleteNode(c) \/ DeleteRoot(c)

LEMMA QuietSteps ==
    ASSUME TypeOK, [Next]_vars, Quiet'
    PROVE  Quiet /\ (UNCHANGED vars \/ \E c \in Deleters : Step(c))
<1>1. ASSUME NEW c \in Deleters, ListFails(c) \/ DeleteFails(c) PROVE FALSE
  BY <1>1 DEF ListFails, DeleteFails, Quiet
<1>2. ASSUME NEW n \in Nodes, Create(n) PROVE FALSE
  BY <1>2 DEF Create, Quiet
<1>3. UNCHANGED vars \/ \E c \in Deleters : Step(c)
  BY <1>1, <1>2 DEF Next, deleteTree, znodeTree, Step
<1>4. UNCHANGED history
  BY <1>3 DEF vars, history, Step, Connect, List, ListNoNode, Listed, DeleteNode, DeleteRoot
<1>. QED
  BY <1>3, <1>4 DEF Quiet, history

\* A call that is deleting meets no node it could not delete.
LEMMA DeletesWhatIsThere ==
    ASSUME TypeOK, Rooted, NEW c \in Deleters, pc[c] = "delete", DeleteInv(c)
    PROVE  /\ \A n \in Nodes : IsLast(c, n) /\ Refused(n) => n \notin tree
           /\ listed[c] = {} /\ Refused(Root) => Root \notin tree
<1>1. ASSUME NEW n \in Nodes, IsLast(c, n), Children(n) # {} PROVE FALSE
  <2>1. PICK m \in tree \ {Root} : Parent[m] = n
    BY <1>1 DEF Children
  <2>2. m \in listed[c]
    BY <2>1 DEF DeleteInv
  <2>3. m \in Nodes \ {Root} /\ m \in Nat /\ n \in Nat
    BY <2>1, TreeAssumption DEF TypeOK
  <2>4. n < m /\ m <= n
    BY <1>1, <2>1, <2>2, <2>3, TreeAssumption DEF IsLast
  <2>. QED
    BY <2>3, <2>4
<1>2. listed[c] = {} => Children(Root) = {}
  BY DEF DeleteInv, Children
<1>. QED
  BY <1>1, <1>2 DEF Refused

LEMMA ListStep ==
    ASSUME TypeOK, Rooted, NEW c \in Deleters, ListInv(c), List(c)
    PROVE  ListInv(c)'
<1>. USE DEF TypeOK
<1>1. PICK n \in tree :
        /\ IsNext(c, n)
        /\ todo' = [todo EXCEPT ![c] = (@ \ {n}) \cup Children(n)]
        /\ listed' = [listed EXCEPT ![c] = @ \cup Children(n)]
  BY DEF List
<1>2. UNCHANGED <<tree, pc>> /\ pc[c] = "list"
  BY DEF List
<1>3. SUFFICES ASSUME NEW m \in tree, m # Root PROVE Reached(c, m)'
  BY <1>2 DEF ListInv, Reached
<1>4. CASE m \in listed[c]
  BY <1>1, <1>4 DEF Reached
<1>5. CASE \E a \in Above[m] \cap todo[c] : a # n
  BY <1>1, <1>5 DEF Reached
<1>6. CASE n \in Above[m]
  <2>1. PICK k \in (Above[m] \cup {m}) \ {Root} : Parent[k] = n
    BY <1>6, <1>3, TreeAssumption
  <2>2. k \in tree
    BY <2>1 DEF Rooted
  <2>3. k \in Children(n)
    BY <2>1, <2>2 DEF Children
  <2>. QED
    BY <1>1, <2>1, <2>3 DEF Reached
<1>. QED
  BY <1>2, <1>3, <1>4, <1>5, <1>6 DEF ListInv, Reached

\* Both invariants of a call survive what other calls do: the tree shrinks.
LEMMA OthersStep ==
    ASSUME NEW d \in Deleters, ListInv(d), DeleteInv(d), tree' \subseteq tree,
           pc'[d] = pc[d], todo'[d] = todo[d], listed'[d] = listed[d]
    PROVE  ListInv(d)' /\ DeleteInv(d)'
  BY DEF ListInv, DeleteInv, Reached

LEMMA CallsStep ==
    ASSUME TypeOK, Rooted, NEW c \in Deleters, Step(c),
           \A d \in Deleters : ListInv(d) /\ DeleteInv(d)
    PROVE  \A d \in Deleters : ListInv(d)' /\ DeleteInv(d)'
<1>. USE DEF TypeOK
<1>1. /\ tree' \subseteq tree
      /\ \A d \in Deleters \ {c} :
           pc'[d] = pc[d] /\ todo'[d] = todo[d] /\ listed'[d] = listed[d]
  BY DEF Step, Connect, List, ListNoNode, Listed, DeleteNode, DeleteRoot, Return
<1>2. ListInv(c)' /\ DeleteInv(c)'
  <2>1. CASE Connect(c)
    BY <2>1, TreeAssumption DEF Connect, ListInv, DeleteInv, Reached
  <2>2. CASE List(c)
    BY <2>2, ListStep DEF List, DeleteInv
  <2>3. CASE Listed(c)
    BY <2>3 DEF Listed, ListInv, DeleteInv, Reached
  <2>4. CASE DeleteNode(c)
    <3>1. PICK n \in Nodes :
            /\ IsLast(c, n)
            /\ listed' = [listed EXCEPT ![c] = @ \ {n}]
            /\ tree' = IF Refused(n) THEN tree ELSE tree \ {n}
      BY <2>4 DEF DeleteNode
    <3>2. n \notin tree'
      BY <2>4, <3>1, DeletesWhatIsThere DEF DeleteNode
    <3>. QED
      BY <2>4, <3>1, <3>2 DEF DeleteNode, ListInv, DeleteInv
  <2>5. CASE ListNoNode(c) \/ DeleteRoot(c)
    BY <2>5 DEF ListNoNode, DeleteRoot, Return, ListInv, DeleteInv
  <2>. QED
    BY <2>1, <2>2, <2>3, <2>4, <2>5 DEF Step
<1>. QED
  BY <1>1, <1>2, OthersStep

\* Whoever is deleting when others finish removes the root in the end.
LEMMA FinishingStays ==
    ASSUME TypeOK, Rooted, NEW c \in Deleters, Step(c), Finishing,
           \A d \in Deleters : DeleteInv(d)
    PROVE  Finishing'
<1>. USE DEF TypeOK
<1>1. tree' \subseteq tree
  BY DEF Step, Connect, List, ListNoNode, Listed, DeleteNode, DeleteRoot, Return
<1>2. CASE Root \notin tree
  BY <1>1, <1>2 DEF Finishing
<1>3. CASE DeleteRoot(c)
  <2>1. Root \notin tree'
    BY <1>3, DeletesWhatIsThere DEF DeleteRoot
  <2>. QED
    BY <2>1 DEF Finishing
<1>4. ASSUME NEW d \in Deleters, pc[d] = "delete", ~DeleteRoot(c) PROVE Finishing'
  <2>1. pc'[d] = "delete"
    BY <1>4 DEF Step, Connect, List, ListNoNode, Listed, DeleteNode, Return
  <2>. QED
    BY <2>1 DEF Finishing
<1>. QED
  BY <1>2, <1>3, <1>4 DEF Finishing

LEMMA StumbleStep ==
    ASSUME TypeOK, Rooted, NEW c \in Deleters, Step(c),
           \A d \in Deleters : DeleteInv(d),
           \A d \in Deleters : Stumbled(d) => Finishing,
           NEW d \in Deleters, Stumbled(d)'
    PROVE  Finishing'
<1>. USE DEF TypeOK
<1>1. SUFFICES Finishing
  BY FinishingStays
<1>2. CASE DeleteNode(c) \/ DeleteRoot(c)
  BY <1>2 DEF DeleteNode, DeleteRoot, Finishing
<1>3. CASE ListNoNode(c)
  <2>1. Stumbled(c)
    BY <1>3 DEF ListNoNode, IsNext, Stumbled
  <2>. QED
    BY <2>1
<1>4. CASE List(c)
  <2>1. Stumbled(d)
    BY <1>4 DEF List, IsNext, Children, Stumbled
  <2>. QED
    BY <2>1
<1>5. CASE Connect(c) \/ Listed(c)
  <2>1. Stumbled(d) \/ Root \notin tree
    BY <1>5 DEF Connect, Listed, Stumbled
  <2>. QED
    BY <2>1 DEF Finishing
<1>. QED
  BY <1>2, <1>3, <1>4, <1>5 DEF Step

LEMMA NilStep ==
    ASSUME TypeOK, Rooted, NilInv, NEW c \in Deleters, Step(c) PROVE NilInv'
<1>. USE DEF TypeOK, NilInv
<1>1. CASE Connect(c) \/ List(c) \/ Listed(c)
  BY <1>1 DEF Connect, List, Listed
<1>2. CASE ListNoNode(c)
  BY <1>2 DEF ListNoNode, Return
<1>3. CASE DeleteNode(c)
  <2>1. Root \in tree => Root \in tree'
    BY <1>3 DEF DeleteNode, IsLast
  <2>2. tree' \subseteq tree
    BY <1>3 DEF DeleteNode
  <2>. QED
    BY <1>3, <2>1, <2>2 DEF DeleteNode
<1>4. CASE DeleteRoot(c) /\ Refused(Root)
  BY <1>4 DEF DeleteRoot, Return
<1>5. CASE DeleteRoot(c) /\ ~Refused(Root)
  <2>1. Root \in tree
    BY <1>5 DEF Refused
  <2>2. \A d \in Deleters : result'[d] = "nil" <=> d = c
    BY <1>5, <2>1 DEF DeleteRoot, Return
  <2>. QED
    BY <1>5, <2>2 DEF DeleteRoot, Return
<1>. QED
  BY <1>1, <1>2, <1>3, <1>4, <1>5 DEF Step

LEMMA QuietStep == IInv /\ [Next]_vars => QuietInv'
<1>. SUFFICES ASSUME IInv, [Next]_vars, Quiet'
              PROVE  /\ \A d \in Deleters : ListInv(d)' /\ DeleteInv(d)'
                     /\ \A d \in Deleters : Stumbled(d)' => Finishing'
                     /\ NilInv'
  BY DEF QuietInv
<1>. USE DEF IInv, QuietInv
<1>1. CASE UNCHANGED vars
  BY <1>1, QuietSteps DEF vars, ListInv, DeleteInv, Reached, Stumbled, Finishing, NilInv
<1>2. ASSUME NEW c \in Deleters, Step(c)
      PROVE  /\ \A d \in Deleters : ListInv(d)' /\ DeleteInv(d)'
             /\ \A d \in Deleters : Stumbled(d)' => Finishing'
             /\ NilInv'
  <2>1. Quiet
    BY QuietSteps
  <2>. QED
    BY <1>2, <2>1, CallsStep, StumbleStep, NilStep
<1>. QED
  BY <1>1, <1>2, QuietSteps

LEMMA QuietInit == Init => QuietInv
  BY DEF Init, QuietInv, ListInv, DeleteInv, Stumbled, NilInv

LEMMA QuietImplies == IInv => QuietRemoval
<1>. SUFFICES ASSUME IInv, Quiet, \A c \in Deleters : pc[c] \in {"idle", "done"},
                     NEW e \in Deleters, pc[e] = "done"
              PROVE  /\ tree = {}
                     /\ \E c \in Deleters : {d \in Deleters : result[d] = "nil"} = {c}
  BY DEF QuietRemoval
<1>1. Root \notin tree
  BY DEF IInv, QuietInv, Stumbled, Finishing
<1>2. tree = {}
  BY <1>1, Rootless DEF IInv
<1>3. PICK c \in Deleters : result[c] = "nil"
  BY <1>1 DEF IInv, QuietInv, NilInv
<1>4. {d \in Deleters : result[d] = "nil"} = {c}
  BY <1>3 DEF IInv, QuietInv, NilInv
<1>. QED
  BY <1>2, <1>4

\* Without failures and writes, any number of interleaved calls removes the
\* tree, and one of them is told so.
THEOREM QuietRemovalHolds == Spec => []QuietRemoval
<1>1. Init => IInv
  BY TypeInit, RootedInit, QuietInit DEF IInv
<1>2. IInv /\ [Next]_vars => IInv'
  BY TypeStep, RootedStep, QuietStep DEF IInv
<1>. QED
  BY <1>1, <1>2, QuietImplies, PTL DEF Spec
=============================================================================
