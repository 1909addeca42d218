------------------------ MODULE ConsulMonitorProofs ------------------------
(***************************************************************************)
(* Proofs about ConsulMonitor, for any set of processes and keys and any   *)
(* bounds.                                                                 *)
(***************************************************************************)
EXTENDS ConsulMonitor, TLAPS

\* Process n stands between InstallPackage and the deletion of p.
Current(n, p) == pc[n] \in {"delete", "unwind"} /\ IsNext(n, p)

OnePerKey(pairs) == \A p, q \in pairs : p.key = q.key => p = q

\* Consul numbers its writes, and keeps one pair for a key.
Indexed ==
    /\ queue \subseteq submitted
    /\ \A n \in Instances : kvps[n] \subseteq submitted
    /\ \A p \in submitted : p.index <= modifyIndex
    /\ \A p, q \in submitted : p.index = q.index => p = q
    /\ OnePerKey(queue)
    /\ \A n \in Instances : OnePerKey(kvps[n])

\* A snapshot that is stale for a key is so because of a racing write.
StaleIsRacing ==
    \A n \in Instances : \A p \in kvps[n], q \in queue :
        p.key = q.key => q = p \/ q \in racing

\* What is about to be deleted has been acted upon.
CurrentHandled ==
    \A n \in Instances : \A p \in Pair : Current(n, p) => p \in handled

\* What is still to be installed has been attempted once for each fault at most.
AttemptsCounted ==
    \A n \in Instances :
        /\ \A p \in submitted :
             p \in queue \cup kvps[n] /\ ~Current(n, p)
                 => attempts[n][p.index] <= faults[n]
        /\ \A i \in Index : attempts[n][i] <= 1 + faults[n]
        /\ \A i \in Index : modifyIndex < i => attempts[n][i] = 0

LossInv ==
    /\ TypeOK
    /\ Indexed
    /\ StaleIsRacing
    /\ CurrentHandled
    /\ NoSilentLoss

IInv == LossInv /\ AttemptsCounted

-----------------------------------------------------------------------------
(* Type correctness.                                                       *)

LEMMA TypeInit == Init => TypeOK
  <1> SUFFICES ASSUME Init PROVE TypeOK
    OBVIOUS
  <1> QED
    BY BoundsAssumption DEF Init, TypeOK, Place

LEMMA TypeStep == TypeOK /\ [Next]_vars => TypeOK'
  <1> SUFFICES ASSUME TypeOK, [Next]_vars PROVE TypeOK'
    OBVIOUS
  <1> USE BoundsAssumption DEF TypeOK, queueVars, Place
  <1>1. ASSUME NEW key \in Keys, Withdraw(key) PROVE TypeOK'
    BY <1>1 DEF Withdraw, OfKey
  <1>2. ASSUME NEW key \in Keys, NEW valid \in BOOLEAN, Put(key, valid) PROVE TypeOK'
    <2> DEFINE p == [key |-> key, index |-> modifyIndex + 1, valid |-> valid]
    <2>1. p \in Pair
      BY <1>2 DEF Put, Pair, Index
    <2>2. queue' = (queue \ OfKey(queue, key)) \cup {p} /\ submitted' = submitted \cup {p}
      BY <1>2 DEF Put
    <2>3. racing' \in SUBSET Pair
      BY <1>2, <2>1 DEF Put
    <2>4. superseded' \in SUBSET Pair
      BY <1>2 DEF Put, OfKey
    <2> QED
      BY <1>2, <2>1, <2>2, <2>3, <2>4 DEF Put, OfKey
  <1> SUFFICES ASSUME NEW n \in Instances, Watch(n) \/ Fault(n) \/ Restart(n) \/ UNCHANGED vars
               PROVE TypeOK'
    BY <1>1, <1>2 DEF Next, Client, vars
  <1>3. CASE List(n)
    BY <1>3 DEF List
  <1>4. CASE Skip(n)
    BY <1>4 DEF Skip
  <1>5. CASE Reject(n)
    BY <1>5 DEF Reject
  <1>6. CASE InstallPackage(n)
    <2> PICK p \in kvps[n] : /\ handled' = handled \cup {p}
                             /\ attempts' = [attempts EXCEPT ![n][p.index] = @ + 1]
      BY <1>6 DEF InstallPackage
    <2>1. p.index \in Index
      BY DEF Pair
    <2>2. attempts' \in [Instances -> [Index -> Nat]]
      BY <2>1
    <2> QED
      BY <1>6, <2>2 DEF InstallPackage
  <1>7. CASE Delete(n)
    BY <1>7 DEF Delete, Leave, OfKey
  <1>8. CASE DeleteFails(n)
    <2>1. faults' \in [Instances -> 0 .. MaxFaults]
      BY <1>8 DEF DeleteFails
    <2>2. kvps' \in [Instances -> SUBSET Pair] /\ pc' \in [Instances -> Place]
      BY <1>8 DEF DeleteFails, Leave
    <2> QED
      BY <1>8, <2>1, <2>2 DEF DeleteFails
  <1>9. CASE Crash(n)
    BY <1>9 DEF Crash
  <1>10. CASE Restart(n)
    BY <1>10 DEF Restart
  <1>11. CASE UNCHANGED vars
    BY <1>11 DEF vars
  <1> QED
    BY <1>3, <1>4, <1>5, <1>6, <1>7, <1>8, <1>9, <1>10, <1>11 DEF Watch, Fault

(* Every variable keeps its type, whatever clients, crashes and panics do. *)
THEOREM TypeCorrect == Spec => []TypeOK
  <1> QED
    BY TypeInit, TypeStep, PTL DEF Spec

-----------------------------------------------------------------------------
(* Facts about snapshots.                                                  *)

\* The loop has reached at most one pair.
LEMMA NextUnique ==
    ASSUME TypeOK, Indexed, NEW n \in Instances, NEW p, NEW q,
           IsNext(n, p), IsNext(n, q)
    PROVE  p = q
  <1>1. p \in kvps[n] /\ q \in kvps[n] /\ p.key <= q.key /\ q.key <= p.key
    BY DEF IsNext
  <1>2. p.key \in Nat /\ q.key \in Nat
    <2>1. p \in Pair /\ q \in Pair
      BY <1>1 DEF TypeOK
    <2> QED
      BY <2>1, KeysAssumption DEF Pair
  <1>3. p.key = q.key
    BY <1>1, <1>2
  <1> QED
    BY <1>1, <1>3 DEF Indexed, OnePerKey

\* Where no snapshot grows and no process comes to stand before a deletion, the
\* facts about snapshots survive any step that keeps the queue.
LEMMA ShrinkStep ==
    ASSUME TypeOK, Indexed, StaleIsRacing, CurrentHandled,
           UNCHANGED queueVars, handled \subseteq handled',
           \A n \in Instances : kvps'[n] \subseteq kvps[n],
           \A n \in Instances : \A p \in Pair : Current(n, p)' => Current(n, p) \/ p \in handled'
    PROVE  Indexed' /\ StaleIsRacing' /\ CurrentHandled'
  <1>1. Indexed'
    BY DEF Indexed, OnePerKey, queueVars
  <1>2. StaleIsRacing'
    BY DEF StaleIsRacing, queueVars
  <1>3. CurrentHandled'
    BY DEF CurrentHandled
  <1> QED
    BY <1>1, <1>2, <1>3

\* Deleting a key whose current holder has handled it loses nothing else than
\* racing writes.
LEMMA DeletedIsAccounted ==
    ASSUME LossInv, NEW n \in Instances, NEW p \in kvps[n], Current(n, p)
    PROVE  OfKey(queue, p.key) \subseteq handled \cup racing
  <1>1. p \in handled
    BY DEF LossInv, TypeOK, CurrentHandled
  <1>2. \A q \in OfKey(queue, p.key) : q = p \/ q \in racing
    BY DEF LossInv, StaleIsRacing, OfKey
  <1> QED
    BY <1>1, <1>2

-----------------------------------------------------------------------------
(* Requests are not lost.                                                  *)

LEMMA PutLoss ==
    ASSUME LossInv, NEW key \in Keys, NEW valid \in BOOLEAN, Put(key, valid)
    PROVE  Indexed' /\ StaleIsRacing' /\ CurrentHandled' /\ NoSilentLoss'
  <1> DEFINE p == [key |-> key, index |-> modifyIndex + 1, valid |-> valid]
  <1>1. /\ queue' = (queue \ OfKey(queue, key)) \cup {p}
        /\ submitted' = submitted \cup {p}
        /\ racing' = IF \E n \in Instances : OfKey(kvps[n], key) # {}
                     THEN racing \cup {p} ELSE racing
        /\ modifyIndex' = modifyIndex + 1
        /\ superseded' = superseded \cup OfKey(queue, key)
        /\ UNCHANGED <<kvps, pc, handled>>
    BY DEF Put
  <1>2. modifyIndex \in Nat /\ p.index = modifyIndex + 1 /\ p.key = key
    BY BoundsAssumption DEF LossInv, TypeOK
  <1>3. \A q \in submitted : q.index \in Nat /\ q.index <= modifyIndex
    BY DEF LossInv, TypeOK, Indexed, Pair, Index
  <1>4. \A q \in submitted : q.index # p.index
    BY <1>2, <1>3
  <1> HIDE DEF p
  <1>5. Indexed'
    <2>1. queue' \subseteq submitted' /\ \A n \in Instances : kvps'[n] \subseteq submitted'
      BY <1>1 DEF LossInv, Indexed
    <2>2. \A q \in submitted' : q.index <= modifyIndex'
      BY <1>1, <1>2, <1>3
    <2>3. \A q, r \in submitted' : q.index = r.index => q = r
      BY <1>1, <1>4 DEF LossInv, Indexed
    <2>4. OnePerKey(queue')
      BY <1>1, <1>2 DEF LossInv, Indexed, OnePerKey, OfKey
    <2> QED
      BY <1>1, <2>1, <2>2, <2>3, <2>4 DEF LossInv, Indexed, OnePerKey
  <1>6. StaleIsRacing'
    <2> SUFFICES ASSUME NEW n \in Instances, NEW q \in kvps[n], NEW r \in queue',
                        q.key = r.key
                 PROVE  r = q \/ r \in racing'
      BY <1>1 DEF StaleIsRacing
    <2>1. CASE r \in queue
      BY <1>1, <2>1 DEF LossInv, StaleIsRacing
    <2>2. CASE r = p
      BY <1>1, <1>2, <2>2 DEF OfKey
    <2> QED
      BY <1>1, <2>1, <2>2
  <1>7. CurrentHandled'
    BY <1>1 DEF LossInv, CurrentHandled, Current, IsNext
  <1>8. NoSilentLoss'
    BY <1>1 DEF LossInv, NoSilentLoss
  <1> QED
    BY <1>5, <1>6, <1>7, <1>8

LEMMA WithdrawLoss ==
    ASSUME LossInv, NEW key \in Keys, Withdraw(key)
    PROVE  Indexed' /\ StaleIsRacing' /\ CurrentHandled' /\ NoSilentLoss'
  <1>1. /\ queue' = queue \ OfKey(queue, key)
        /\ superseded' = superseded \cup OfKey(queue, key)
        /\ UNCHANGED <<modifyIndex, kvps, pc, submitted, handled, racing>>
    BY DEF Withdraw
  <1>2. Indexed'
    BY <1>1 DEF LossInv, Indexed, OnePerKey
  <1>3. StaleIsRacing'
    BY <1>1 DEF LossInv, StaleIsRacing
  <1>4. CurrentHandled'
    BY <1>1 DEF LossInv, CurrentHandled, Current, IsNext
  <1>5. NoSilentLoss'
    BY <1>1 DEF LossInv, NoSilentLoss
  <1> QED
    BY <1>2, <1>3, <1>4, <1>5

LEMMA ListLoss ==
    ASSUME LossInv, NEW n \in Instances, List(n)
    PROVE  Indexed' /\ StaleIsRacing' /\ CurrentHandled' /\ NoSilentLoss'
  <1>1. /\ pc[n] = "range"
        /\ kvps' = [kvps EXCEPT ![n] = queue]
        /\ UNCHANGED <<queueVars, pc, handled>>
    BY DEF List
  <1>2. \A m \in Instances : kvps'[m] = IF m = n THEN queue ELSE kvps[m]
    BY <1>1 DEF LossInv, TypeOK
  <1>3. Indexed'
    BY <1>1, <1>2 DEF LossInv, Indexed, OnePerKey, queueVars
  <1>4. StaleIsRacing'
    <2>1. \A p, q \in queue : p.key = q.key => p = q
      BY DEF LossInv, Indexed, OnePerKey
    <2> QED
      BY <1>1, <1>2, <2>1 DEF LossInv, StaleIsRacing, queueVars
  <1>5. CurrentHandled'
    BY <1>1, <1>2 DEF LossInv, CurrentHandled, Current, IsNext
  <1>6. NoSilentLoss'
    BY <1>1 DEF LossInv, NoSilentLoss, queueVars
  <1> QED
    BY <1>3, <1>4, <1>5, <1>6

\* Skip and Restart only shorten a snapshot; so do the two faults.
LEMMA QuietLoss ==
    ASSUME LossInv, NEW n \in Instances,
           Skip(n) \/ DeleteFails(n) \/ Crash(n) \/ Restart(n)
    PROVE  Indexed' /\ StaleIsRacing' /\ CurrentHandled' /\ NoSilentLoss'
  <1>1. UNCHANGED queueVars /\ UNCHANGED handled
    BY DEF Skip, DeleteFails, Crash, Restart
  <1>2. \A m \in Instances : kvps'[m] \subseteq kvps[m]
    BY DEF Skip, DeleteFails, Leave, Crash, Restart, LossInv, TypeOK
  <1>3. \A m \in Instances \ {n} : kvps'[m] = kvps[m] /\ pc'[m] = pc[m]
    BY DEF Skip, DeleteFails, Leave, Crash, Restart, LossInv, TypeOK
  <1>4. pc'[n] \in {"range", "down"}
    BY DEF Skip, DeleteFails, Leave, Crash, Restart, LossInv, TypeOK
  <1>5. \A m \in Instances : \A p \in Pair : Current(m, p)' => Current(m, p)
    BY <1>3, <1>4 DEF Current, IsNext
  <1>6. Indexed' /\ StaleIsRacing' /\ CurrentHandled'
    BY <1>1, <1>2, <1>5, ShrinkStep DEF LossInv
  <1>7. NoSilentLoss'
    BY <1>1 DEF LossInv, NoSilentLoss, queueVars
  <1> QED
    BY <1>6, <1>7

\* Reject and InstallPackage bring the goroutine to the deletion of a pair that
\* they have added to the handled ones.
LEMMA HandleLoss ==
    ASSUME LossInv, NEW n \in Instances, Reject(n) \/ InstallPackage(n)
    PROVE  Indexed' /\ StaleIsRacing' /\ CurrentHandled' /\ NoSilentLoss'
  <1>1. UNCHANGED queueVars /\ UNCHANGED kvps
    BY DEF Reject, InstallPackage
  <1>2. PICK p \in kvps[n] : IsNext(n, p) /\ handled' = handled \cup {p}
    BY DEF Reject, InstallPackage
  <1>3. \A m \in Instances \ {n} : pc'[m] = pc[m]
    BY DEF Reject, InstallPackage, LossInv, TypeOK
  <1>4. \A m \in Instances : \A q \in Pair :
          Current(m, q)' => Current(m, q) \/ q \in handled'
    <2> SUFFICES ASSUME NEW m \in Instances, NEW q \in Pair, Current(m, q)'
                 PROVE  Current(m, q) \/ q \in handled'
      OBVIOUS
    <2>1. IsNext(m, q)
      BY <1>1 DEF Current, IsNext
    <2>2. CASE m = n
      BY <1>2, <2>1, <2>2, NextUnique DEF LossInv
    <2>3. CASE m # n
      BY <1>3, <2>1, <2>3 DEF Current
    <2> QED
      BY <2>2, <2>3
  <1>5. Indexed' /\ StaleIsRacing' /\ CurrentHandled'
    BY <1>1, <1>2, <1>4, ShrinkStep DEF LossInv
  <1>6. NoSilentLoss'
    BY <1>1, <1>2 DEF LossInv, NoSilentLoss, queueVars
  <1> QED
    BY <1>5, <1>6

LEMMA DeleteLoss ==
    ASSUME LossInv, NEW n \in Instances, Delete(n)
    PROVE  Indexed' /\ StaleIsRacing' /\ CurrentHandled' /\ NoSilentLoss'
  <1>1. PICK p \in kvps[n] : /\ IsNext(n, p)
                             /\ queue' = queue \ OfKey(queue, p.key)
                             /\ Leave(n, p)
    BY DEF Delete
  <1>2. /\ pc[n] \in {"delete", "unwind"}
        /\ UNCHANGED <<modifyIndex, submitted, handled, superseded, racing>>
    BY DEF Delete
  <1>3. \A m \in Instances : kvps'[m] \subseteq kvps[m]
    BY <1>1 DEF Leave, LossInv, TypeOK
  <1>4. \A m \in Instances \ {n} : kvps'[m] = kvps[m] /\ pc'[m] = pc[m]
    BY <1>1 DEF Leave, LossInv, TypeOK
  <1>5. pc'[n] \in {"range", "down"}
    BY <1>1 DEF Leave, LossInv, TypeOK
  <1>6. Indexed'
    BY <1>1, <1>2, <1>3 DEF LossInv, Indexed, OnePerKey
  <1>7. StaleIsRacing'
    BY <1>1, <1>2, <1>3 DEF LossInv, StaleIsRacing
  <1>8. CurrentHandled'
    BY <1>2, <1>4, <1>5 DEF LossInv, CurrentHandled, Current, IsNext
  <1>9. NoSilentLoss'
    <2>1. OfKey(queue, p.key) \subseteq handled \cup racing
      BY <1>1, <1>2, DeletedIsAccounted DEF Current
    <2> QED
      BY <1>1, <1>2, <2>1 DEF LossInv, NoSilentLoss
  <1> QED
    BY <1>6, <1>7, <1>8, <1>9

LEMMA LossStep == LossInv /\ [Next]_vars => LossInv'
  <1> SUFFICES ASSUME LossInv, [Next]_vars PROVE LossInv'
    OBVIOUS
  <1>1. TypeOK'
    BY TypeStep DEF LossInv
  <1>2. CASE UNCHANGED vars
    BY <1>2 DEF vars, LossInv, TypeOK, Indexed, OnePerKey, StaleIsRacing,
               CurrentHandled, Current, IsNext, NoSilentLoss
  <1>3. CASE Client
    BY <1>1, <1>3, PutLoss, WithdrawLoss DEF Client, LossInv
  <1>4. ASSUME NEW n \in Instances, Watch(n) \/ Fault(n) \/ Restart(n)
        PROVE  LossInv'
    <2>1. CASE List(n)
      BY <1>1, <2>1, ListLoss DEF LossInv
    <2>2. CASE Skip(n) \/ DeleteFails(n) \/ Crash(n) \/ Restart(n)
      BY <1>1, <2>2, QuietLoss DEF LossInv
    <2>3. CASE Reject(n) \/ InstallPackage(n)
      BY <1>1, <2>3, HandleLoss DEF LossInv
    <2>4. CASE Delete(n)
      BY <1>1, <2>4, DeleteLoss DEF LossInv
    <2> QED
      BY <1>4, <2>1, <2>2, <2>3, <2>4 DEF Watch, Fault
  <1> QED
    BY <1>2, <1>3, <1>4 DEF Next

LEMMA LossInit == Init => LossInv
  <1> QED
    BY TypeInit DEF LossInv, Init, Indexed, OnePerKey, StaleIsRacing,
                    CurrentHandled, Current, IsNext, NoSilentLoss

LEMMA LossInvariant == Spec => []LossInv
  <1> QED
    BY LossInit, LossStep, PTL DEF Spec

(* A request disappears from Consul without having been acted upon, and    *)
(* without a client's doing, only if it was written while a process held   *)
(* an earlier pair of its key: for any number of processes, any crashes,   *)
(* panics and failed deletions.                                            *)
THEOREM RequestsNotLost == Spec => []NoSilentLoss
  <1>1. LossInv => NoSilentLoss
    BY DEF LossInv
  <1> QED
    BY <1>1, LossInvariant, PTL

-----------------------------------------------------------------------------
(* Installation attempts are bounded.                                      *)

\* p may still be passed to InstallPackage by n.
Pending(n, p) == p \in queue \cup kvps[n] /\ ~Current(n, p)

LEMMA CountersTyped ==
    ASSUME TypeOK, NEW n \in Instances
    PROVE  faults[n] \in Nat /\ \A i \in Index : attempts[n][i] \in Nat
  <1> QED
    BY BoundsAssumption DEF TypeOK

\* A step that makes no attempt and makes nothing pending keeps the count.
LEMMA NoNewPending ==
    ASSUME IInv, TypeOK', UNCHANGED <<submitted, modifyIndex, attempts>>,
           \A m \in Instances : faults[m] <= faults'[m],
           \A m \in Instances : \A p \in submitted : Pending(m, p)' => Pending(m, p)
    PROVE  AttemptsCounted'
  <1> SUFFICES ASSUME NEW m \in Instances
               PROVE  /\ \A p \in submitted : Pending(m, p)' => attempts[m][p.index] <= faults'[m]
                      /\ \A i \in Index : attempts[m][i] <= 1 + faults'[m]
                      /\ \A i \in Index : modifyIndex < i => attempts[m][i] = 0
    BY DEF AttemptsCounted, Pending
  <1>1. /\ \A p \in submitted : Pending(m, p) => attempts[m][p.index] <= faults[m]
        /\ \A i \in Index : attempts[m][i] <= 1 + faults[m]
        /\ \A i \in Index : modifyIndex < i => attempts[m][i] = 0
    BY DEF IInv, AttemptsCounted, Pending
  <1>2. faults[m] \in Nat /\ \A i \in Index : attempts[m][i] \in Nat
    BY CountersTyped DEF IInv, LossInv
  <1>3. faults'[m] \in Nat /\ faults[m] <= faults'[m]
    BY BoundsAssumption DEF TypeOK
  <1>4. \A p \in submitted : p.index \in Index
    BY DEF IInv, LossInv, TypeOK, Pair
  <1> QED
    BY <1>1, <1>2, <1>3, <1>4

LEMMA PutCount ==
    ASSUME IInv, TypeOK', NEW key \in Keys, NEW valid \in BOOLEAN, Put(key, valid)
    PROVE  AttemptsCounted'
  <1> DEFINE p == [key |-> key, index |-> modifyIndex + 1, valid |-> valid]
  <1>1. /\ queue' = (queue \ OfKey(queue, key)) \cup {p}
        /\ submitted' = submitted \cup {p}
        /\ modifyIndex' = modifyIndex + 1
        /\ modifyIndex < MaxPuts
        /\ UNCHANGED <<kvps, pc, attempts, faults>>
    BY DEF Put
  <1>2. modifyIndex \in Nat /\ p.index = modifyIndex + 1 /\ p.index \in Index
    BY <1>1, BoundsAssumption DEF IInv, LossInv, TypeOK, Index
  <1> HIDE DEF p
  <1> SUFFICES ASSUME NEW m \in Instances
               PROVE  /\ \A q \in submitted' : Pending(m, q)' => attempts[m][q.index] <= faults[m]
                      /\ \A i \in Index : attempts[m][i] <= 1 + faults[m]
                      /\ \A i \in Index : modifyIndex' < i => attempts[m][i] = 0
    BY <1>1 DEF AttemptsCounted, Pending
  <1>3. /\ \A q \in submitted : Pending(m, q) => attempts[m][q.index] <= faults[m]
        /\ \A i \in Index : attempts[m][i] <= 1 + faults[m]
        /\ \A i \in Index : modifyIndex < i => attempts[m][i] = 0
    BY DEF IInv, AttemptsCounted, Pending
  <1>4. faults[m] \in Nat
    BY CountersTyped DEF IInv, LossInv
  <1>5. attempts[m][p.index] <= faults[m]
    <2>1. attempts[m][p.index] = 0
      BY <1>2, <1>3
    <2> QED
      BY <1>4, <2>1
  <1>6. \A q \in submitted : Pending(m, q)' => q = p \/ Pending(m, q)
    BY <1>1 DEF Pending, Current, IsNext
  <1>7. \A q \in submitted' : Pending(m, q)' => attempts[m][q.index] <= faults[m]
    BY <1>1, <1>3, <1>5, <1>6
  <1>8. \A i \in Index : modifyIndex' < i => attempts[m][i] = 0
    BY <1>1, <1>2, <1>3 DEF Index
  <1> QED
    BY <1>3, <1>7, <1>8

LEMMA InstallCount ==
    ASSUME IInv, TypeOK', NEW n \in Instances, InstallPackage(n)
    PROVE  AttemptsCounted'
  <1>1. /\ pc[n] = "range"
        /\ UNCHANGED <<queueVars, kvps, faults>>
    BY DEF InstallPackage
  <1>2. PICK p \in kvps[n] : /\ IsNext(n, p)
                             /\ attempts' = [attempts EXCEPT ![n][p.index] = @ + 1]
    BY DEF InstallPackage
  <1>3. p \in submitted /\ p.index \in Index /\ p.index <= modifyIndex
    BY DEF IInv, LossInv, Indexed, TypeOK, Pair
  <1>4. /\ \A m \in Instances \ {n} : attempts'[m] = attempts[m] /\ pc'[m] = pc[m]
        /\ \A i \in Index \ {p.index} : attempts'[n][i] = attempts[n][i]
        /\ attempts'[n][p.index] = attempts[n][p.index] + 1
        /\ pc'[n] \in {"delete", "unwind"}
    BY <1>2, <1>3 DEF InstallPackage, IInv, LossInv, TypeOK
  <1> SUFFICES ASSUME NEW m \in Instances
               PROVE  /\ \A q \in submitted : Pending(m, q)' => attempts'[m][q.index] <= faults[m]
                      /\ \A i \in Index : attempts'[m][i] <= 1 + faults[m]
                      /\ \A i \in Index : modifyIndex < i => attempts'[m][i] = 0
    BY <1>1 DEF AttemptsCounted, Pending, queueVars
  <1>5. /\ \A q \in submitted : Pending(m, q) => attempts[m][q.index] <= faults[m]
        /\ \A i \in Index : attempts[m][i] <= 1 + faults[m]
        /\ \A i \in Index : modifyIndex < i => attempts[m][i] = 0
    BY DEF IInv, AttemptsCounted, Pending
  <1>6. CASE m # n
    <2>1. \A q \in submitted : Pending(m, q)' => Pending(m, q)
      BY <1>1, <1>4, <1>6 DEF Pending, Current, IsNext, queueVars
    <2> QED
      BY <1>4, <1>5, <1>6, <2>1
  <1>7. CASE m = n
    <2>1. faults[n] \in Nat /\ attempts[n][p.index] \in Nat /\ modifyIndex \in Nat
      BY <1>3, CountersTyped, BoundsAssumption DEF IInv, LossInv, TypeOK
    <2>2. attempts[n][p.index] <= faults[n]
      BY <1>1, <1>3, <1>5, <1>7 DEF Pending, Current
    <2>3. \A i \in Index : attempts'[n][i] <= 1 + faults[n]
      <3>1. attempts'[n][p.index] <= 1 + faults[n]
        BY <1>4, <2>1, <2>2
      <3> QED
        BY <1>4, <1>5, <1>7, <3>1
    <2>4. \A i \in Index : modifyIndex < i => attempts'[n][i] = 0
      <3>1. \A i \in Index : modifyIndex < i => i # p.index
        BY <1>3, <2>1 DEF Index
      <3> QED
        BY <1>4, <1>5, <1>7, <3>1
    <2>5. \A q \in submitted : Pending(n, q)' => q.index # p.index /\ Pending(n, q)
      <3> SUFFICES ASSUME NEW q \in submitted, Pending(n, q)'
                   PROVE  q.index # p.index /\ Pending(n, q)
        OBVIOUS
      <3>1. Pending(n, q)
        BY <1>1 DEF Pending, Current, queueVars
      <3>2. q # p
        BY <1>1, <1>2, <1>4 DEF Pending, Current, IsNext
      <3> QED
        BY <1>3, <3>1, <3>2 DEF IInv, LossInv, Indexed
    <2>6. \A q \in submitted : q.index \in Index
      BY DEF IInv, LossInv, TypeOK, Pair
    <2> QED
      BY <1>4, <1>5, <1>7, <2>3, <2>4, <2>5, <2>6
  <1> QED
    BY <1>6, <1>7

LEMMA DeleteCount ==
    ASSUME IInv, TypeOK', NEW n \in Instances, Delete(n)
    PROVE  AttemptsCounted'
  <1>1. PICK p \in kvps[n] : /\ IsNext(n, p)
                             /\ queue' = queue \ OfKey(queue, p.key)
                             /\ Leave(n, p)
    BY DEF Delete
  <1>2. UNCHANGED <<submitted, modifyIndex, attempts, faults>>
    BY DEF Delete
  <1>3. /\ \A m \in Instances \ {n} : kvps'[m] = kvps[m] /\ pc'[m] = pc[m]
        /\ kvps'[n] \subseteq kvps[n] \ {p}
    BY <1>1 DEF Leave, IInv, LossInv, TypeOK
  <1>4. \A m \in Instances : \A q \in submitted : Pending(m, q)' => Pending(m, q)
    <2> SUFFICES ASSUME NEW m \in Instances, NEW q \in submitted, Pending(m, q)'
                 PROVE  Pending(m, q)
      OBVIOUS
    <2>1. q \in queue' \cup kvps'[m] /\ ~Current(m, q)'
      BY DEF Pending
    <2>2. CASE m = n
      <3>1. q # p /\ q \in queue \cup kvps[n]
        BY <1>1, <1>3, <2>1, <2>2 DEF OfKey
      <3>2. ~IsNext(n, q)
        BY <1>1, <3>1, NextUnique DEF IInv, LossInv
      <3> QED
        BY <2>2, <3>1, <3>2 DEF Pending, Current
    <2>3. CASE m # n
      BY <1>1, <1>3, <2>1, <2>3 DEF Pending, Current, IsNext
    <2> QED
      BY <2>2, <2>3
  <1>5. \A m \in Instances : faults[m] <= faults'[m]
    BY <1>2, CountersTyped DEF IInv, LossInv
  <1> QED
    BY <1>2, <1>4, <1>5, NoNewPending

\* A crash or a failed deletion makes pairs pending again, at the price of a fault.
LEMMA FaultCount ==
    ASSUME IInv, TypeOK', NEW n \in Instances, Fault(n)
    PROVE  AttemptsCounted'
  <1>1. /\ faults' = [faults EXCEPT ![n] = @ + 1]
        /\ UNCHANGED <<queueVars, attempts>>
    BY DEF Fault, DeleteFails, Crash
  <1>2. /\ \A m \in Instances \ {n} : faults'[m] = faults[m] /\ kvps'[m] = kvps[m] /\ pc'[m] = pc[m]
        /\ faults'[n] = faults[n] + 1
    BY <1>1 DEF Fault, DeleteFails, Leave, Crash, IInv, LossInv, TypeOK
  <1> SUFFICES ASSUME NEW m \in Instances
               PROVE  /\ \A q \in submitted : Pending(m, q)' => attempts[m][q.index] <= faults'[m]
                      /\ \A i \in Index : attempts[m][i] <= 1 + faults'[m]
                      /\ \A i \in Index : modifyIndex < i => attempts[m][i] = 0
    BY <1>1 DEF AttemptsCounted, Pending, queueVars
  <1>3. /\ \A q \in submitted : Pending(m, q) => attempts[m][q.index] <= faults[m]
        /\ \A i \in Index : attempts[m][i] <= 1 + faults[m]
        /\ \A i \in Index : modifyIndex < i => attempts[m][i] = 0
    BY DEF IInv, AttemptsCounted, Pending
  <1>4. faults[m] \in Nat /\ \A i \in Index : attempts[m][i] \in Nat
    BY CountersTyped DEF IInv, LossInv
  <1>5. CASE m = n
    <2>1. \A i \in Index : attempts[m][i] <= faults'[m] /\ attempts[m][i] <= 1 + faults'[m]
      BY <1>2, <1>3, <1>4, <1>5
    <2>2. \A q \in submitted : q.index \in Index
      BY DEF IInv, LossInv, TypeOK, Pair
    <2> QED
      BY <1>3, <2>1, <2>2
  <1>6. CASE m # n
    <2>1. \A q \in submitted : Pending(m, q)' => Pending(m, q)
      BY <1>1, <1>2, <1>6 DEF Pending, Current, IsNext, queueVars
    <2> QED
      BY <1>2, <1>3, <1>6, <2>1
  <1> QED
    BY <1>5, <1>6

LEMMA AttemptsStep == IInv /\ [Next]_vars => IInv'
  <1> SUFFICES ASSUME IInv, [Next]_vars PROVE AttemptsCounted'
    BY LossStep DEF IInv
  <1>1. TypeOK'
    BY TypeStep DEF IInv, LossInv
  <1>2. \A m \in Instances : faults[m] <= faults[m]
    BY CountersTyped DEF IInv, LossInv
  <1>3. CASE UNCHANGED vars
    BY <1>3 DEF vars, IInv, AttemptsCounted, Current, IsNext
  <1>4. ASSUME NEW key \in Keys, Withdraw(key) PROVE AttemptsCounted'
    <2>1. UNCHANGED <<submitted, modifyIndex, attempts, faults, kvps, pc>> /\ queue' \subseteq queue
      BY <1>4 DEF Withdraw
    <2>2. \A m \in Instances : \A p \in submitted : Pending(m, p)' => Pending(m, p)
      BY <2>1 DEF Pending, Current, IsNext
    <2> QED
      BY <1>1, <1>2, <2>1, <2>2, NoNewPending
  <1>5. ASSUME NEW n \in Instances, List(n) \/ Skip(n) \/ Reject(n) \/ Restart(n)
        PROVE  AttemptsCounted'
    <2>1. UNCHANGED queueVars /\ UNCHANGED <<attempts, faults>>
      BY <1>5 DEF List, Skip, Reject, Restart
    <2>2. /\ \A m \in Instances \ {n} : kvps'[m] = kvps[m] /\ pc'[m] = pc[m]
          /\ kvps'[n] \subseteq kvps[n] \cup queue
          /\ pc[n] \notin {"delete", "unwind"}
      BY <1>5 DEF List, Skip, Reject, Restart, IInv, LossInv, TypeOK
    <2>3. \A m \in Instances : \A p \in submitted : Pending(m, p)' => Pending(m, p)
      BY <2>1, <2>2 DEF Pending, Current, IsNext, queueVars
    <2> QED
      BY <1>1, <1>2, <2>1, <2>3, NoNewPending DEF queueVars
  <1>6. CASE Client
    BY <1>1, <1>4, <1>6, PutCount DEF Client
  <1>7. ASSUME NEW n \in Instances, Watch(n) \/ Fault(n) \/ Restart(n)
        PROVE  AttemptsCounted'
    BY <1>1, <1>5, <1>7, InstallCount, DeleteCount, FaultCount DEF Watch
  <1> QED
    BY <1>3, <1>6, <1>7 DEF Next

LEMMA AttemptsInit == Init => IInv
  <1> SUFFICES ASSUME Init PROVE AttemptsCounted
    BY LossInit DEF IInv
  <1> QED
    BY DEF Init, AttemptsCounted

(* A process passes a request to InstallPackage at most once more than it  *)
(* has crashed or failed to delete a key: what a crash repeats is bounded, *)
(* and a request that makes InstallPackage panic is not tried for ever.    *)
THEOREM InstallsBounded == Spec => []AttemptsBounded
  <1>1. IInv => AttemptsBounded
    BY DEF IInv, AttemptsCounted, AttemptsBounded
  <1> QED
    BY <1>1, AttemptsInit, AttemptsStep, PTL DEF Spec

-----------------------------------------------------------------------------
(* The monitor implements the abstract queue.                              *)

LEMMA QueueStep == LossInv /\ [Next]_vars => [Queue!Next]_(Queue!vars)
  <1> SUFFICES ASSUME LossInv, [Next]_vars PROVE [Queue!Next]_(Queue!vars)
    OBVIOUS
  <1> USE DEF Queue!vars, Queue!Without, Queue!Overwritten, OfKey
  <1>1. CASE UNCHANGED vars
    BY <1>1 DEF vars
  <1>2. ASSUME NEW key \in Keys, Withdraw(key) PROVE Queue!Next
    <2>1. PICK q \in queue : q.key = key
      BY <1>2 DEF Withdraw
    <2>2. Queue!Withdraw(q.key)
      BY <1>2, <2>1 DEF Withdraw, Queue!Withdraw
    <2> QED
      BY <2>2 DEF Queue!Next
  <1>3. ASSUME NEW key \in Keys, NEW valid \in BOOLEAN, Put(key, valid) PROVE Queue!Next
    <2> DEFINE p == [key |-> key, index |-> modifyIndex + 1, valid |-> valid]
    <2>1. p \in submitted' /\ submitted' \in SUBSET Pair
      BY <1>3, TypeStep DEF Put, LossInv, TypeOK
    <2>2. \A q \in submitted : q.index < p.index
      BY BoundsAssumption DEF LossInv, Indexed, TypeOK, Pair, Index
    <2>3. Queue!Submit(p)
      BY <1>3, <2>2 DEF Put, Queue!Submit
    <2> QED
      BY <2>1, <2>3 DEF Queue!Next
  <1>4. ASSUME NEW n \in Instances,
               List(n) \/ Skip(n) \/ DeleteFails(n) \/ Crash(n) \/ Restart(n)
        PROVE  UNCHANGED Queue!vars
    BY <1>4 DEF List, Skip, DeleteFails, Crash, Restart, queueVars
  <1>5. ASSUME NEW n \in Instances, Reject(n) \/ InstallPackage(n) PROVE Queue!Next
    <2>1. PICK p \in kvps[n] : handled' = handled \cup {p}
      BY <1>5 DEF Reject, InstallPackage
    <2>2. p \in submitted
      BY DEF LossInv, Indexed
    <2>3. Queue!Handle(p)
      BY <1>5, <2>1 DEF Reject, InstallPackage, queueVars, Queue!Handle
    <2> QED
      BY <2>2, <2>3 DEF Queue!Next
  <1>6. ASSUME NEW n \in Instances, Delete(n) PROVE Queue!Next
    <2>1. PICK p \in kvps[n] : IsNext(n, p) /\ queue' = queue \ OfKey(queue, p.key)
      BY <1>6 DEF Delete
    <2>2. p \in handled
      BY <1>6, <2>1 DEF Delete, LossInv, TypeOK, CurrentHandled, Current
    <2>3. Queue!Acknowledge(p)
      BY <1>6, <2>1 DEF Delete, Queue!Acknowledge
    <2> QED
      BY <2>2, <2>3 DEF Queue!Next
  <1> QED
    BY <1>1, <1>2, <1>3, <1>4, <1>5, <1>6 DEF Next, Client, Watch, Fault

(* Every behaviour of the monitors and of their clients is one of the      *)
(* at-least-once queue of RequestQueue: a request leaves Consul when its   *)
(* client overwrites or withdraws it, or when a request of the same key    *)
(* has been acted upon, and in no other way.                               *)
THEOREM ImplementsQueue == Spec => QueueSpec
  <1>1. Init => Queue!Init
    BY DEF Init, Queue!Init
  <1> QED
    BY <1>1, QueueStep, LossInvariant, PTL DEF Spec, QueueSpec, Queue!Spec
=============================================================================
