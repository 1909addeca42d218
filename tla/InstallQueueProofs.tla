------------------------- MODULE InstallQueueProofs -------------------------
(***************************************************************************)
(* Proofs about InstallQueue, for any processes, keys, apps and bounds.    *)
(* The composition adds calls to the steps of the monitor, so what         *)
(* ConsulMonitorProofs shows of the monitor holds here too; what is new is *)
(* that a call in progress is that of the pair the process has in hand.    *)
(***************************************************************************)
EXTENDS InstallQueue, ConsulMonitorProofs

\* A process waits for the call of the pair it will delete next.
Waiting ==
    \A n \in Instances : waiting[n] # NoCall => pc[n] = "delete" /\ IsNext(n, waiting[n])

CurrentAnswered ==
    \A n \in Instances : \A p \in Pair :
        Current(n, p) /\ waiting[n] = NoCall => p \in answered

AskedFor(app) == \E p \in Outstanding : AppId[p.key] = app

GoneInv == \A app \in gone : app \notin apps /\ ~AskedFor(app)

Sent == late \subseteq submitted /\ answered \subseteq submitted

CallInv == CallTypeOK /\ Waiting /\ CurrentAnswered /\ Sent /\ GoneInv

-----------------------------------------------------------------------------
LEMMA CallInitInv == CallInit => Init /\ CallInv
  BY DEF CallInit, Init, CallInv, CallTypeOK, Waiting, CurrentAnswered, Current, Sent, GoneInv

\* The composition moves the monitor as the monitor moves by itself.
LEMMA MonitorStep == [CallNext]_allVars => [Next]_vars
<1>. SUFFICES ASSUME [CallNext]_allVars PROVE [Next]_vars
  OBVIOUS
<1>1. ASSUME NEW key \in Keys, TakeBack(key) \/ \E valid \in BOOLEAN : Ask(key, valid)
      PROVE  Next
  BY <1>1 DEF TakeBack, Ask, Next, Client
<1>2. ASSUME NEW app, Remove(app) PROVE UNCHANGED vars
  BY <1>2 DEF Remove
<1>3. ASSUME NEW n \in Instances,
             Take(n) \/ Refuse(n) \/ Send(n) \/ Acknowledge(n) \/ Kill(n) \/ StartAgain(n)
      PROVE  Next
  BY <1>3 DEF Take, Refuse, Send, Acknowledge, Kill, StartAgain, Next, Watch, Fault
<1>4. ASSUME NEW n, Answer(n) \/ Arrive(n) PROVE UNCHANGED vars
  BY <1>4 DEF Answer, Arrive
<1>. QED
  BY <1>1, <1>2, <1>3, <1>4 DEF CallNext, allVars

LEMMA MonitorSpec == CallSpec => Spec
  BY CallInitInv, MonitorStep, PTL DEF CallSpec, Spec

\* The pair in hand is one that a client has written.
LEMMA InHandType ==
    ASSUME LossInv, NEW n \in Instances, NEW p \in kvps[n]
    PROVE  p \in Pair /\ p \in submitted /\ p.key \in Keys
  BY DEF LossInv, TypeOK, Indexed, Pair

LEMMA WaitingType ==
    ASSUME LossInv, CallInv, NEW n \in Instances, waiting[n] # NoCall
    PROVE  /\ waiting[n] \in kvps[n] /\ waiting[n] \in Pair
           /\ waiting[n] \in submitted /\ AppId[waiting[n].key] \in AppIds
  BY InHandType DEF CallInv, Waiting, IsNext, AppIds

-----------------------------------------------------------------------------
(* Type correctness.                                                       *)

LEMMA PostedType ==
    ASSUME CallTypeOK, NEW p \in Pair, Posted(p) PROVE apps' \in SUBSET AppIds
  BY DEF CallTypeOK, Posted, AppIds, Pair

LEMMA CallTypeStep == LossInv /\ CallInv /\ [CallNext]_allVars => CallTypeOK'
<1>. SUFFICES ASSUME LossInv, CallInv, [CallNext]_allVars PROVE CallTypeOK'
  OBVIOUS
<1>. USE DEF CallInv, CallTypeOK, callVars
<1>1. ASSUME NEW key \in Keys, TakeBack(key) \/ \E valid \in BOOLEAN : Ask(key, valid)
      PROVE  CallTypeOK'
  BY <1>1 DEF TakeBack, Ask
<1>2. ASSUME NEW app, Remove(app) PROVE CallTypeOK'
  BY <1>2 DEF Remove
<1>3. ASSUME NEW n \in Instances, Take(n) \/ Acknowledge(n) \/ StartAgain(n)
      PROVE  CallTypeOK'
  BY <1>3 DEF Take, Acknowledge, StartAgain
<1>4. ASSUME NEW n \in Instances, Refuse(n) PROVE CallTypeOK'
  <2>1. {p \in kvps[n] : IsNext(n, p)} \subseteq Pair
    BY InHandType
  <2>. QED
    BY <1>4, <2>1 DEF Refuse
<1>5. ASSUME NEW n \in Instances, Send(n) PROVE CallTypeOK'
  BY <1>5, InHandType DEF Send
<1>6. ASSUME NEW n \in Instances, Answer(n) PROVE CallTypeOK'
  BY <1>6, WaitingType, PostedType DEF Answer
<1>7. ASSUME NEW n \in Instances, Kill(n) PROVE CallTypeOK'
  BY <1>7 DEF Kill
<1>8. ASSUME NEW p \in late, Arrive(p) PROVE CallTypeOK'
  BY <1>8, PostedType DEF Arrive
<1>9. CASE UNCHANGED allVars
  BY <1>9 DEF allVars
<1>. QED
  BY <1>1, <1>2, <1>3, <1>4, <1>5, <1>6, <1>7, <1>8, <1>9 DEF CallNext

-----------------------------------------------------------------------------
(* The call in progress.                                                   *)

\* A step of n leaves the other processes where they are.
Untouched(m) == pc'[m] = pc[m] /\ kvps'[m] = kvps[m] /\ waiting'[m] = waiting[m]

CallOf(m) ==
    /\ waiting[m] # NoCall => pc[m] = "delete" /\ IsNext(m, waiting[m])
    /\ \A p \in Pair : Current(m, p) /\ waiting[m] = NoCall => p \in answered

LEMMA CallOfAll == Waiting /\ CurrentAnswered <=> \A m \in Instances : CallOf(m)
  BY DEF Waiting, CurrentAnswered, CallOf

LEMMA UntouchedStep ==
    ASSUME NEW m \in Instances, CallOf(m), Untouched(m), answered \subseteq answered'
    PROVE  CallOf(m)'
  BY DEF CallOf, Untouched, Current, IsNext

LEMMA CallsStep ==
    LossInv /\ CallInv /\ [CallNext]_allVars => Waiting' /\ CurrentAnswered'
<1>. SUFFICES ASSUME LossInv, CallInv, [CallNext]_allVars
              PROVE  \A m \in Instances : CallOf(m)'
  BY DEF Waiting, CurrentAnswered, CallOf
<1>. USE DEF CallInv, CallTypeOK, LossInv, TypeOK
<1>0. \A m \in Instances : CallOf(m)
  BY CallOfAll
<1>1. CASE UNCHANGED <<pc, kvps, waiting>> /\ answered \subseteq answered'
  BY <1>0, <1>1, UntouchedStep DEF Untouched
<1>2. ASSUME NEW n \in Instances, CallOf(n)', answered \subseteq answered',
             \A m \in Instances \ {n} : Untouched(m)
      PROVE  \A m \in Instances : CallOf(m)'
  BY <1>0, <1>2, UntouchedStep
<1>3. ASSUME NEW n \in Instances, Take(n) PROVE \A m \in Instances : CallOf(m)'
  BY <1>0, <1>2, <1>3 DEF Take, List, Skip, callVars, Untouched, CallOf, Current
<1>4. ASSUME NEW n \in Instances, Refuse(n) PROVE \A m \in Instances : CallOf(m)'
  <2>1. \A m \in Instances \ {n} : Untouched(m)
    BY <1>4 DEF Refuse, Reject, InstallPackage, Untouched
  <2>2. waiting[n] = NoCall /\ UNCHANGED <<kvps, waiting>>
    BY <1>0, <1>4 DEF Refuse, Reject, InstallPackage, CallOf
  <2>3. CallOf(n)'
    BY <1>4, <2>2 DEF Refuse, CallOf, Current, IsNext
  <2>. QED
    BY <1>2, <1>4, <2>1, <2>3 DEF Refuse
<1>5. ASSUME NEW n \in Instances, Send(n) PROVE \A m \in Instances : CallOf(m)'
  <2>1. PICK p \in kvps[n] : IsNext(n, p) /\ waiting' = [waiting EXCEPT ![n] = p]
    BY <1>5 DEF Send
  <2>2. UNCHANGED <<kvps, answered>> /\ pc'[n] = "delete"
    BY <1>5 DEF Send, InstallPackage
  <2>3. \A m \in Instances \ {n} : Untouched(m)
    BY <1>5, <2>1, <2>2 DEF Send, InstallPackage, Untouched
  <2>4. waiting'[n] = p /\ p # NoCall
    BY <2>1, InHandType, CallAssumption
  <2>5. CallOf(n)'
    BY <2>1, <2>2, <2>4 DEF CallOf, IsNext
  <2>. QED
    BY <1>2, <2>2, <2>3, <2>5
<1>6. ASSUME NEW n \in Instances, Answer(n) PROVE \A m \in Instances : CallOf(m)'
  <2>1. /\ waiting[n] # NoCall /\ UNCHANGED <<pc, kvps>>
        /\ answered' = answered \cup {waiting[n]}
        /\ waiting' = [waiting EXCEPT ![n] = NoCall]
    BY <1>6 DEF Answer, vars
  <2>2. ASSUME NEW p \in Pair, Current(n, p) PROVE p \in answered'
    <3>1. IsNext(n, p) /\ IsNext(n, waiting[n])
      BY <1>0, <2>1, <2>2 DEF CallOf, Current
    <3>2. p = waiting[n]
      BY <3>1, NextUnique
    <3>. QED
      BY <2>1, <3>2
  <2>3. CallOf(n)'
    BY <2>1, <2>2 DEF CallOf, Current, IsNext
  <2>. QED
    BY <1>2, <2>1, <2>3 DEF Untouched
<1>7. ASSUME NEW n \in Instances, Acknowledge(n) PROVE \A m \in Instances : CallOf(m)'
  <2>1. waiting[n] = NoCall /\ UNCHANGED <<waiting, answered>>
    BY <1>7 DEF Acknowledge, callVars
  <2>2. PICK p \in kvps[n] : Leave(n, p)
    BY <1>7 DEF Acknowledge, Delete, DeleteFails
  <2>3. pc'[n] \in {"range", "down"} /\ \A m \in Instances \ {n} : Untouched(m)
    BY <2>1, <2>2 DEF Leave, Untouched
  <2>4. CallOf(n)'
    BY <2>1, <2>3 DEF CallOf, Current
  <2>. QED
    BY <1>2, <2>1, <2>3, <2>4
<1>8. ASSUME NEW n \in Instances, Kill(n) PROVE \A m \in Instances : CallOf(m)'
  BY <1>2, <1>8 DEF Kill, Crash, Untouched, CallOf, Current
<1>9. ASSUME NEW n \in Instances, StartAgain(n) PROVE \A m \in Instances : CallOf(m)'
  BY <1>0, <1>2, <1>9 DEF StartAgain, Restart, callVars, Untouched, CallOf, Current
<1>10. ASSUME NEW key \in Keys, TakeBack(key) \/ \E valid \in BOOLEAN : Ask(key, valid)
       PROVE  UNCHANGED <<pc, kvps, waiting, answered>>
  BY <1>10 DEF TakeBack, Ask, Withdraw, Put, callVars
<1>11. ASSUME NEW x, Remove(x) \/ Arrive(x) PROVE UNCHANGED <<pc, kvps, waiting, answered>>
  BY <1>11 DEF Remove, Arrive, vars
<1>12. CASE UNCHANGED allVars
  BY <1>1, <1>12 DEF allVars, vars, callVars
<1>. QED
  BY <1>1, <1>3, <1>4, <1>5, <1>6, <1>7, <1>8, <1>9, <1>10, <1>11, <1>12 DEF CallNext

LEMMA SentStep == LossInv /\ CallInv /\ [CallNext]_allVars => Sent'
<1>. SUFFICES ASSUME LossInv, CallInv, [CallNext]_allVars PROVE Sent'
  OBVIOUS
<1>1. submitted \subseteq submitted'
  <2>1. [Next]_vars
    BY MonitorStep
  <2>. QED
    BY <2>1 DEF Next, Client, Watch, Fault, Put, Withdraw, List, Skip, Reject,
       InstallPackage, Delete, DeleteFails, Crash, Restart, vars, queueVars
<1>2. late' \subseteq submitted
  <2>1. ASSUME NEW n \in Instances, Answer(n) \/ Kill(n) PROVE late' \subseteq submitted
    BY <2>1, WaitingType DEF CallInv, Sent, Answer, Kill
  <2>. QED
    BY <2>1 DEF CallInv, Sent, CallNext, TakeBack, Ask, Remove, Take, Refuse, Send,
       Acknowledge, StartAgain, Arrive, allVars, callVars
<1>3. answered' \subseteq submitted
  <2>1. ASSUME NEW n \in Instances, Refuse(n) PROVE answered' \subseteq submitted
    BY <2>1, InHandType DEF CallInv, Sent, Refuse
  <2>2. ASSUME NEW n \in Instances, Answer(n) PROVE answered' \subseteq submitted
    BY <2>2, WaitingType DEF CallInv, Sent, Answer
  <2>. QED
    BY <2>1, <2>2 DEF CallInv, Sent, CallNext, TakeBack, Ask, Remove, Take, Send,
       Acknowledge, Kill, StartAgain, Arrive, allVars, callVars
<1>. QED
  BY <1>1, <1>2, <1>3 DEF Sent

-----------------------------------------------------------------------------
(* What is gone.                                                           *)

\* A step that asks for nothing new and creates nothing unasked for.
LEMMA NothingAsked ==
    ASSUME GoneInv, gone' \subseteq gone, Outstanding' \subseteq Outstanding,
           \A app \in apps' \ apps : AskedFor(app)
    PROVE  GoneInv'
  BY DEF GoneInv, AskedFor

LEMMA GoneStep == LossInv /\ CallInv /\ [CallNext]_allVars => GoneInv'
<1>. SUFFICES ASSUME LossInv, CallInv, [CallNext]_allVars PROVE GoneInv'
  OBVIOUS
<1>. USE DEF CallInv, CallTypeOK, LossInv, TypeOK
<1>1. ASSUME NEW p \in Outstanding, Posted(p) PROVE \A app \in apps' \ apps : AskedFor(app)
  BY <1>1 DEF Posted, AskedFor
<1>2. ASSUME NEW n \in Instances, NEW S, S \subseteq Outstanding, queue' \subseteq queue,
             late' \subseteq Outstanding, kvps' = [kvps EXCEPT ![n] = S]
      PROVE  Outstanding' \subseteq Outstanding
  <2>1. \A m \in Instances : kvps'[m] \subseteq Outstanding
    BY <1>2 DEF Outstanding
  <2>. QED
    BY <1>2, <2>1 DEF Outstanding
<1>3. ASSUME NEW key \in Keys, NEW valid \in BOOLEAN, Ask(key, valid) PROVE GoneInv'
  <2>1. /\ gone' = gone \ {AppId[key]} /\ UNCHANGED <<apps, late, kvps>>
        /\ \A p \in queue' : p \in queue \/ p.key = key
    BY <1>3 DEF Ask, Put
  <2>2. \A p \in Outstanding' : p \in Outstanding \/ p.key = key
    BY <2>1 DEF Outstanding
  <2>. QED
    BY <2>1, <2>2 DEF GoneInv, AskedFor
<1>4. ASSUME NEW key \in Keys, TakeBack(key) PROVE GoneInv'
  <2>1. Outstanding' \subseteq Outstanding
    BY <1>4 DEF TakeBack, Withdraw, callVars, Outstanding
  <2>. QED
    BY <1>4, <2>1, NothingAsked DEF TakeBack, callVars
<1>5. ASSUME NEW app \in apps, Remove(app) PROVE GoneInv'
  <2>1. Outstanding' = Outstanding
    BY <1>5 DEF Remove, vars, Outstanding
  <2>. QED
    BY <1>5, <2>1 DEF Remove, GoneInv, AskedFor
<1>6. ASSUME NEW n \in Instances, Take(n) PROVE GoneInv'
  <2>1. PICK S : S \subseteq Outstanding /\ kvps' = [kvps EXCEPT ![n] = S]
    <3>1. CASE List(n)
      BY <3>1 DEF List, Outstanding
    <3>2. CASE Skip(n)
      <4>1. PICK p \in kvps[n] : kvps' = [kvps EXCEPT ![n] = kvps[n] \ {p}]
        BY <3>2 DEF Skip
      <4>2. kvps[n] \ {p} \subseteq Outstanding
        BY DEF Outstanding
      <4>. QED
        BY <4>1, <4>2
    <3>. QED
      BY <1>6, <3>1, <3>2 DEF Take
  <2>2. UNCHANGED <<queue, late, apps, gone>>
    BY <1>6 DEF Take, List, Skip, queueVars, callVars
  <2>3. Outstanding' \subseteq Outstanding
    BY <1>2, <2>1, <2>2 DEF Outstanding
  <2>. QED
    BY <2>2, <2>3, NothingAsked
<1>7. ASSUME NEW n \in Instances, Refuse(n) \/ Send(n) PROVE GoneInv'
  <2>1. UNCHANGED <<queue, late, kvps, apps, gone>>
    BY <1>7 DEF Refuse, Send, Reject, InstallPackage, queueVars
  <2>. QED
    BY <2>1 DEF GoneInv, AskedFor, Outstanding
<1>8. ASSUME NEW n \in Instances, Answer(n) PROVE GoneInv'
  <2>1. waiting[n] \in Outstanding
    BY <1>8, WaitingType DEF Answer, Outstanding
  <2>2. UNCHANGED <<queue, kvps, gone>> /\ late' \subseteq late \cup {waiting[n]}
    BY <1>8 DEF Answer, vars
  <2>3. Outstanding' \subseteq Outstanding
    BY <2>1, <2>2 DEF Outstanding
  <2>4. Posted(waiting[n]) \/ apps' = apps
    BY <1>8 DEF Answer
  <2>. QED
    BY <1>1, <2>1, <2>2, <2>3, <2>4, NothingAsked
<1>9. ASSUME NEW n \in Instances, Acknowledge(n) PROVE GoneInv'
  <2>1. queue' \subseteq queue /\ UNCHANGED <<late, apps, gone>>
    BY <1>9 DEF Acknowledge, Delete, DeleteFails, queueVars, callVars
  <2>2. PICK p \in kvps[n] : Leave(n, p)
    BY <1>9 DEF Acknowledge, Delete, DeleteFails
  <2>3. PICK S : S \subseteq kvps[n] /\ kvps' = [kvps EXCEPT ![n] = S]
    <3>1. CASE pc[n] = "unwind"
      BY <2>2, <3>1 DEF Leave
    <3>2. CASE pc[n] # "unwind"
      <4>1. kvps' = [kvps EXCEPT ![n] = kvps[n] \ {p}]
        BY <2>2, <3>2 DEF Leave
      <4>. QED
        BY <4>1
    <3>. QED
      BY <3>1, <3>2
  <2>4. S \subseteq Outstanding /\ late' \subseteq Outstanding
    BY <2>1, <2>3 DEF Outstanding
  <2>. QED
    BY <1>2, <2>1, <2>3, <2>4, NothingAsked
<1>10. ASSUME NEW n \in Instances, Kill(n) PROVE GoneInv'
  <2>1. UNCHANGED <<queue, apps, gone>> /\ kvps' = [kvps EXCEPT ![n] = {}]
    BY <1>10 DEF Kill, Crash, queueVars
  <2>2. late' \subseteq Outstanding
    BY <1>10, WaitingType DEF Kill, Outstanding
  <2>3. Outstanding' \subseteq Outstanding
    BY <2>1, <2>2 DEF Outstanding
  <2>. QED
    BY <2>1, <2>3, NothingAsked
<1>11. ASSUME NEW n \in Instances, StartAgain(n) PROVE GoneInv'
  <2>1. UNCHANGED <<queue, late, kvps, apps, gone>>
    BY <1>11 DEF StartAgain, Restart, queueVars, callVars
  <2>. QED
    BY <2>1 DEF GoneInv, AskedFor, Outstanding
<1>12. ASSUME NEW p \in late, Arrive(p) PROVE GoneInv'
  <2>1. p \in Outstanding /\ Posted(p) /\ gone' = gone
    BY <1>12 DEF Arrive, Outstanding
  <2>2. Outstanding' \subseteq Outstanding
    BY <1>12 DEF Arrive, vars, Outstanding
  <2>. QED
    BY <1>1, <2>1, <2>2, NothingAsked
<1>13. CASE UNCHANGED allVars
  BY <1>13 DEF allVars, vars, callVars, GoneInv, AskedFor, Outstanding
<1>. QED
  BY <1>3, <1>4, <1>5, <1>6, <1>7, <1>8, <1>9, <1>10, <1>11, <1>12, <1>13 DEF CallNext

-----------------------------------------------------------------------------
LEMMA CallInvariance == CallSpec => [](LossInv /\ CallInv)
<1>1. LossInv /\ CallInv /\ [CallNext]_allVars => CallInv'
  BY CallTypeStep, CallsStep, SentStep, GoneStep DEF CallInv
<1>2. CallSpec => []LossInv
  BY MonitorSpec, LossInvariant
<1>. QED
  BY <1>1, <1>2, CallInitInv, PTL DEF CallSpec

\* Type correctness of the composition.
THEOREM CallTypeCorrect == CallSpec => []CallTypeOK
<1>1. CallInv => CallTypeOK
  BY DEF CallInv
<1>. QED
  BY <1>1, CallInvariance, PTL

\* An app that was removed when nothing asked for it any more stays away.
THEOREM GoneStaysGoneHolds == CallSpec => []GoneStaysGone
<1>1. CallInv => GoneStaysGone
  BY DEF CallInv, GoneInv, GoneStaysGone
<1>. QED
  BY <1>1, CallInvariance, PTL

LEMMA OutcomesStep ==
    LossInv /\ CallInv /\ [CallNext]_allVars => [Outcomes!Next]_(Outcomes!vars)
<1>. SUFFICES ASSUME LossInv, CallInv, [CallNext]_allVars
              PROVE  [Outcomes!Next]_(Outcomes!vars)
  OBVIOUS
<1>. USE DEF Outcomes!vars, Outcomes!Without, Outcomes!Overwritten, OfKey
<1>1. CASE UNCHANGED allVars
  BY <1>1 DEF allVars, vars, callVars
<1>2. ASSUME NEW key \in Keys, TakeBack(key) PROVE Outcomes!Next
  <2>1. PICK q \in queue : q.key = key
    BY <1>2 DEF TakeBack, Withdraw
  <2>2. Outcomes!Withdraw(q.key)
    BY <1>2, <2>1 DEF TakeBack, Withdraw, callVars, Outcomes!Withdraw
  <2>. QED
    BY <2>2 DEF Outcomes!Next
<1>3. ASSUME NEW key \in Keys, NEW valid \in BOOLEAN, Ask(key, valid) PROVE Outcomes!Next
  <2>. DEFINE p == [key |-> key, index |-> modifyIndex + 1, valid |-> valid]
  <2>1. p \in submitted' /\ submitted' \in SUBSET Pair
    BY <1>3, MonitorStep, TypeStep DEF Ask, Put, LossInv, TypeOK
  <2>2. \A q \in submitted : q.index < p.index
    BY BoundsAssumption DEF LossInv, Indexed, TypeOK, Pair, Index
  <2>3. Outcomes!Submit(p)
    BY <1>3, <2>2 DEF Ask, Put, Outcomes!Submit
  <2>. QED
    BY <2>1, <2>3 DEF Outcomes!Next
<1>4. ASSUME NEW n \in Instances, Take(n) \/ Send(n) \/ Kill(n) \/ StartAgain(n)
      PROVE  UNCHANGED Outcomes!vars
  BY <1>4 DEF Take, List, Skip, Send, InstallPackage, Kill, Crash, StartAgain, Restart,
     queueVars, callVars
<1>5. ASSUME NEW x, Remove(x) \/ Arrive(x) PROVE UNCHANGED Outcomes!vars
  BY <1>5 DEF Remove, Arrive, vars
<1>6. ASSUME NEW n \in Instances, NEW p \in submitted, answered' = answered \cup {p},
             UNCHANGED queueVars
      PROVE  Outcomes!Next
  <2>1. Outcomes!Handle(p)
    BY <1>6 DEF queueVars, Outcomes!Handle
  <2>. QED
    BY <2>1 DEF Outcomes!Next
<1>7. ASSUME NEW n \in Instances, Refuse(n) PROVE Outcomes!Next
  <2>1. PICK p \in kvps[n] : IsNext(n, p)
    BY <1>7 DEF Refuse, Reject, InstallPackage
  <2>2. {q \in kvps[n] : IsNext(n, q)} = {p}
    BY <2>1, NextUnique DEF LossInv
  <2>3. UNCHANGED queueVars /\ answered' = answered \cup {p}
    BY <1>7, <2>2 DEF Refuse, Reject, InstallPackage
  <2>. QED
    BY <1>6, <2>1, <2>3, InHandType
<1>8. ASSUME NEW n \in Instances, Answer(n) PROVE Outcomes!Next
  BY <1>6, <1>8, WaitingType DEF Answer, vars, queueVars
<1>9. ASSUME NEW n \in Instances, Acknowledge(n)
      PROVE  Outcomes!Next \/ UNCHANGED Outcomes!vars
  <2>1. CASE DeleteFails(n)
    BY <1>9, <2>1 DEF Acknowledge, DeleteFails, queueVars, callVars
  <2>2. CASE Delete(n)
    <3>1. PICK p \in kvps[n] : IsNext(n, p) /\ queue' = queue \ OfKey(queue, p.key)
      BY <2>2 DEF Delete
    <3>2. p \in answered
      BY <1>9, <2>2, <3>1, InHandType
         DEF Acknowledge, Delete, Current, CallInv, CurrentAnswered
    <3>3. Outcomes!Acknowledge(p)
      BY <1>9, <2>2, <3>1 DEF Acknowledge, Delete, callVars, Outcomes!Acknowledge
    <3>. QED
      BY <3>2, <3>3 DEF Outcomes!Next
  <2>. QED
    BY <1>9, <2>1, <2>2 DEF Acknowledge
<1>. QED
  BY <1>1, <1>2, <1>3, <1>4, <1>5, <1>7, <1>8, <1>9 DEF CallNext

\* The monitor acknowledges a request only when its outcome is known.
THEOREM AcknowledgesAnswered == CallSpec => AnsweredFirst
<1>1. CallInit => Outcomes!Init
  BY DEF CallInit, Init, Outcomes!Init
<1>. QED
  BY <1>1, OutcomesStep, CallInvariance, PTL DEF CallSpec, AnsweredFirst, Outcomes!Spec
=============================================================================
