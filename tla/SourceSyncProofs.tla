-------------------------- MODULE SourceSyncProofs --------------------------
(***************************************************************************)
(* Proofs about SourceSync: type correctness, and, of any number of        *)
(* processes, sources, files and revisions, that a timestamp never comes   *)
(* before the files, what a synchronisation does that has its index to     *)
(* itself, and that readers see what Repositories promises.                *)
(***************************************************************************)
EXTENDS SourceSync, TLAPS

Busy(p) == pc[p] \in {"walk", "put", "stamp"}

\* A process is busy when it has a source, and writes a file it has in hand.
TypeInv ==
    /\ TypeOK
    /\ \A p \in Procs :
         /\ Busy(p) <=> source[p] # None
         /\ pc[p] = "stamp" => left[p] = {}

\* What is known of the sources, and of the one a process is busy with: the
\* files it has had all along were there when the process began, and what was
\* read is no older than that.
SourceInv ==
    /\ \A s \in Sources : always[s] \subseteq tree[s] /\ rev[s] >= 1
    /\ \A p \in Procs : Busy(p) =>
         /\ always[source[p]] \subseteq listed[p]
         /\ 1 <= start[p] /\ start[p] <= rev[source[p]]
         /\ pc[p] = "put" => start[p] <= data[p] /\ data[p] <= rev[source[p]]

\* The walk has left none of the lasting files behind it unwritten, and the
\* name is there before the timestamp.
CompleteInv ==
    /\ TimestampMeansComplete
    /\ \A p \in Procs : Busy(p) /\ source[p] \notin unread =>
         \A f \in always[source[p]] \ left[p] : kv[Index[source[p]]][f] # 0
    /\ \A p \in Procs : pc[p] = "stamp" => name[Index[source[p]]] = source[p]

\* No other process is on the index of p, so far.
Alone(p) == Busy(p) /\ ~overlap[p]

AloneInv ==
    \A p, q \in Procs : Alone(p) /\ Busy(q) /\ p # q =>
        Index[source[p]] # Index[source[q]]

\* Behind the walk of a lonely process the files are as new as its beginning.
FreshInv ==
    \A p \in Procs : Alone(p) /\ source[p] \notin unread =>
        \A f \in always[source[p]] \ left[p] : kv[Index[source[p]]][f] >= start[p]

\* Before it they are no newer, and no file is ever newer than its source.
OlderInv ==
    /\ \A s \in Sources, f \in Files : kv[Index[s]][f] <= rev[s]
    /\ \A p \in Procs : Alone(p) =>
         \A f \in left[p] : kv[Index[source[p]]][f] <= start[p]

-----------------------------------------------------------------------------
(* Type correctness.                                                       *)

LEMMA TypeInit == Init => TypeInv
  <1> QED
    BY SourcesAssumption, BoundsAssumption
       DEF Init, TypeInv, TypeOK, Busy, Indexes, Rev, Place

LEMMA LeaveTypes ==
    ASSUME TypeOK, NEW p \in Procs, LeaveSource(p)
    PROVE  /\ source' \in [Procs -> Sources \cup {None}]
           /\ listed' \in [Procs -> SUBSET Files] /\ left' \in [Procs -> SUBSET Files]
           /\ data' \in [Procs -> Rev] /\ start' \in [Procs -> Rev]
           /\ overlap' \in [Procs -> BOOLEAN]
           /\ source'[p] = None /\ left'[p] = {}
  <1>1. 0 \in Rev
    BY BoundsAssumption DEF Rev
  <1> QED
    BY <1>1 DEF TypeOK, LeaveSource

LEMMA TypeStep == TypeInv /\ [Next]_vars => TypeInv'
  <1> SUFFICES ASSUME TypeInv, [Next]_vars PROVE TypeInv'
    OBVIOUS
  <1> USE SourcesAssumption, BoundsAssumption
      DEF TypeInv, TypeOK, Busy, Place, Rev, GoTo, repositories, upstream, consul, history
  <1>1. ASSUME NEW s \in Sources, Commit(s) PROVE TypeInv'
    BY <1>1 DEF Commit
  <1>2. ASSUME NEW p \in Procs, UpToDate(p) \/ Finish(p) PROVE TypeInv'
    <2>1. CASE UpToDate(p)
      <3>1. todo' \in [Procs -> SUBSET Sources]
        BY <2>1 DEF UpToDate
      <3> QED
        BY <2>1, <3>1 DEF UpToDate
    <2>2. CASE Finish(p)
      BY <2>2 DEF Finish
    <2> QED
      BY <1>2, <2>1, <2>2
  <1>3. ASSUME NEW p \in Procs, StartSync(p) PROVE TypeInv'
    <2>1. PICK s \in todo[p] : TakeSource(p, s)
      BY <1>3 DEF StartSync
    <2>2. s \in Sources /\ s # None
      BY <2>1
    <2>3. /\ todo' \in [Procs -> SUBSET Sources]
          /\ source' \in [Procs -> Sources \cup {None}]
          /\ listed' \in [Procs -> SUBSET Files] /\ left' \in [Procs -> SUBSET Files]
          /\ start' \in [Procs -> Rev] /\ pc' \in [Procs -> Place]
      BY <2>1, <2>2 DEF TakeSource
    <2>4. overlap' \in [Procs -> BOOLEAN]
      BY <2>1 DEF TakeSource
    <2>5. UNCHANGED <<upstream, consul, data, faults>>
      BY <1>3 DEF StartSync
    <2>6. TypeOK'
      BY <2>3, <2>4, <2>5
    <2> QED
      BY <2>1, <2>2, <2>6 DEF TakeSource
  <1>4. ASSUME NEW p \in Procs, ReadFile(p) \/ PassBy(p) \/ WalkUnreadable(p) PROVE TypeInv'
    <2>1. CASE ReadFile(p)
      <3>1. data' \in [Procs -> Rev] /\ pc' \in [Procs -> Place]
        BY <2>1 DEF ReadFile
      <3> QED
        BY <2>1, <3>1 DEF ReadFile
    <2>2. CASE PassBy(p)
      <3>1. left' \in [Procs -> SUBSET Files]
        BY <2>2 DEF PassBy
      <3> QED
        BY <2>2, <3>1 DEF PassBy
    <2>3. CASE WalkUnreadable(p)
      <3>1. left' \in [Procs -> SUBSET Files]
        BY <2>3 DEF WalkUnreadable
      <3> QED
        BY <2>3, <3>1 DEF WalkUnreadable
    <2> QED
      BY <1>4, <2>1, <2>2, <2>3
  <1>5. ASSUME NEW p \in Procs, addSourceArtifact(p) PROVE TypeInv'
    <2>1. Index[source[p]] \in Indexes
      BY <1>5 DEF addSourceArtifact, Indexes
    <2> QED
      BY <1>5, <2>1 DEF addSourceArtifact
  <1>6. ASSUME NEW p \in Procs, setName(p) PROVE TypeInv'
    <2>1. Index[source[p]] \in Indexes
      BY <1>6 DEF setName, Indexes
    <2> QED
      BY <1>6, <2>1 DEF setName
  <1>7. ASSUME NEW p \in Procs, setTimestamp(p) PROVE TypeInv'
    <2>1. Index[source[p]] \in Indexes
      BY <1>7 DEF setTimestamp, Indexes
    <2> QED
      BY <1>7, <2>1, LeaveTypes DEF setTimestamp, LeaveSource
  <1>8. ASSUME NEW p \in Procs, ReadFails(p) \/ Fail(p) PROVE TypeInv'
    <2>1. Die(p) /\ UNCHANGED <<upstream, consul>> /\ faults' \in [Procs -> 0 .. MaxFaults]
      BY <1>8 DEF ReadFails, Fail
    <2> QED
      BY <2>1, LeaveTypes DEF Die, LeaveSource
  <1>9. ASSUME NEW p \in Procs, Restart(p) PROVE TypeInv'
    BY <1>9 DEF Restart
  <1>10. CASE UNCHANGED vars
    BY <1>10 DEF vars
  <1> QED
    BY <1>1, <1>2, <1>3, <1>4, <1>5, <1>6, <1>7, <1>8, <1>9, <1>10 DEF Next, SyncSources

(* Every reachable state is well typed, whatever the indexes and faults.   *)
THEOREM TypeCorrect == Spec => []TypeOK
  <1>1. Spec => []TypeInv
    BY TypeInit, TypeStep, PTL DEF Spec
  <1>2. TypeInv => TypeOK
    BY DEF TypeInv
  <1> QED
    BY <1>1, <1>2, PTL

-----------------------------------------------------------------------------
(* What a step of one process does to the others and to itself.            *)

Step(p) == SyncSources(p) \/ Fail(p) \/ Restart(p)

\* The steps of p after which it has no source.
Idles(p) ==
    \/ UpToDate(p) \/ Finish(p) \/ setTimestamp(p)
    \/ ReadFails(p) \/ Fail(p) \/ Restart(p)

LEMMA StepCases ==
    ASSUME NEW p \in Procs, Step(p)
    PROVE  \/ Idles(p) \/ StartSync(p) \/ ReadFile(p) \/ PassBy(p)
           \/ WalkUnreadable(p) \/ addSourceArtifact(p) \/ setName(p)
  <1> QED
    BY DEF Step, SyncSources, Idles

LEMMA IdlesEffect ==
    ASSUME TypeInv, NEW p \in Procs, Idles(p)
    PROVE  /\ ~Busy(p)' /\ UNCHANGED <<upstream, kv, name>>
           /\ updated' = updated \/ setTimestamp(p)
           /\ \A q \in Procs \ {p} :
                /\ pc'[q] = pc[q] /\ source'[q] = source[q] /\ listed'[q] = listed[q]
                /\ left'[q] = left[q] /\ data'[q] = data[q] /\ start'[q] = start[q]
                /\ overlap'[q] = overlap[q]
  <1> USE DEF TypeInv, TypeOK, Busy, GoTo, consul, history
  <1>1. CASE UpToDate(p) \/ Finish(p)
    BY <1>1 DEF UpToDate, Finish
  <1>2. CASE setTimestamp(p)
    BY <1>2 DEF setTimestamp, LeaveSource
  <1>3. CASE ReadFails(p) \/ Fail(p)
    BY <1>3 DEF ReadFails, Fail, Die, LeaveSource
  <1>4. CASE Restart(p)
    BY <1>4 DEF Restart
  <1> QED
    BY <1>1, <1>2, <1>3, <1>4 DEF Idles

\* Processes only read the repositories, and what they missed stays on record.
LEMMA OnlyReads ==
    ASSUME TypeInv, NEW p \in Procs, Step(p)
    PROVE  UNCHANGED repositories /\ unread \subseteq unread'
  <1> USE DEF upstream
  <1>1. CASE Idles(p)
    BY <1>1, IdlesEffect
  <1>2. CASE WalkUnreadable(p)
    BY <1>2 DEF WalkUnreadable
  <1>3. CASE StartSync(p) \/ ReadFile(p) \/ PassBy(p) \/ addSourceArtifact(p) \/ setName(p)
    BY <1>3 DEF StartSync, ReadFile, PassBy, addSourceArtifact, setName
  <1> QED
    BY <1>1, <1>2, <1>3, StepCases

\* The other processes keep what they have, and overlaps are not forgotten.
LEMMA OthersKeep ==
    ASSUME TypeInv, NEW p \in Procs, Step(p), NEW q \in Procs, q # p
    PROVE  /\ pc'[q] = pc[q] /\ source'[q] = source[q] /\ listed'[q] = listed[q]
           /\ left'[q] = left[q] /\ data'[q] = data[q] /\ start'[q] = start[q]
           /\ overlap[q] => overlap'[q]
  <1> USE DEF TypeInv, TypeOK, GoTo, consul, history
  <1>1. CASE Idles(p)
    BY <1>1, IdlesEffect
  <1>2. CASE StartSync(p)
    <2>1. PICK s \in todo[p] : TakeSource(p, s)
      BY <1>2 DEF StartSync
    <2> QED
      BY <1>2, <2>1 DEF StartSync, TakeSource
  <1>3. CASE ReadFile(p) \/ PassBy(p) \/ WalkUnreadable(p)
    BY <1>3 DEF ReadFile, PassBy, WalkUnreadable
  <1>4. CASE addSourceArtifact(p) \/ setName(p)
    BY <1>4 DEF addSourceArtifact, setName
  <1> QED
    BY <1>1, <1>2, <1>3, <1>4, StepCases

\* The process itself goes on with its source.
LEMMA GoesOn ==
    ASSUME TypeInv, NEW p \in Procs, Step(p), ~Idles(p), ~StartSync(p)
    PROVE  /\ Busy(p) /\ Busy(p)' /\ source' = source /\ listed' = listed
           /\ start' = start /\ overlap' = overlap
           /\ UNCHANGED updated
           /\ left'[p] \subseteq left[p]
  <1> USE DEF TypeInv, TypeOK, Busy, GoTo, consul, history
  <1>1. CASE ReadFile(p)
    BY <1>1 DEF ReadFile
  <1>2. CASE PassBy(p)
    BY <1>2 DEF PassBy
  <1>3. CASE WalkUnreadable(p)
    BY <1>3 DEF WalkUnreadable
  <1>4. CASE addSourceArtifact(p)
    BY <1>4 DEF addSourceArtifact
  <1>5. CASE setName(p)
    BY <1>5 DEF setName
  <1> QED
    BY <1>1, <1>2, <1>3, <1>4, <1>5, StepCases

-----------------------------------------------------------------------------
(* What is known of the sources.                                           *)

LEMMA SourceInit == Init => SourceInv
  <1> QED
    BY DEF Init, SourceInv, Busy

LEMMA SourceStep ==
    ASSUME TypeInv, SourceInv, [Next]_vars
    PROVE  SourceInv'
  <1> USE DEF SourceInv
  <1>1. ASSUME NEW s \in Sources, Commit(s) PROVE SourceInv'
    <2>1. /\ \A t \in Sources : always'[t] \subseteq always[t] /\ always'[t] \subseteq tree'[t]
          /\ \A t \in Sources : rev[t] \in Nat /\ rev'[t] \in Nat /\ rev'[t] >= rev[t]
      BY <1>1, BoundsAssumption DEF Commit, TypeInv, TypeOK, Rev
    <2>2. UNCHANGED <<pc, source, listed, left, data, start>>
      BY <1>1 DEF Commit, history
    <2>3. \A p \in Procs : Busy(p) => source[p] \in Sources
      BY DEF TypeInv, TypeOK
    <2>4. \A p \in Procs : start[p] \in Nat /\ data[p] \in Nat
      BY BoundsAssumption DEF TypeInv, TypeOK, Rev
    <2> QED
      BY <2>1, <2>2, <2>3, <2>4 DEF Busy
  <1>2. ASSUME NEW p \in Procs, Step(p) PROVE SourceInv'
    <2>1. UNCHANGED repositories
      BY <1>2, OnlyReads
    <2>2. \A q \in Procs \ {p} :
             pc'[q] = pc[q] /\ source'[q] = source[q] /\ listed'[q] = listed[q]
                /\ data'[q] = data[q] /\ start'[q] = start[q]
      BY <1>2, OthersKeep
    <2>3. Busy(p)' =>
            /\ always'[source'[p]] \subseteq listed'[p]
            /\ 1 <= start'[p] /\ start'[p] <= rev'[source'[p]]
            /\ pc'[p] = "put" => start'[p] <= data'[p] /\ data'[p] <= rev'[source'[p]]
      <3>1. CASE Idles(p)
        BY <3>1, IdlesEffect
      <3>2. CASE StartSync(p)
        <4>1. PICK s \in todo[p] : TakeSource(p, s)
          BY <3>2 DEF StartSync
        <4>2. /\ source'[p] = s /\ listed'[p] = tree[s] /\ start'[p] = rev[s]
              /\ pc'[p] = "walk" /\ s \in Sources
          BY <4>1 DEF TakeSource, GoTo, TypeInv, TypeOK
        <4>3. rev[s] \in Nat
          BY <4>2, BoundsAssumption DEF TypeInv, TypeOK, Rev
        <4> QED
          BY <2>1, <4>2, <4>3 DEF repositories
      <3>3. CASE ReadFile(p)
        <4>1. data'[p] = IF source[p] \in GitSources THEN start[p] ELSE rev[source[p]]
          BY <3>3 DEF ReadFile, TypeInv, TypeOK
        <4>2. Busy(p) /\ UNCHANGED <<repositories, source, listed, start>>
          BY <2>1, <3>3 DEF ReadFile, Busy, history
        <4>3. start[p] \in Nat /\ rev[source[p]] \in Nat
          BY <4>2, BoundsAssumption DEF TypeInv, TypeOK, Rev
        <4> QED
          BY <4>1, <4>2, <4>3 DEF repositories
      <3>4. CASE PassBy(p) \/ WalkUnreadable(p) \/ addSourceArtifact(p) \/ setName(p)
        <4>1. pc'[p] # "put"
          BY <3>4 DEF PassBy, WalkUnreadable, addSourceArtifact, setName, GoTo, TypeInv, TypeOK
        <4>2. Busy(p) /\ UNCHANGED <<repositories, source, listed, start>>
          BY <2>1, <3>4 DEF PassBy, WalkUnreadable, addSourceArtifact, setName, Busy, history
        <4> QED
          BY <4>1, <4>2 DEF repositories
      <3> QED
        BY <1>2, <3>1, <3>2, <3>3, <3>4, StepCases
    <2> QED
      BY <2>1, <2>2, <2>3 DEF repositories, Busy
  <1>3. CASE UNCHANGED vars
    BY <1>3 DEF vars, upstream, repositories, history, Busy
  <1> QED
    BY <1>1, <1>2, <1>3 DEF Next, Step

-----------------------------------------------------------------------------
(* The writes of a walk.                                                   *)

\* What is written is what was read of a file in hand.
LEMMA WriteEffect ==
    ASSUME TypeInv, SourceInv, NEW p \in Procs, addSourceArtifact(p)
    PROVE  /\ source[p] \in Sources /\ data[p] \in Nat
           /\ start[p] <= data[p] /\ data[p] <= rev[source[p]]
           /\ \E f \in left[p] :
                /\ kv'[Index[source[p]]][f] = data[p]
                /\ left'[p] = left[p] \ {f}
                /\ \A i \in Indexes, g \in Files :
                     i # Index[source[p]] \/ g # f => kv'[i][g] = kv[i][g]
  <1>1. source[p] \in Sources /\ Busy(p) /\ pc[p] = "put"
    BY DEF addSourceArtifact, TypeInv, TypeOK, Busy
  <1>2. data[p] \in Nat /\ Index[source[p]] \in Indexes
    BY <1>1, BoundsAssumption DEF TypeInv, TypeOK, Rev, Indexes
  <1>3. PICK f \in Files : /\ InHand(p, f)
                           /\ kv' = [kv EXCEPT ![Index[source[p]]][f] = data[p]]
                           /\ left' = [left EXCEPT ![p] = @ \ {f}]
    BY DEF addSourceArtifact
  <1>4. f \in left[p] /\ left'[p] = left[p] \ {f}
    BY <1>3 DEF InHand, TypeInv, TypeOK
  <1>5. /\ kv'[Index[source[p]]][f] = data[p]
        /\ \A i \in Indexes, g \in Files :
             i # Index[source[p]] \/ g # f => kv'[i][g] = kv[i][g]
    BY <1>2, <1>3 DEF TypeInv, TypeOK
  <1> QED
    BY <1>1, <1>2, <1>4, <1>5 DEF SourceInv

LEMMA OnlyWrites ==
    ASSUME TypeInv, NEW p \in Procs, Step(p), ~addSourceArtifact(p)
    PROVE  kv' = kv
  <1> QED
    BY StepCases, IdlesEffect DEF StartSync, ReadFile, PassBy, WalkUnreadable, setName, consul

\* A process that is alone on its index sees no other write there.
LEMMA AloneKeeps ==
    ASSUME TypeInv, SourceInv, AloneInv, NEW p \in Procs, Step(p),
           NEW q \in Procs, q # p, Alone(q)
    PROVE  \A f \in Files : kv'[Index[source[q]]][f] = kv[Index[source[q]]][f]
  <1>1. source[q] \in Sources /\ Index[source[q]] \in Indexes
    BY DEF Alone, TypeInv, TypeOK, Indexes
  <1>2. CASE addSourceArtifact(p)
    <2>1. Busy(p)
      BY <1>2 DEF addSourceArtifact, Busy
    <2> QED
      BY <1>1, <1>2, <2>1, WriteEffect DEF AloneInv
  <1> QED
    BY <1>2, OnlyWrites

\* What the walk passes by is not a lasting file of its source.
LEMMA PassedIsFleeting ==
    ASSUME TypeInv, SourceInv, NEW p \in Procs, PassBy(p)
    PROVE  \A f \in always[source[p]] : f \in left[p] => f \in left'[p]
  <1>1. Busy(p) /\ source[p] \in Sources
    BY DEF PassBy, TypeInv, TypeOK, Busy
  <1>2. PICK f \in Files : /\ f \notin listed[p] \/ f \notin tree[source[p]]
                           /\ left' = [left EXCEPT ![p] = @ \ {f}]
    BY DEF PassBy
  <1>3. f \notin always[source[p]]
    BY <1>1, <1>2 DEF SourceInv
  <1> QED
    BY <1>2, <1>3 DEF TypeInv, TypeOK

\* A walk of a source that could be read has written the lasting files it has
\* behind it: a file is one of these before the step, or is written by it.
LEMMA WalkedEffect ==
    ASSUME TypeInv, SourceInv, NEW p \in Procs, Step(p), Busy(p)',
           source'[p] \notin unread', NEW f \in always'[source'[p]] \ left'[p]
    PROVE  /\ Busy(p) /\ source'[p] = source[p] /\ start'[p] = start[p]
           /\ overlap'[p] = overlap[p] /\ f \in always[source[p]]
           /\ source[p] \notin unread
           /\ \/ f \notin left[p] /\ kv'[Index[source[p]]][f] = kv[Index[source[p]]][f]
              \/ addSourceArtifact(p) /\ kv'[Index[source[p]]][f] = data[p]
  <1>0. UNCHANGED repositories /\ unread \subseteq unread'
    BY OnlyReads
  <1>1. ~Idles(p)
    BY IdlesEffect
  <1>2. ~StartSync(p)
    <2>1. SUFFICES ASSUME StartSync(p) PROVE FALSE
      OBVIOUS
    <2>2. PICK s \in todo[p] : TakeSource(p, s)
      BY <2>1 DEF StartSync
    <2>3. source'[p] = s /\ left'[p] = Files /\ s \in Sources
      BY <2>2 DEF TakeSource, TypeInv, TypeOK
    <2>4. always' = always
      BY <1>0 DEF repositories
    <2> QED
      BY <2>3, <2>4 DEF TypeInv, TypeOK
  <1>3. /\ Busy(p) /\ source' = source /\ start' = start /\ overlap' = overlap
        /\ always' = always /\ left'[p] \subseteq left[p]
        /\ source[p] \notin unread
    BY <1>0, <1>1, <1>2, GoesOn DEF repositories
  <1>4. source[p] \in Sources /\ f \in Files /\ f \in always[source[p]]
    BY <1>3 DEF TypeInv, TypeOK
  <1>5. CASE addSourceArtifact(p)
    <2>1. PICK g \in left[p] :
            /\ kv'[Index[source[p]]][g] = data[p]
            /\ left'[p] = left[p] \ {g}
            /\ \A i \in Indexes, h \in Files :
                 i # Index[source[p]] \/ h # g => kv'[i][h] = kv[i][h]
      BY <1>5, WriteEffect
    <2>2. Index[source[p]] \in Indexes
      BY <1>4 DEF Indexes
    <2>3. CASE f = g
      BY <1>3, <1>4, <1>5, <2>1, <2>3
    <2>4. CASE f # g
      BY <1>3, <1>4, <2>1, <2>2, <2>4
    <2> QED
      BY <2>3, <2>4
  <1>6. CASE PassBy(p)
    <2>1. f \notin left[p]
      BY <1>4, <1>6, PassedIsFleeting
    <2> QED
      BY <1>3, <1>4, <1>6, <2>1 DEF PassBy, consul
  <1>7. CASE ReadFile(p) \/ setName(p)
    <2>1. left' = left /\ kv' = kv
      BY <1>7 DEF ReadFile, setName, consul
    <2> QED
      BY <1>3, <1>4, <2>1
  <1> QED
    BY <1>1, <1>2, <1>3, <1>5, <1>6, <1>7, StepCases DEF WalkUnreadable

-----------------------------------------------------------------------------
(* A synchronisation that has its index to itself.                         *)

LEMMA AloneInit == Init => AloneInv /\ FreshInv /\ OlderInv
  <1> QED
    BY BoundsAssumption DEF Init, AloneInv, FreshInv, OlderInv, Alone, Busy, Indexes

LEMMA AloneStep ==
    ASSUME TypeInv, AloneInv, [Next]_vars
    PROVE  AloneInv'
  <1>1. ASSUME NEW p \in Procs, StartSync(p) PROVE AloneInv'
    <2>1. PICK s \in todo[p] : TakeSource(p, s)
      BY <1>1 DEF StartSync
    <2>2. source'[p] = s /\ s \in Sources /\ ~Busy(p)
      BY <1>1, <2>1 DEF TakeSource, StartSync, Busy, TypeInv, TypeOK
    <2>3. overlap'[p] <=> On(Index[s]) # {}
      BY <2>1 DEF TakeSource
    <2>4. \A q \in Procs \ {p} : q \in On(Index[s]) => overlap'[q]
      BY <2>1 DEF TakeSource
    <2>5. \A q \in Procs \ {p} :
            /\ pc'[q] = pc[q] /\ source'[q] = source[q]
            /\ overlap[q] => overlap'[q]
      BY <1>1, OthersKeep DEF Step, SyncSources
    <2>6. \A q \in Procs \ {p} : Busy(q)' /\ Index[source'[q]] = Index[s] => q \in On(Index[s])
      BY <2>5 DEF Busy, On, TypeInv
    <2>7. \A q, r \in Procs : Alone(q)' /\ Busy(r)' /\ q # r => Index[source'[q]] # Index[source'[r]]
      <3> TAKE q, r \in Procs
      <3>1. CASE q = p
        BY <2>2, <2>3, <2>6, <3>1 DEF Alone
      <3>2. CASE r = p /\ q # p
        BY <2>2, <2>4, <2>6, <3>2 DEF Alone
      <3>3. CASE q # p /\ r # p
        BY <2>5, <3>3 DEF Alone, Busy, AloneInv
      <3> QED
        BY <3>1, <3>2, <3>3
    <2> QED
      BY <2>7 DEF AloneInv
  <1>2. ASSUME NEW p \in Procs, Step(p), ~StartSync(p) PROVE AloneInv'
    <2>1. Busy(p)' => Busy(p) /\ source'[p] = source[p] /\ overlap'[p] = overlap[p]
      BY <1>2, IdlesEffect, GoesOn
    <2>2. \A q \in Procs \ {p} :
            /\ pc'[q] = pc[q] /\ source'[q] = source[q]
            /\ overlap[q] => overlap'[q]
      BY <1>2, OthersKeep
    <2>3. \A q \in Procs : Busy(q)' =>
            /\ Busy(q) /\ source'[q] = source[q]
            /\ Alone(q)' => Alone(q)
      BY <2>1, <2>2 DEF Busy, Alone
    <2>4. ASSUME NEW q \in Procs, NEW r \in Procs, Alone(q)', Busy(r)', q # r
          PROVE  Index[source'[q]] # Index[source'[r]]
      <3>1. Alone(q) /\ source'[q] = source[q]
        BY <2>3, <2>4 DEF Alone, Busy
      <3>2. Busy(r) /\ source'[r] = source[r]
        BY <2>3, <2>4 DEF Busy
      <3> QED
        BY <2>4, <3>1, <3>2 DEF AloneInv
    <2> QED
      BY <2>4 DEF AloneInv
  <1>3. ASSUME NEW s \in Sources, Commit(s) PROVE AloneInv'
    BY <1>3 DEF Commit, history, AloneInv, Alone, Busy
  <1>4. CASE UNCHANGED vars
    BY <1>4 DEF vars, history, AloneInv, Alone, Busy
  <1> QED
    BY <1>1, <1>2, <1>3, <1>4 DEF Next, Step

\* The type invariant of the values compared below.
LEMMA Numbers ==
    ASSUME TypeInv
    PROVE  /\ \A s \in Sources : Index[s] \in Indexes /\ rev[s] \in Nat
           /\ \A i \in Indexes, f \in Files : kv[i][f] \in Nat
           /\ \A p \in Procs : start[p] \in Nat /\ data[p] \in Nat
           /\ \A p \in Procs : Busy(p) => source[p] \in Sources
           /\ \A p \in Procs : left[p] \subseteq Files
           /\ \A s \in Sources : always[s] \subseteq Files
  <1> QED
    BY BoundsAssumption DEF TypeInv, TypeOK, Rev, Indexes

LEMMA FreshStep ==
    ASSUME TypeInv, SourceInv, AloneInv, FreshInv, [Next]_vars
    PROVE  FreshInv'
  <1> USE DEF FreshInv
  <1>1. ASSUME NEW p \in Procs, Step(p) PROVE FreshInv'
    <2>1. ASSUME NEW q \in Procs, q # p, Alone(q)', source'[q] \notin unread',
                 NEW f \in always'[source'[q]] \ left'[q]
          PROVE  kv'[Index[source'[q]]][f] >= start'[q]
      <3>1. /\ Alone(q) /\ source'[q] = source[q] /\ left'[q] = left[q]
            /\ start'[q] = start[q] /\ always' = always /\ source[q] \notin unread
        BY <1>1, <2>1, OthersKeep, OnlyReads DEF Alone, Busy, repositories
      <3>2. f \in Files
        BY <3>1, Numbers DEF Alone
      <3> QED
        BY <1>1, <2>1, <3>1, <3>2, AloneKeeps
    <2>2. ASSUME Alone(p)', source'[p] \notin unread',
                 NEW f \in always'[source'[p]] \ left'[p]
          PROVE  kv'[Index[source'[p]]][f] >= start'[p]
      <3>1. Busy(p)'
        BY <2>2 DEF Alone
      <3>2. /\ Alone(p) /\ source'[p] = source[p] /\ start'[p] = start[p]
            /\ f \in always[source[p]] /\ source[p] \notin unread
            /\ \/ f \notin left[p] /\ kv'[Index[source[p]]][f] = kv[Index[source[p]]][f]
               \/ addSourceArtifact(p) /\ kv'[Index[source[p]]][f] = data[p]
        BY <1>1, <2>2, <3>1, WalkedEffect DEF Alone
      <3>3. CASE f \notin left[p] /\ kv'[Index[source[p]]][f] = kv[Index[source[p]]][f]
        BY <3>2, <3>3
      <3>4. CASE addSourceArtifact(p) /\ kv'[Index[source[p]]][f] = data[p]
        <4>1. start[p] <= data[p]
          BY <3>4, WriteEffect
        <4> QED
          BY <3>2, <3>4, <4>1, Numbers
      <3> QED
        BY <3>2, <3>3, <3>4
    <2> QED
      BY <2>1, <2>2
  <1>2. ASSUME NEW s \in Sources, Commit(s) PROVE FreshInv'
    <2>1. \A t \in Sources : always'[t] \subseteq always[t]
      BY <1>2 DEF Commit, TypeInv, TypeOK
    <2>2. UNCHANGED <<unread, kv, pc, source, left, start, overlap>>
      BY <1>2 DEF Commit, consul, history
    <2> QED
      BY <2>1, <2>2, Numbers DEF Alone, Busy
  <1>3. CASE UNCHANGED vars
    BY <1>3 DEF vars, upstream, repositories, consul, history, Alone, Busy
  <1> QED
    BY <1>1, <1>2, <1>3 DEF Next, Step

(* A synchronisation that had its index to itself, of a source that could  *)
(* be read, leaves no lasting file older than its beginning.               *)
THEOREM AloneFresh == Spec => []AloneIsFresh
  <1> DEFINE J == TypeInv /\ SourceInv /\ AloneInv /\ FreshInv
  <1>1. Init => J
    BY TypeInit, SourceInit, AloneInit
  <1>2. J /\ [Next]_vars => J'
    BY TypeStep, SourceStep, AloneStep, FreshStep
  <1>3. J => AloneIsFresh
    BY DEF AloneIsFresh, TypeInv, FreshInv, Alone, Busy
  <1> QED
    BY <1>1, <1>2, <1>3, PTL DEF Spec

-----------------------------------------------------------------------------
(* Files go back to an older revision only by overlap.                     *)

\* No file becomes newer than its source.
LEMMA NewestStep ==
    ASSUME TypeInv, SourceInv, OlderInv, DistinctIndexes, NEW p \in Procs, Step(p)
    PROVE  \A s \in Sources, f \in Files : kv'[Index[s]][f] <= rev'[s]
  <1>1. rev' = rev
    BY OnlyReads DEF repositories
  <1>2. CASE addSourceArtifact(p)
    <2> SUFFICES ASSUME NEW s \in Sources, NEW f \in Files
                 PROVE  kv'[Index[s]][f] <= rev[s]
      BY <1>1
    <2>1. /\ source[p] \in Sources /\ data[p] <= rev[source[p]]
          /\ \/ kv'[Index[s]][f] = kv[Index[s]][f]
             \/ Index[s] = Index[source[p]] /\ kv'[Index[s]][f] = data[p]
      BY <1>2, WriteEffect, Numbers
    <2> QED
      BY <2>1 DEF OlderInv, DistinctIndexes
  <1>3. CASE ~addSourceArtifact(p)
    BY <1>1, <1>3, OnlyWrites DEF OlderInv
  <1> QED
    BY <1>2, <1>3

LEMMA OlderStep ==
    ASSUME TypeInv, SourceInv, AloneInv, OlderInv, DistinctIndexes, [Next]_vars
    PROVE  OlderInv'
  <1>1. ASSUME NEW p \in Procs, Step(p) PROVE OlderInv'
    <2>1. ASSUME NEW q \in Procs, q # p, Alone(q)', NEW f \in left'[q]
          PROVE  kv'[Index[source'[q]]][f] <= start'[q]
      <3>1. /\ Alone(q) /\ source'[q] = source[q] /\ left'[q] = left[q]
            /\ start'[q] = start[q]
        BY <1>1, <2>1, OthersKeep DEF Alone, Busy
      <3>2. f \in Files
        BY <2>1, <3>1, Numbers
      <3> QED
        BY <1>1, <2>1, <3>1, <3>2, AloneKeeps DEF OlderInv
    <2>2. ASSUME Alone(p)', NEW f \in left'[p]
          PROVE  kv'[Index[source'[p]]][f] <= start'[p]
      <3>1. ~Idles(p)
        BY <2>2, IdlesEffect DEF Alone
      <3>2. CASE StartSync(p)
        <4>1. PICK s \in todo[p] : TakeSource(p, s)
          BY <3>2 DEF StartSync
        <4>2. source'[p] = s /\ start'[p] = rev[s] /\ left'[p] = Files /\ s \in Sources
          BY <4>1 DEF TakeSource, TypeInv, TypeOK
        <4>3. kv' = kv
          BY <3>2 DEF StartSync, consul
        <4> QED
          BY <2>2, <4>2, <4>3 DEF OlderInv
      <3>3. CASE ~StartSync(p)
        <4>1. /\ Alone(p) /\ source'[p] = source[p] /\ start'[p] = start[p]
              /\ left'[p] \subseteq left[p]
          BY <1>1, <2>2, <3>1, <3>3, GoesOn DEF Alone
        <4>2. kv'[Index[source[p]]][f] = kv[Index[source[p]]][f]
          <5>1. CASE addSourceArtifact(p)
            BY <2>2, <4>1, <5>1, WriteEffect, Numbers
          <5> QED
            BY <1>1, <5>1, OnlyWrites
        <4> QED
          BY <2>2, <4>1, <4>2 DEF OlderInv
      <3> QED
        BY <3>2, <3>3
    <2> QED
      BY <1>1, <2>1, <2>2, NewestStep DEF OlderInv
  <1>2. ASSUME NEW s \in Sources, Commit(s) PROVE OlderInv'
    <2>1. \A t \in Sources : rev[t] \in Nat /\ rev'[t] \in Nat /\ rev'[t] >= rev[t]
      BY <1>2, BoundsAssumption DEF Commit, TypeInv, TypeOK, Rev
    <2>2. UNCHANGED <<kv, pc, source, left, start, overlap>>
      BY <1>2 DEF Commit, consul, history
    <2> QED
      BY <2>1, <2>2, Numbers DEF OlderInv, Alone, Busy
  <1>3. CASE UNCHANGED vars
    BY <1>3 DEF vars, upstream, repositories, consul, history, OlderInv, Alone, Busy
  <1> QED
    BY <1>1, <1>2, <1>3 DEF Next, Step

LEMMA RegressionStep ==
    ASSUME TypeInv, SourceInv, OlderInv, [Next]_vars,
           NEW i \in Indexes, NEW f \in Files, kv'[i][f] < kv[i][f]
    PROVE  \E p \in Procs : pc[p] = "put" /\ Index[source[p]] = i /\ overlap[p]
  <1>1. kv' # kv
    BY Numbers
  <1>2. PICK p \in Procs : Step(p)
    BY <1>1 DEF Next, Step, Commit, vars, consul
  <1>3. addSourceArtifact(p)
    BY <1>1, <1>2, OnlyWrites
  <1>4. /\ Index[source[p]] = i /\ f \in left[p] /\ kv'[i][f] = data[p]
        /\ start[p] <= data[p]
    BY <1>3, WriteEffect, Numbers
  <1>5. pc[p] = "put" /\ Busy(p)
    BY <1>3 DEF addSourceArtifact, Busy
  <1>6. overlap[p]
    BY <1>4, <1>5, Numbers DEF OlderInv, Alone
  <1> QED
    BY <1>4, <1>5, <1>6

(* Where every source has an index of its own, a file in Consul goes back  *)
(* to an older revision only when two synchronisations overlap.            *)
THEOREM AloneMonotone ==
    ASSUME DistinctIndexes
    PROVE  Spec => NoRegressionAlone
  <1> DEFINE J == TypeInv /\ SourceInv /\ AloneInv /\ OlderInv
  <1>1. Init => J
    BY TypeInit, SourceInit, AloneInit
  <1>2. J /\ [Next]_vars => J'
    BY TypeStep, SourceStep, AloneStep, OlderStep
  <1>3. J /\ [Next]_vars =>
          [\A i \in Indexes, f \in Files : kv'[i][f] < kv[i][f] =>
              \E p \in Procs : pc[p] = "put" /\ Index[source[p]] = i /\ overlap[p]]_vars
    BY RegressionStep
  <1> QED
    BY <1>1, <1>2, <1>3, PTL DEF Spec, NoRegressionAlone

-----------------------------------------------------------------------------
(* The timestamp comes after the files.                                    *)

LEMMA CompleteInit == Init => CompleteInv
  <1> QED
    BY DEF Init, CompleteInv, TimestampMeansComplete, Busy, Indexes

\* No write takes a file away.
LEMMA FilesStay ==
    ASSUME TypeInv, SourceInv, NEW p \in Procs, Step(p),
           NEW i \in Indexes, NEW f \in Files, kv[i][f] # 0
    PROVE  kv'[i][f] # 0
  <1>1. CASE addSourceArtifact(p)
    <2>1. Busy(p) /\ data[p] \in Nat /\ start[p] <= data[p]
      BY <1>1, WriteEffect DEF addSourceArtifact, Busy
    <2>2. data[p] # 0
      BY <2>1, Numbers DEF SourceInv
    <2> QED
      BY <1>1, <2>2, WriteEffect
  <1> QED
    BY <1>1, OnlyWrites

\* A process writes the name under the index of its own source only.
LEMMA NamesStay ==
    ASSUME TypeInv, DistinctIndexes, NEW p \in Procs, Step(p),
           NEW s \in Sources, name[Index[s]] = s
    PROVE  name'[Index[s]] = s
  <1>1. CASE setName(p)
    <2>1. source[p] \in Sources /\ Index[s] \in Indexes
      BY <1>1 DEF setName, TypeInv, TypeOK, Busy, Indexes
    <2>2. name' = [name EXCEPT ![Index[source[p]]] = source[p]]
      BY <1>1 DEF setName
    <2>3. CASE Index[s] = Index[source[p]]
      BY <2>1, <2>2, <2>3 DEF DistinctIndexes, TypeInv, TypeOK
    <2>4. CASE Index[s] # Index[source[p]]
      BY <2>1, <2>2, <2>4 DEF TypeInv, TypeOK
    <2> QED
      BY <2>3, <2>4
  <1>2. CASE ~setName(p)
    BY <1>2, StepCases, IdlesEffect
       DEF StartSync, ReadFile, PassBy, WalkUnreadable, addSourceArtifact, consul
  <1> QED
    BY <1>1, <1>2

\* A process that writes the timestamp has finished the walk of its source.
LEMMA StampedIsComplete ==
    ASSUME TypeInv, SourceInv, CompleteInv, DistinctIndexes, NEW p \in Procs, Step(p),
           NEW s \in Sources, updated'[Index[s]]
    PROVE  /\ name[Index[s]] = s
           /\ s \notin unread => \A f \in always[s] : kv[Index[s]][f] # 0
  <1>1. CASE updated' = updated
    BY <1>1 DEF CompleteInv, TimestampMeansComplete
  <1>2. CASE setTimestamp(p) /\ Index[s] = Index[source[p]]
    <2>1. Busy(p) /\ source[p] \in Sources /\ pc[p] = "stamp" /\ left[p] = {}
      BY <1>2 DEF setTimestamp, TypeInv, TypeOK, Busy
    <2>2. source[p] = s
      BY <1>2, <2>1 DEF DistinctIndexes
    <2> QED
      BY <2>1, <2>2 DEF CompleteInv
  <1>3. CASE setTimestamp(p) /\ Index[s] # Index[source[p]]
    <2>1. updated[Index[s]]
      BY <1>3 DEF setTimestamp, TypeInv, TypeOK, Indexes
    <2> QED
      BY <2>1 DEF CompleteInv, TimestampMeansComplete
  <1>4. updated' = updated \/ setTimestamp(p)
    <2>1. CASE StartSync(p)
      BY <2>1 DEF StartSync, consul
    <2>2. CASE Idles(p)
      BY <2>2, IdlesEffect
    <2>3. CASE ~StartSync(p) /\ ~Idles(p)
      BY <2>3, GoesOn
    <2> QED
      BY <2>1, <2>2, <2>3
  <1> QED
    BY <1>1, <1>2, <1>3, <1>4

LEMMA CompleteStep ==
    ASSUME TypeInv, SourceInv, CompleteInv, DistinctIndexes, [Next]_vars
    PROVE  CompleteInv'
  <1>1. ASSUME NEW p \in Procs, Step(p) PROVE CompleteInv'
    <2>1. TimestampMeansComplete'
      <3> SUFFICES ASSUME NEW s \in Sources, updated'[Index[s]]
                   PROVE  /\ name'[Index[s]] = s
                          /\ s \notin unread' => \A f \in always'[s] : kv'[Index[s]][f] # 0
        BY DEF TimestampMeansComplete
      <3>1. always' = always /\ unread \subseteq unread'
        BY <1>1, OnlyReads DEF repositories
      <3>2. /\ name[Index[s]] = s
            /\ s \notin unread => \A f \in always[s] : kv[Index[s]][f] # 0
        BY <1>1, StampedIsComplete
      <3> QED
        BY <1>1, <3>1, <3>2, Numbers, FilesStay, NamesStay
    <2>2. ASSUME NEW q \in Procs, Busy(q)', source'[q] \notin unread', NEW f \in always'[source'[q]] \ left'[q]
          PROVE  kv'[Index[source'[q]]][f] # 0
      <3>1. CASE q # p
        <4>1. /\ Busy(q) /\ source'[q] = source[q] /\ left'[q] = left[q]
              /\ always' = always /\ source[q] \notin unread
          BY <1>1, <2>2, <3>1, OthersKeep, OnlyReads DEF Busy, repositories
        <4>2. kv[Index[source[q]]][f] # 0
          BY <2>2, <4>1 DEF CompleteInv
        <4> QED
          BY <1>1, <2>2, <4>1, <4>2, Numbers, FilesStay
      <3>2. CASE q = p
        <4>1. /\ Busy(p) /\ source'[p] = source[p] /\ f \in always[source[p]]
              /\ source[p] \notin unread
              /\ \/ f \notin left[p] /\ kv'[Index[source[p]]][f] = kv[Index[source[p]]][f]
                 \/ addSourceArtifact(p) /\ kv'[Index[source[p]]][f] = data[p]
          BY <1>1, <2>2, <3>2, WalkedEffect
        <4>2. CASE f \notin left[p] /\ kv'[Index[source[p]]][f] = kv[Index[source[p]]][f]
          BY <3>2, <4>1, <4>2 DEF CompleteInv
        <4>3. CASE addSourceArtifact(p) /\ kv'[Index[source[p]]][f] = data[p]
          <5>1. start[p] <= data[p]
            BY <4>3, WriteEffect
          <5> QED
            BY <3>2, <4>1, <4>3, <5>1, Numbers DEF SourceInv
        <4> QED
          BY <4>1, <4>2, <4>3
      <3> QED
        BY <3>1, <3>2
    <2>3. ASSUME NEW q \in Procs, pc'[q] = "stamp"
          PROVE  name'[Index[source'[q]]] = source'[q]
      <3>1. CASE q # p
        <4>1. pc[q] = "stamp" /\ source'[q] = source[q]
          BY <1>1, <2>3, <3>1, OthersKeep
        <4>2. source[q] \in Sources
          BY <4>1, Numbers DEF Busy
        <4> QED
          BY <1>1, <4>1, <4>2, NamesStay DEF CompleteInv
      <3>2. CASE q = p
        <4>1. setName(p)
          BY <1>1, <2>3, <3>2, StepCases, IdlesEffect
             DEF StartSync, TakeSource, ReadFile, PassBy, WalkUnreadable, addSourceArtifact,
                 GoTo, Busy, TypeInv, TypeOK
        <4>2. source' = source /\ Index[source[p]] \in Indexes
          BY <4>1, Numbers DEF setName, Busy
        <4> QED
          BY <3>2, <4>1, <4>2 DEF setName, TypeInv, TypeOK
      <3> QED
        BY <3>1, <3>2
    <2> QED
      BY <2>1, <2>2, <2>3 DEF CompleteInv, Busy
  <1>2. ASSUME NEW s \in Sources, Commit(s) PROVE CompleteInv'
    <2>1. \A t \in Sources : always'[t] \subseteq always[t]
      BY <1>2 DEF Commit, TypeInv, TypeOK
    <2>2. UNCHANGED <<unread, kv, name, updated, pc, source, left>>
      BY <1>2 DEF Commit, consul
    <2> QED
      BY <2>1, <2>2, Numbers DEF CompleteInv, TimestampMeansComplete, Busy
  <1>3. CASE UNCHANGED vars
    BY <1>3 DEF vars, upstream, repositories, consul, CompleteInv, TimestampMeansComplete, Busy
  <1> QED
    BY <1>1, <1>2, <1>3 DEF Next, Step

(* Where every source has an index of its own, a repository with a         *)
(* timestamp is complete if its source could be read: no crash, overlap or *)
(* edit of the source has the timestamp come before the files.             *)
THEOREM TimestampsComplete ==
    ASSUME DistinctIndexes
    PROVE  Spec => []TimestampMeansComplete
  <1> DEFINE J == TypeInv /\ SourceInv /\ CompleteInv
  <1>1. Init => J
    BY TypeInit, SourceInit, CompleteInit
  <1>2. J /\ [Next]_vars => J'
    BY TypeStep, SourceStep, CompleteStep
  <1>3. J => TimestampMeansComplete
    BY DEF CompleteInv
  <1> QED
    BY <1>1, <1>2, <1>3, PTL DEF Spec
-----------------------------------------------------------------------------
(* What the readers of the repositories see of all this.                   *)

Lasting == [s \in Sources |-> IF s \in unread THEN {} ELSE always[s]]
Held == [i \in Indexes |-> {f \in Files : kv[i][f] # 0}]
Stamped == {i \in Indexes : updated[i]}
LessThan == {x \in Files \X Files : x[1] < x[2]}

\* Where the walk of p has got to, the lasting files before it are there.
LEMMA WalkedIsHeld ==
    ASSUME TypeInv, CompleteInv, NEW p \in Procs, Busy(p),
           NEW f \in Lasting[source[p]] \ left[p]
    PROVE  source[p] \in Sources /\ f \in Held[Index[source[p]]]
  <1>1. source[p] \in Sources /\ Index[source[p]] \in Indexes
    BY Numbers
  <1>2. source[p] \notin unread /\ f \in always[source[p]] /\ f \in Files
    BY <1>1, Numbers DEF Lasting
  <1> QED
    BY <1>1, <1>2 DEF CompleteInv, Held

LEMMA WriteAppears ==
    ASSUME TypeInv, SourceInv, CompleteInv, NEW p \in Procs, addSourceArtifact(p)
    PROVE  /\ UNCHANGED <<Lasting, name, Stamped>>
           /\ \/ Held' = Held
              \/ \E f \in Files :
                   /\ f \notin Held[Index[source[p]]]
                   /\ \A g \in Lasting[source[p]] :
                        <<g, f>> \in LessThan => g \in Held[Index[source[p]]]
                   /\ Held' = [Held EXCEPT ![Index[source[p]]] = @ \cup {f}]
  <1>1. PICK f \in Files : /\ InHand(p, f)
                           /\ kv' = [kv EXCEPT ![Index[source[p]]][f] = data[p]]
    BY DEF addSourceArtifact
  <1>2. Busy(p) /\ pc[p] = "put" /\ UNCHANGED <<upstream, name, updated>>
    BY DEF addSourceArtifact, Busy
  <1>3. source[p] \in Sources /\ Index[source[p]] \in Indexes
    BY <1>2, Numbers
  <1>4. data[p] # 0
    BY <1>2, <1>3, Numbers DEF SourceInv
  <1>5. UNCHANGED <<Lasting, name, Stamped>>
    BY <1>2 DEF Lasting, Stamped, upstream, repositories
  <1>6. \A i \in Indexes, g \in Files :
           kv'[i][g] = IF i = Index[source[p]] /\ g = f THEN data[p] ELSE kv[i][g]
    BY <1>1, <1>3 DEF TypeInv, TypeOK
  <1>7. \A i \in Indexes :
           Held'[i] = IF i = Index[source[p]] THEN Held[i] \cup {f} ELSE Held[i]
    BY <1>4, <1>6 DEF Held
  <1>8. Held' = [Held EXCEPT ![Index[source[p]]] = @ \cup {f}]
    BY <1>7 DEF Held
  <1>9. CASE f \in Held[Index[source[p]]]
    <2>1. \A i \in Indexes : Held'[i] = Held[i]
      BY <1>7, <1>9
    <2>2. Held' = Held
      BY <2>1 DEF Held
    <2> QED
      BY <1>5, <2>2
  <1>10. CASE f \notin Held[Index[source[p]]]
    <2>1. ASSUME NEW g \in Lasting[source[p]], <<g, f>> \in LessThan
          PROVE  g \in Held[Index[source[p]]]
      <3>1. g \notin left[p]
        BY <1>1, <2>1, BoundsAssumption DEF InHand, LessThan
      <3> QED
        BY <1>2, <2>1, <3>1, WalkedIsHeld
    <2> QED
      BY <1>5, <1>8, <1>10, <2>1
  <1> QED
    BY <1>9, <1>10

LEMMA CommitDwindles ==
    ASSUME TypeInv, NEW s \in Sources, Commit(s)
    PROVE  /\ UNCHANGED <<Held, name, Stamped>>
           /\ Lasting' \in [Sources -> SUBSET Files]
           /\ \A t \in Sources : Lasting'[t] \subseteq Lasting[t]
  <1>1. \A t \in Sources : always'[t] \subseteq always[t] /\ always[t] \subseteq Files
    BY DEF Commit, TypeInv, TypeOK
  <1>2. UNCHANGED <<unread, kv, name, updated>>
    BY DEF Commit, consul
  <1> QED
    BY <1>1, <1>2 DEF Lasting, Held, Stamped

LEMMA UnreadableDwindles ==
    ASSUME TypeInv, NEW p \in Procs, WalkUnreadable(p)
    PROVE  /\ UNCHANGED <<Held, name, Stamped>>
           /\ Lasting' \in [Sources -> SUBSET Files]
           /\ \A t \in Sources : Lasting'[t] \subseteq Lasting[t]
  <1>1. \A t \in Sources : always[t] \subseteq Files
    BY Numbers
  <1>2. UNCHANGED <<always, kv, name, updated>> /\ unread \subseteq unread'
    BY DEF WalkUnreadable, repositories, consul
  <1> QED
    BY <1>1, <1>2 DEF Lasting, Held, Stamped

LEMMA NameIsLast ==
    ASSUME TypeInv, CompleteInv, NEW p \in Procs, setName(p)
    PROVE  /\ UNCHANGED <<Lasting, Held, Stamped>> /\ source[p] \in Sources
           /\ Lasting[source[p]] \subseteq Held[Index[source[p]]]
           /\ name' = [name EXCEPT ![Index[source[p]]] = source[p]]
  <1>1. Busy(p) /\ left[p] = {} /\ UNCHANGED <<upstream, kv, updated>>
    BY DEF setName, Busy
  <1>2. UNCHANGED <<Lasting, Held, Stamped>>
    BY <1>1 DEF Lasting, Held, Stamped, upstream, repositories
  <1>3. \A f \in Lasting[source[p]] : f \in Held[Index[source[p]]]
    BY <1>1, WalkedIsHeld
  <1> QED
    BY <1>1, <1>2, <1>3, Numbers DEF setName

LEMMA StampIsAfterName ==
    ASSUME TypeInv, CompleteInv, NEW p \in Procs, setTimestamp(p)
    PROVE  /\ UNCHANGED <<Lasting, Held, name>> /\ source[p] \in Sources
           /\ name[Index[source[p]]] = source[p]
           /\ Stamped' = Stamped \cup {Index[source[p]]}
  <1>1. Busy(p) /\ pc[p] = "stamp" /\ UNCHANGED <<upstream, kv, name>>
    BY DEF setTimestamp, Busy
  <1>2. source[p] \in Sources /\ Index[source[p]] \in Indexes
    BY <1>1, Numbers
  <1>3. \A i \in Indexes : updated'[i] = (i = Index[source[p]] \/ updated[i])
    BY <1>2 DEF setTimestamp, TypeInv, TypeOK
  <1> QED
    BY <1>1, <1>2, <1>3 DEF CompleteInv, Lasting, Held, Stamped, upstream, repositories

LEMMA OthersShowNothing ==
    ASSUME TypeInv, NEW p \in Procs, Step(p),
           ~addSourceArtifact(p), ~WalkUnreadable(p), ~setName(p), ~setTimestamp(p)
    PROVE  UNCHANGED <<Lasting, Held, name, Stamped>>
  <1>1. UNCHANGED <<upstream, kv, name, updated>>
    <2>1. CASE Idles(p)
      BY <2>1, IdlesEffect
    <2>2. CASE StartSync(p) \/ ReadFile(p) \/ PassBy(p)
      BY <2>2 DEF StartSync, ReadFile, PassBy, consul
    <2> QED
      BY <2>1, <2>2, StepCases
  <1> QED
    BY <1>1 DEF Lasting, Held, Stamped, upstream, repositories

LEMMA ReadersStep ==
    ASSUME TypeInv, SourceInv, CompleteInv, [Next]_vars
    PROVE  [Readers!Next]_(Readers!vars)
  <1> USE DEF Lasting, Held, Stamped, LessThan, Readers!vars
  <1>1. ASSUME NEW s \in Sources, Commit(s) PROVE Readers!Next
    BY <1>1, CommitDwindles DEF Readers!Next, Readers!Dwindle
  <1>2. ASSUME NEW p \in Procs, WalkUnreadable(p) PROVE Readers!Next
    BY <1>2, UnreadableDwindles DEF Readers!Next, Readers!Dwindle
  <1>3. ASSUME NEW p \in Procs, addSourceArtifact(p)
        PROVE  UNCHANGED Readers!vars \/ Readers!Next
    <2>1. source[p] \in Sources
      BY <1>3, WriteEffect
    <2> QED
      BY <1>3, <2>1, WriteAppears DEF Readers!Next, Readers!Appear, Readers!Earlier
  <1>4. ASSUME NEW p \in Procs, setName(p) PROVE Readers!Next
    <2>1. Readers!Name(source[p]) /\ source[p] \in Sources
      BY <1>4, NameIsLast DEF Readers!Name
    <2>2. \E s \in Sources : Readers!Name(s)
      BY <2>1
    <2> QED
      BY <2>2 DEF Readers!Next
  <1>5. ASSUME NEW p \in Procs, setTimestamp(p) PROVE Readers!Next
    <2>1. Readers!Stamp(source[p]) /\ source[p] \in Sources
      BY <1>5, StampIsAfterName DEF Readers!Stamp
    <2>2. \E s \in Sources : Readers!Stamp(s)
      BY <2>1
    <2> QED
      BY <2>2 DEF Readers!Next
  <1>6. ASSUME NEW p \in Procs, Step(p),
               ~addSourceArtifact(p), ~WalkUnreadable(p), ~setName(p), ~setTimestamp(p)
        PROVE  UNCHANGED Readers!vars
    BY <1>6, OthersShowNothing
  <1>7. CASE UNCHANGED vars
    BY <1>7 DEF vars, upstream, repositories, consul
  <1> QED
    BY <1>1, <1>2, <1>3, <1>4, <1>5, <1>6, <1>7 DEF Next, Step

LEMMA ReadersInit == Init => Readers!Init
  <1> SUFFICES ASSUME Init PROVE Readers!Init
    OBVIOUS
  <1>1. TypeInv
    BY TypeInit
  <1>2. Lasting \in [Sources -> SUBSET Files]
    BY <1>1, Numbers DEF Lasting
  <1>3. Held \in [Indexes -> SUBSET Files]
    BY DEF Held
  <1>4. Stamped = {} /\ Held = [i \in Indexes |-> {}] /\ name = [i \in Indexes |-> None]
    BY DEF Init, Held, Stamped
  <1>5. Readers!Orderly
    BY <1>4, SourcesAssumption, Numbers, <1>1 DEF Readers!Orderly, Held, Stamped
  <1>6. name \in [Indexes -> Sources \cup {None}]
    BY <1>1 DEF TypeInv, TypeOK
  <1> QED
    BY <1>2, <1>3, <1>5, <1>6 DEF Readers!Init, Readers!Repository, Indexes, Lasting, Held, Stamped

(* Where every source has an index of its own, synchronisations implement  *)
(* what Repositories promises their readers, through any crash, overlap or *)
(* edit of a source.                                                       *)
THEOREM RepositoriesKept ==
    ASSUME DistinctIndexes
    PROVE  Spec => RepositoriesSpec
  <1> DEFINE J == TypeInv /\ SourceInv /\ CompleteInv
  <1>1. Init => J /\ Readers!Init
    BY TypeInit, SourceInit, CompleteInit, ReadersInit
  <1>2. J /\ [Next]_vars => J'
    BY TypeStep, SourceStep, CompleteStep
  <1>3. J /\ [Next]_vars => [Readers!Next]_(Readers!vars)
    BY ReadersStep
  <1> QED
    BY <1>1, <1>2, <1>3, PTL DEF Spec, RepositoriesSpec, Readers!Spec

\* Every step of Repositories keeps the order.
LEMMA OrderKept ==
    ASSUME DistinctIndexes, Readers!Orderly, [Readers!Next]_(Readers!vars),
           Held \in [Indexes -> SUBSET Files], name \in [Indexes -> Sources \cup {None}]
    PROVE  Readers!Orderly'
  <1> USE DEF Lasting, Held, Stamped, Readers!vars
  <1>0. \A s \in Sources : Index[s] \in Indexes
    BY DEF Indexes
  <1>1. CASE Readers!Dwindle
    BY <1>1 DEF Readers!Dwindle, Readers!Orderly, Readers!Earlier
  <1>2. ASSUME NEW s \in Sources, NEW f \in Files, Readers!Appear(s, f) PROVE Readers!Orderly'
    <2> HIDE DEF Lasting, Held, Stamped
    <2>1. /\ \A g \in Lasting[s] : <<g, f>> \in LessThan => g \in Held[Index[s]]
          /\ Held' = [Held EXCEPT ![Index[s]] = @ \cup {f}]
          /\ UNCHANGED <<Lasting, name, Stamped>>
      BY <1>2 DEF Readers!Appear, Readers!Earlier, Lasting, Held, Stamped, LessThan
    <2>2. \A t \in Sources :
            /\ \A g \in Held[Index[t]], h \in Lasting[t] :
                 <<h, g>> \in LessThan => h \in Held[Index[t]]
            /\ name[Index[t]] = t => Lasting[t] \subseteq Held[Index[t]]
            /\ Index[t] \in Stamped => name[Index[t]] = t
      BY DEF Readers!Orderly, Readers!Earlier, Lasting, Held, Stamped, LessThan
    <2>3. \A t \in Sources :
            Held'[Index[t]] = IF t = s THEN Held[Index[t]] \cup {f} ELSE Held[Index[t]]
      BY <1>0, <2>1 DEF DistinctIndexes
    <2>4. \A t \in Sources :
            /\ \A g \in Held'[Index[t]], h \in Lasting'[t] :
                 <<h, g>> \in LessThan => h \in Held'[Index[t]]
            /\ name'[Index[t]] = t => Lasting'[t] \subseteq Held'[Index[t]]
            /\ Index[t] \in Stamped' => name'[Index[t]] = t
      BY <2>1, <2>2, <2>3
    <2> QED
      BY <2>4 DEF Readers!Orderly, Readers!Earlier, Lasting, Held, Stamped, LessThan
  <1>3. ASSUME NEW s \in Sources, Readers!Name(s) PROVE Readers!Orderly'
    <2>1. \A t \in Sources : name'[Index[t]] = IF t = s THEN s ELSE name[Index[t]]
      BY <1>0, <1>3 DEF Readers!Name, DistinctIndexes
    <2> QED
      BY <1>3, <2>1 DEF Readers!Name, Readers!Orderly, Readers!Earlier
  <1>4. ASSUME NEW s \in Sources, Readers!Stamp(s) PROVE Readers!Orderly'
    <2>1. \A t \in Sources : Index[t] \in Stamped' => t = s \/ Index[t] \in Stamped
      BY <1>4 DEF Readers!Stamp, DistinctIndexes
    <2> QED
      BY <1>4, <2>1 DEF Readers!Stamp, Readers!Orderly, Readers!Earlier
  <1>5. CASE UNCHANGED Readers!vars
    BY <1>5 DEF Readers!Orderly, Readers!Earlier
  <1> QED
    BY <1>1, <1>2, <1>3, <1>4, <1>5 DEF Readers!Next

(* So a reader who finds a file finds the lasting files before it in the   *)
(* walk too, and one who finds the name or the timestamp finds all of them.*)
THEOREM ReadersFindOrder ==
    ASSUME DistinctIndexes
    PROVE  Spec => []Readers!Orderly
  <1>1. TypeOK => /\ Held \in [Indexes -> SUBSET Files]
                  /\ name \in [Indexes -> Sources \cup {None}]
    BY DEF TypeOK, Held
  <1>2. Readers!Init => Readers!Orderly
    BY DEF Readers!Init
  <1>3. TypeOK /\ Readers!Orderly /\ [Readers!Next]_(Readers!vars) => Readers!Orderly'
    BY <1>1, OrderKept
  <1> QED
    BY <1>2, <1>3, TypeCorrect, RepositoriesKept, PTL DEF RepositoriesSpec, Readers!Spec
=============================================================================
