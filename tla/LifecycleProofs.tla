-------------------------- MODULE LifecycleProofs --------------------------
(***************************************************************************)
(* Proofs about Lifecycle, for any set of requests, packages and ids, and  *)
(* for every set of combinations of faults.                                *)
(***************************************************************************)
EXTENDS Lifecycle, TLAPS

\* An install request names the app it creates.
Requested ==
    \A w \in Workers : pc[w] = "create" => request[w] \in [pkg : Packages, id : AppIds]

TypeInv == TypeOK /\ Requested

\* Marathon holds one app for an id, and generations order the installations.
AppsOrdered ==
    /\ \A a, b \in apps : a.id = b.id => a = b
    /\ \A a \in apps \cup tasks \cup frameworks : a.gen <= gen
    /\ apps \cap frameworks \subseteq tasks

\* What an uninstall knows of the app it found: while it has not destroyed the
\* app of that id none older can be there, and later only newer ones can.
FoundPast(w) ==
    /\ pc[w] \in {"destroy", "lookup", "teardown", "post"} =>
         /\ found[w] \in App
         /\ found[w].gen <= gen
         /\ \A a \in apps : a.id = found[w].id => a.gen >= found[w].gen
    /\ pc[w] \in {"lookup", "teardown", "post"} =>
         \A a \in apps : a.id = found[w].id => a.gen > found[w].gen
    /\ pc[w] = "teardown" =>
         target[w] \in App /\ SameName(target[w], found[w])

SparesInv == TypeInv /\ AppsOrdered /\ \A w \in Workers : FoundPast(w)

\* w has destroyed an app, and will answer 204 or has done so.
Destroyed(w) == pc[w] \in {"lookup", "teardown", "post"} \/ reply[w] = 204

EffectsDistinct ==
    \A w \in Workers :
        /\ reply[w] = 204 => pc[w] = "done"
        /\ Destroyed(w) =>
             /\ effect[w] \in App \ apps
             /\ effect[w].gen <= gen
             /\ \A v \in Workers \ {w} : Destroyed(v) => effect[v] # effect[w]

DistinctInv == SparesInv /\ EffectsDistinct

-----------------------------------------------------------------------------
(* Type correctness.                                                       *)

LEMMA TypeInit == Init => TypeOK
  <1> SUFFICES ASSUME Init PROVE TypeOK
    OBVIOUS
  <1>1. apps \in SUBSET App
    BY DEF Init, Installed, App
  <1> QED
    BY <1>1 DEF Init, TypeOK, OfFrameworks, Place, Status

\* Answering and continuing keep the types of what they change.
LEMMA ReplyTypes ==
    ASSUME TypeOK, NEW w \in Workers, NEW status \in Status, Reply(w, status)
    PROVE  pc' \in [Workers -> Place] /\ reply' \in [Workers -> Status]
  <1> QED
    BY DEF TypeOK, Reply, Place

LEMMA ContinueTypes ==
    ASSUME TypeOK, NEW w \in Workers, NEW place \in Place, Continue(w, place)
    PROVE  pc' \in [Workers -> Place] /\ reply' \in [Workers -> Status]
  <1> QED
    BY DEF TypeOK, Continue

LEMMA ArrivalTypes ==
    ASSUME TypeOK, NEW w \in Workers, Arrival(w)
    PROVE  TypeOK'
  <1>0. UNCHANGED faults /\ disturbed' \in SUBSET Workers
    BY DEF Arrival, Observe
  <1> USE <1>0 DEF TypeOK, cluster
  <1>1. CASE AcceptInstall(w)
    <2>1. pc' \in [Workers -> Place] /\ reply' \in [Workers -> Status]
      BY <1>1, ContinueTypes DEF AcceptInstall, Place
    <2>2. request' \in [Workers -> Request \cup {None}]
      BY <1>1 DEF AcceptInstall, Request
    <2> QED
      BY <1>1, <2>1, <2>2 DEF AcceptInstall
  <1>2. CASE AcceptUninstall(w)
    <2>1. pc' \in [Workers -> Place] /\ reply' \in [Workers -> Status]
      BY <1>2, ContinueTypes DEF AcceptUninstall, Place
    <2>2. request' \in [Workers -> Request \cup {None}]
      BY <1>2 DEF AcceptUninstall, Request
    <2> QED
      BY <1>2, <2>1, <2>2 DEF AcceptUninstall
  <1>3. CASE BadRequest(w)
    BY <1>3, ReplyTypes, ContinueTypes DEF BadRequest, Panic, Place, Status
  <1>4. CASE AcceptShutdown(w)
    BY <1>4 DEF AcceptShutdown, Place, Status
  <1> QED
    BY <1>1, <1>2, <1>3, <1>4 DEF Arrival

\* The handlers' steps that only answer.
Answer(w) ==
    \/ DefinitionFails(w) \/ CreateConflict(w) \/ CreateRefused(w)
    \/ FindNone(w) \/ FindSeveral(w) \/ FindUnavailable(w)
    \/ DestroyMissing(w) \/ CallFails(w)

LEMMA AnswerEffect ==
    ASSUME NEW w \in Workers, Answer(w)
    PROVE  /\ UNCHANGED <<cluster, request, found, target, effect>>
           /\ Panic(w) \/ \E status \in Status \ {204} : Reply(w, status)
           /\ pc[w] \in {"create", "find", "destroy", "lookup", "teardown"}
  <1> QED
    BY DEF Answer, DefinitionFails, CreateConflict, CreateRefused, FindNone,
           FindSeveral, FindUnavailable, DestroyMissing, CallFails, Status

LEMMA HandlerTypes ==
    ASSUME TypeInv, NEW w \in Workers, Handler(w)
    PROVE  TypeOK'
  <1>0. UNCHANGED faults /\ disturbed' \in SUBSET Workers
    BY DEF Handler, Observe
  <1> USE <1>0 DEF TypeInv, TypeOK, cluster
  <1>1. CASE Answer(w)
    BY <1>1, AnswerEffect, ReplyTypes, ContinueTypes DEF Panic, Place
  <1>2. CASE CreateApp(w)
    <2> DEFINE a == [id |-> request[w].id, pkg |-> request[w].pkg, gen |-> gen + 1]
    <2>1. a \in App
      <3>1. request[w] \in [pkg : Packages, id : AppIds]
        BY <1>2 DEF CreateApp, Requested
      <3>2. gen + 1 \in Nat
        OBVIOUS
      <3> QED
        BY <3>1, <3>2 DEF App
    <2>2. apps' = apps \cup {a} /\ effect' = [effect EXCEPT ![w] = a]
      BY <1>2 DEF CreateApp, Does
    <2>4. gen' = gen + 1 /\ UNCHANGED <<tasks, frameworks, znodes, request, found, target>>
      BY <1>2 DEF CreateApp
    <2>3. pc' \in [Workers -> Place] /\ reply' \in [Workers -> Status]
      BY <1>2, ReplyTypes DEF CreateApp, Status
    <2> HIDE DEF a
    <2>5. apps' \in SUBSET App /\ gen' \in Nat
      BY <2>1, <2>2, <2>4
    <2>6. effect' \in [Workers -> App \cup {None}]
      BY <2>1, <2>2
    <2> QED
      BY <2>3, <2>4, <2>5, <2>6
  <1>3. CASE FindInstalled(w)
    <2>1. pc' \in [Workers -> Place] /\ reply' \in [Workers -> Status]
      BY <1>3, ContinueTypes DEF FindInstalled, Place
    <2>2. PICK a \in apps : found' = [found EXCEPT ![w] = a]
      BY <1>3 DEF FindInstalled
    <2>3. found' \in [Workers -> App \cup {None}]
      BY <2>2
    <2>4. UNCHANGED <<cluster, request, target, effect>>
      BY <1>3 DEF FindInstalled
    <2> QED
      BY <2>1, <2>3, <2>4
  <1>4. CASE DestroyApp(w)
    <2>1. pc' \in [Workers -> Place] /\ reply' \in [Workers -> Status]
      BY <1>4, ContinueTypes, ReplyTypes DEF DestroyApp, Place, Status
    <2>2. PICK a \in apps : /\ apps' = apps \ {a} /\ tasks' \in {tasks, tasks \ {a}}
                           /\ effect' = [effect EXCEPT ![w] = a]
      BY <1>4 DEF DestroyApp, Does
    <2>3. effect' \in [Workers -> App \cup {None}]
      BY <2>2
    <2>4. UNCHANGED <<gen, frameworks, znodes, request, found, target>>
      BY <1>4 DEF DestroyApp
    <2> QED
      BY <2>1, <2>2, <2>3, <2>4
  <1>5. CASE LookupFramework(w)
    <2>1. pc' \in [Workers -> Place] /\ reply' \in [Workers -> Status]
      BY <1>5, ContinueTypes, ReplyTypes DEF LookupFramework, Place, Status
    <2>2. target' \in [Workers -> App \cup {None}]
      BY <1>5 DEF LookupFramework
    <2>3. UNCHANGED <<cluster, request, found, effect>>
      BY <1>5 DEF LookupFramework
    <2> QED
      BY <2>1, <2>2, <2>3
  <1>6. CASE Teardown(w)
    <2>1. pc' \in [Workers -> Place] /\ reply' \in [Workers -> Status]
      BY <1>6, ContinueTypes, ReplyTypes DEF Teardown, Place, Status
    <2> QED
      BY <1>6, <2>1 DEF Teardown, RemoveFramework
  <1>7. CASE PostUninstall(w)
    <2>1. pc' \in [Workers -> Place] /\ reply' \in [Workers -> Status]
      BY <1>7, ReplyTypes DEF PostUninstall, Status
    <2> QED
      BY <1>7, <2>1 DEF PostUninstall
  <1>8. CASE ShutdownFramework(w)
    <2>1. pc' \in [Workers -> Place] /\ reply' \in [Workers -> Status]
      BY <1>8, ContinueTypes DEF ShutdownFramework, Place
    <2>2. effect' \in [Workers -> App \cup {None}]
      BY <1>8 DEF ShutdownFramework, RemoveFramework, Does
    <2> QED
      BY <1>8, <2>1, <2>2 DEF ShutdownFramework, RemoveFramework
  <1> QED
    BY <1>1, <1>2, <1>3, <1>4, <1>5, <1>6, <1>7, <1>8 DEF Handler, Answer

LEMMA EnvironmentTypes ==
    ASSUME TypeOK, Environment
    PROVE  TypeOK'
  <1>1. disturbed' \in SUBSET Workers
    BY DEF Environment, Observe
  <1> QED
    BY <1>1 DEF TypeOK, Environment, OfFrameworks, Launch, Register, WriteState, Kill,
       Expire

\* A step moves the program counter of one request at most, and only an arrival
\* brings it to "create".
LEMMA RequestedStep ==
    ASSUME TypeInv, [Next]_vars
    PROVE  Requested'
  <1> USE DEF TypeInv, TypeOK, Requested
  <1>1. ASSUME NEW w \in Workers, AcceptInstall(w) PROVE Requested'
    <2>1. \A v \in Workers \ {w} : pc'[v] = pc[v] /\ request'[v] = request[v]
      BY <1>1 DEF AcceptInstall, Continue
    <2>2. request'[w] \in [pkg : Packages, id : AppIds]
      BY <1>1 DEF AcceptInstall
    <2> QED
      BY <2>1, <2>2
  <1>2. ASSUME NEW w \in Workers, AcceptUninstall(w) PROVE Requested'
    BY <1>2 DEF AcceptUninstall, Continue
  <1>3. ASSUME NEW w \in Workers, BadRequest(w) \/ AcceptShutdown(w) PROVE Requested'
    BY <1>3 DEF BadRequest, AcceptShutdown, Reply, Panic, Continue
  <1>4. ASSUME NEW w \in Workers, Handler(w) PROVE Requested'
    <2>1. CASE Answer(w)
      BY <2>1, AnswerEffect DEF Reply, Panic, Continue
    <2>2. CASE CreateApp(w)
      BY <2>2 DEF CreateApp, Reply
    <2>3. CASE FindInstalled(w)
      BY <2>3 DEF FindInstalled, Continue
    <2>4. CASE DestroyApp(w)
      BY <2>4 DEF DestroyApp, Continue, Reply
    <2>5. CASE LookupFramework(w)
      BY <2>5 DEF LookupFramework, Continue, Reply
    <2>6. CASE Teardown(w)
      BY <2>6 DEF Teardown, Continue, Reply
    <2>7. CASE PostUninstall(w)
      BY <2>7 DEF PostUninstall, Reply
    <2>8. CASE ShutdownFramework(w)
      BY <2>8 DEF ShutdownFramework, Continue
    <2> QED
      BY <1>4, <2>1, <2>2, <2>3, <2>4, <2>5, <2>6, <2>7, <2>8 DEF Handler, Answer
  <1>5. CASE Environment
    BY <1>5 DEF Environment
  <1>6. CASE UNCHANGED vars
    BY <1>6 DEF vars
  <1> QED
    BY <1>1, <1>2, <1>3, <1>4, <1>5, <1>6 DEF Next, Arrival

LEMMA TypeStep == TypeInv /\ [Next]_vars => TypeInv'
  <1> SUFFICES ASSUME TypeInv, [Next]_vars PROVE TypeOK'
    BY RequestedStep DEF TypeInv
  <1>1. CASE UNCHANGED vars
    BY <1>1 DEF vars, cluster, TypeInv, TypeOK
  <1>2. CASE Next
    BY <1>2, ArrivalTypes, HandlerTypes, EnvironmentTypes DEF Next, TypeInv
  <1> QED
    BY <1>1, <1>2

(* Every variable keeps its type, under every combination of faults.       *)
THEOREM TypeCorrect == Spec => []TypeOK
  <1>1. Init => TypeInv
    BY TypeInit DEF Init, TypeInv, Requested
  <1>2. TypeInv => TypeOK
    BY DEF TypeInv
  <1> QED
    BY <1>1, <1>2, TypeStep, PTL DEF Spec

-----------------------------------------------------------------------------
(* Uninstalls spare the apps of others.                                    *)

\* A request's step leaves the other requests alone.
LEMMA OthersKeep ==
    ASSUME TypeOK, NEW w \in Workers, Arrival(w) \/ Handler(w)
    PROVE  \A v \in Workers \ {w} :
             /\ pc'[v] = pc[v] /\ found'[v] = found[v] /\ target'[v] = target[v]
             /\ reply'[v] = reply[v] /\ effect'[v] = effect[v]
  <1> USE DEF TypeOK, Reply, Continue, Panic, Does
  <1>1. CASE Arrival(w)
    BY <1>1 DEF Arrival, AcceptInstall, AcceptUninstall, BadRequest, AcceptShutdown
  <1>2. CASE Answer(w)
    BY <1>2, AnswerEffect
  <1>3. CASE CreateApp(w)
    <2>1. PICK a : effect' = [effect EXCEPT ![w] = a]
      BY <1>3 DEF CreateApp
    <2> QED
      BY <1>3, <2>1 DEF CreateApp
  <1>4. CASE FindInstalled(w) \/ DestroyApp(w) \/ LookupFramework(w)
    BY <1>4 DEF FindInstalled, DestroyApp, LookupFramework
  <1>5. CASE Teardown(w) \/ PostUninstall(w) \/ ShutdownFramework(w)
    BY <1>5 DEF Teardown, PostUninstall, ShutdownFramework
  <1> QED
    BY <1>1, <1>2, <1>3, <1>4, <1>5 DEF Handler, Answer

\* Apps only go, or come with a generation that nobody has found.
LEMMA PastKept ==
    ASSUME SparesInv, NEW v \in Workers,
           gen' \in Nat, gen <= gen',
           \A a \in apps' : a \in apps \/ (a \in App /\ a.gen > gen),
           pc'[v] = pc[v], found'[v] = found[v], target'[v] = target[v]
    PROVE  FoundPast(v)'
  <1>1. FoundPast(v) /\ gen \in Nat /\ apps \in SUBSET App
    BY DEF SparesInv, TypeInv, TypeOK
  <1>2. CASE pc[v] \in {"destroy", "lookup", "teardown", "post"}
    <2>1. found[v] \in App /\ found[v].gen \in Nat /\ found[v].gen <= gen
      BY <1>1, <1>2 DEF FoundPast, App
    <2>2. \A a \in apps' : a.gen \in Nat /\ (a \in apps \/ a.gen > found[v].gen)
      BY <1>1, <2>1 DEF App
    <2>3. found[v].gen <= gen'
      BY <1>1, <2>1
    <2>4. \A a \in apps' : a.id = found[v].id => a.gen >= found[v].gen
      BY <1>1, <1>2, <2>1, <2>2 DEF FoundPast
    <2>5. pc[v] \in {"lookup", "teardown", "post"} =>
            \A a \in apps' : a.id = found[v].id => a.gen > found[v].gen
      BY <1>1, <2>2 DEF FoundPast
    <2> QED
      BY <1>1, <2>1, <2>3, <2>4, <2>5 DEF FoundPast, SameName
  <1>3. CASE pc[v] \notin {"destroy", "lookup", "teardown", "post"}
    BY <1>3 DEF FoundPast
  <1> QED
    BY <1>2, <1>3

\* What a step of a request does to the cluster.
LEMMA HandlerApps ==
    ASSUME SparesInv, NEW w \in Workers, Arrival(w) \/ Handler(w)
    PROVE  /\ gen' \in Nat /\ gen <= gen'
           /\ \A a \in apps' : a \in apps \/ (a \in App /\ a.gen > gen)
           /\ AppsOrdered'
  <1> USE DEF SparesInv, TypeInv, TypeOK, cluster
  <1>1. CASE Arrival(w) \/ Answer(w) \/ FindInstalled(w) \/ LookupFramework(w)
    <2>1. UNCHANGED cluster
      BY <1>1, AnswerEffect DEF Arrival, AcceptInstall, AcceptUninstall, BadRequest,
         AcceptShutdown, FindInstalled, LookupFramework
    <2> QED
      BY <2>1 DEF AppsOrdered
  <1>2. CASE CreateApp(w)
    <2> DEFINE a == [id |-> request[w].id, pkg |-> request[w].pkg, gen |-> gen + 1]
    <2>1. a \in App
      <3>1. request[w] \in [pkg : Packages, id : AppIds]
        BY <1>2 DEF CreateApp, Requested
      <3>2. gen + 1 \in Nat
        OBVIOUS
      <3> QED
        BY <3>1, <3>2 DEF App
    <2>2. /\ apps' = apps \cup {a} /\ gen' = gen + 1
          /\ \A b \in apps : b.id # a.id
          /\ UNCHANGED <<tasks, frameworks>>
      BY <1>2 DEF CreateApp
    <2>3. a.gen = gen + 1
      OBVIOUS
    <2> HIDE DEF a
    <2>4. \A b, c \in apps' : b.id = c.id => b = c
      BY <2>2 DEF AppsOrdered
    <2>5. \A b \in apps' \cup tasks' \cup frameworks' : b.gen <= gen'
      <3>1. \A b \in apps \cup tasks \cup frameworks : b.gen \in Nat /\ b.gen <= gen
        BY DEF AppsOrdered, App
      <3> QED
        BY <2>2, <2>3, <3>1
    <2>6. a \notin frameworks
      <3>1. \A b \in frameworks : b.gen \in Nat /\ b.gen <= gen
        BY DEF AppsOrdered, App
      <3> QED
        BY <2>3, <3>1
    <2>7. apps' \cap frameworks' \subseteq tasks'
      BY <2>2, <2>6 DEF AppsOrdered
    <2> QED
      BY <2>1, <2>2, <2>3, <2>4, <2>5, <2>7 DEF AppsOrdered
  <1>3. CASE DestroyApp(w)
    <2>1. PICK a \in apps : apps' = apps \ {a} /\ tasks' \in {tasks, tasks \ {a}}
      BY <1>3 DEF DestroyApp
    <2>2. UNCHANGED <<gen, frameworks>>
      BY <1>3 DEF DestroyApp
    <2>3. apps' \cap frameworks' \subseteq tasks'
      BY <2>1, <2>2 DEF AppsOrdered
    <2>4. apps' \cup tasks' \cup frameworks' \subseteq apps \cup tasks \cup frameworks
      BY <2>1, <2>2
    <2>5. AppsOrdered'
      BY <2>1, <2>2, <2>3, <2>4 DEF AppsOrdered
    <2> QED
      BY <2>1, <2>2, <2>5
  <1>4. CASE Teardown(w) \/ ShutdownFramework(w)
    <2>1. UNCHANGED cluster \/ RemoveFramework(target[w])
      BY <1>4 DEF Teardown, ShutdownFramework
    <2> QED
      BY <2>1 DEF RemoveFramework, AppsOrdered
  <1>5. CASE PostUninstall(w)
    BY <1>5 DEF PostUninstall, AppsOrdered
  <1> QED
    BY <1>1, <1>2, <1>3, <1>4, <1>5 DEF Handler, Answer

\* The acting request itself.
LEMMA PastOfActor ==
    ASSUME SparesInv, NEW w \in Workers, Arrival(w) \/ Handler(w)
    PROVE  FoundPast(w)'
  <1> USE DEF SparesInv, TypeInv, TypeOK, cluster
  <1>1. CASE Arrival(w) \/ Answer(w) \/ CreateApp(w) \/ PostUninstall(w) \/ ShutdownFramework(w)
    <2>1. pc'[w] \notin {"destroy", "lookup", "teardown", "post"}
      BY <1>1, AnswerEffect DEF Arrival, AcceptInstall, AcceptUninstall, BadRequest,
         AcceptShutdown, CreateApp, PostUninstall, ShutdownFramework, Reply, Continue, Panic
    <2> QED
      BY <2>1 DEF FoundPast
  <1>2. CASE FindInstalled(w)
    <2>1. PICK a \in apps : found' = [found EXCEPT ![w] = a]
      BY <1>2 DEF FindInstalled
    <2>2. pc'[w] = "destroy" /\ UNCHANGED <<apps, gen>>
      BY <1>2 DEF FindInstalled, Continue
    <2>3. \A b \in apps : b.id = a.id => b = a
      BY DEF AppsOrdered
    <2>4. a \in App /\ a.gen \in Nat /\ a.gen <= gen
      BY DEF AppsOrdered, App
    <2> QED
      BY <2>1, <2>2, <2>3, <2>4 DEF FoundPast
  <1>3. CASE DestroyApp(w)
    <2>1. PICK a \in apps : a.id = found[w].id /\ apps' = apps \ {a}
      BY <1>3 DEF DestroyApp
    <2>2. /\ UNCHANGED <<gen, found>> /\ pc[w] = "destroy"
          /\ pc'[w] \in {"lookup", "post", "done"}
      BY <1>3 DEF DestroyApp, Continue, Reply
    <2>3. found[w] \in App /\ found[w].gen <= gen
      BY <2>2 DEF FoundPast
    <2>4. \A b \in apps' : b.id # found[w].id
      BY <2>1 DEF AppsOrdered
    <2> QED
      BY <2>2, <2>3, <2>4 DEF FoundPast
  <1>4. CASE LookupFramework(w)
    <2>1. UNCHANGED <<apps, gen, found>> /\ pc[w] = "lookup"
      BY <1>4 DEF LookupFramework
    <2>2. pc'[w] \in {"teardown", "post", "done"}
      BY <1>4 DEF LookupFramework, Continue, Reply
    <2>3. pc'[w] = "teardown" => target'[w] \in App /\ SameName(target'[w], found[w])
      BY <1>4 DEF LookupFramework, Continue, Reply, Named
    <2> QED
      BY <2>1, <2>2, <2>3 DEF FoundPast
  <1>5. CASE Teardown(w)
    <2>1. UNCHANGED <<apps, gen, found>> /\ pc[w] = "teardown" /\ pc'[w] \in {"post", "done"}
      BY <1>5 DEF Teardown, RemoveFramework, Continue, Reply
    <2> QED
      BY <2>1 DEF FoundPast
  <1> QED
    BY <1>1, <1>2, <1>3, <1>4, <1>5 DEF Handler, Answer

LEMMA SparesStep == SparesInv /\ [Next]_vars => SparesInv'
  <1> SUFFICES ASSUME SparesInv, [Next]_vars
               PROVE  AppsOrdered' /\ \A v \in Workers : FoundPast(v)'
    BY TypeStep DEF SparesInv
  <1>1. ASSUME NEW w \in Workers, Arrival(w) \/ Handler(w)
        PROVE  AppsOrdered' /\ \A v \in Workers : FoundPast(v)'
    <2>1. FoundPast(w)'
      BY <1>1, PastOfActor
    <2>2. \A v \in Workers \ {w} : FoundPast(v)'
      BY <1>1, HandlerApps, OthersKeep, PastKept DEF SparesInv, TypeInv
    <2> QED
      BY <1>1, <2>1, <2>2, HandlerApps
  <1>2. CASE Environment
    <2>1. UNCHANGED <<apps, gen, pc, found, target>>
      BY <1>2 DEF Environment, Launch, Register, WriteState, Kill, Expire
    <2>2. \A v \in Workers : FoundPast(v)'
      BY <2>1 DEF SparesInv, FoundPast
    <2>3. AppsOrdered'
      <3>1. tasks' \cup frameworks' \subseteq apps \cup tasks \cup frameworks
        BY <1>2 DEF Environment, OfFrameworks, Launch, Register, WriteState, Kill, Expire
      <3>2. apps \cap frameworks' \subseteq tasks'
        BY <1>2 DEF Environment, OfFrameworks, Launch, Register, WriteState, Kill, Expire,
                    SparesInv, AppsOrdered
      <3> QED
        BY <2>1, <3>1, <3>2 DEF SparesInv, AppsOrdered
    <2> QED
      BY <2>2, <2>3
  <1>3. CASE UNCHANGED vars
    BY <1>3 DEF vars, cluster, SparesInv, AppsOrdered, FoundPast
  <1> QED
    BY <1>1, <1>2, <1>3 DEF Next

\* A step that starts in the invariant harms no app installed before the look.
LEMMA SparesAction ==
    ASSUME SparesInv, [Next]_vars
    PROVE  /\ \A a \in apps \ apps' : \E w \in Workers :
                pc[w] = "destroy" /\ a.id = found[w].id /\ a.gen >= found[w].gen
           /\ \A a \in apps \cap (frameworks \ frameworks') : \E w \in Workers :
                \/ pc[w] = "shutdown" /\ target[w] = a
                \/ pc[w] = "teardown" /\ SameName(a, found[w]) /\ a.gen > found[w].gen
           /\ \A a \in apps \cap (znodes \ znodes') : \E w \in Workers :
                pc[w] = "post" /\ SameName(a, found[w]) /\ a.gen > found[w].gen
  <1> DEFINE Harmless == apps \subseteq apps' /\ apps \cap frameworks \subseteq frameworks'
                         /\ znodes \subseteq znodes'
  <1>1. CASE Environment
    <2>1. Harmless
      BY <1>1 DEF Environment, Launch, Register, WriteState, Kill, Expire, SparesInv, AppsOrdered
    <2> QED
      BY <2>1
  <1>2. CASE UNCHANGED vars
    BY <1>2 DEF vars, cluster
  <1>3. ASSUME NEW w \in Workers,
               Arrival(w) \/ Answer(w) \/ CreateApp(w) \/ FindInstalled(w) \/ LookupFramework(w)
        PROVE  Harmless
    BY <1>3, AnswerEffect DEF Arrival, AcceptInstall, AcceptUninstall, BadRequest,
       AcceptShutdown, CreateApp, FindInstalled, LookupFramework, cluster
  <1>4. ASSUME NEW w \in Workers, DestroyApp(w)
        PROVE  /\ UNCHANGED <<frameworks, znodes>> /\ pc[w] = "destroy"
               /\ \A a \in apps \ apps' : a.id = found[w].id /\ a.gen >= found[w].gen
    BY <1>4 DEF DestroyApp, SparesInv, FoundPast
  <1>5. ASSUME NEW w \in Workers, Teardown(w)
        PROVE  /\ UNCHANGED <<apps, znodes>> /\ pc[w] = "teardown"
               /\ \A a \in apps \cap (frameworks \ frameworks') :
                    SameName(a, found[w]) /\ a.gen > found[w].gen
    <2>1. pc[w] = "teardown" /\ UNCHANGED <<apps, znodes>> /\ frameworks \ frameworks' \subseteq {target[w]}
      BY <1>5 DEF Teardown, RemoveFramework, cluster
    <2> QED
      BY <2>1 DEF SparesInv, FoundPast, SameName
  <1>6. ASSUME NEW w \in Workers, ShutdownFramework(w)
        PROVE  /\ UNCHANGED <<apps, znodes>> /\ pc[w] = "shutdown"
               /\ frameworks \ frameworks' \subseteq {target[w]}
    BY <1>6 DEF ShutdownFramework, RemoveFramework, cluster
  <1>7. ASSUME NEW w \in Workers, PostUninstall(w)
        PROVE  /\ UNCHANGED <<apps, frameworks>> /\ pc[w] = "post"
               /\ \A a \in apps \cap (znodes \ znodes') :
                    SameName(a, found[w]) /\ a.gen > found[w].gen
    BY <1>7 DEF PostUninstall, SparesInv, FoundPast, SameName
  <1>8. CASE \E w \in Workers : Arrival(w) \/ Handler(w)
    <2> PICK w \in Workers : Arrival(w) \/ Handler(w)
      BY <1>8
    <2>1. CASE Harmless
      BY <2>1
    <2>2. CASE DestroyApp(w)
      BY <1>4, <2>2
    <2>3. CASE Teardown(w)
      BY <1>5, <2>3
    <2>4. CASE ShutdownFramework(w)
      BY <1>6, <2>4
    <2>5. CASE PostUninstall(w)
      BY <1>7, <2>5
    <2> QED
      BY <1>3, <2>1, <2>2, <2>3, <2>4, <2>5 DEF Handler, Answer
  <1> QED
    BY <1>1, <1>2, <1>8 DEF Next

LEMMA SparesInit == Init => SparesInv
  <1> SUFFICES ASSUME Init PROVE SparesInv
    OBVIOUS
  <1>1. TypeInv
    BY TypeInit DEF Init, TypeInv, Requested
  <1>2. apps \in Installed /\ gen = 0 /\ tasks = apps /\ frameworks \subseteq apps
    BY DEF Init, OfFrameworks
  <1>3. AppsOrdered
    BY <1>2 DEF AppsOrdered, Installed
  <1>4. \A w \in Workers : FoundPast(w)
    BY DEF Init, FoundPast
  <1> QED
    BY <1>1, <1>3, <1>4 DEF SparesInv

LEMMA SparesInvariant == Spec => []SparesInv
  <1> QED
    BY SparesInit, SparesStep, PTL DEF Spec

(* Whatever requests race, whatever calls fail, and however long the tasks *)
(* of destroyed apps live: an uninstall destroys an app of the id it found *)
(* and of the apps that are installed takes a framework or ZooKeeper state *)
(* only from one installed after it had looked.                            *)
THEOREM UninstallSparesOthers == Spec => SparesOthers
  <1>1. SparesInv /\ [Next]_vars =>
          [/\ \A a \in apps \ apps' : \E w \in Workers :
                pc[w] = "destroy" /\ a.id = found[w].id /\ a.gen >= found[w].gen
           /\ \A a \in apps \cap (frameworks \ frameworks') : \E w \in Workers :
                \/ pc[w] = "shutdown" /\ target[w] = a
                \/ pc[w] = "teardown" /\ SameName(a, found[w]) /\ a.gen > found[w].gen
           /\ \A a \in apps \cap (znodes \ znodes') : \E w \in Workers :
                pc[w] = "post" /\ SameName(a, found[w]) /\ a.gen > found[w].gen
          ]_vars
    BY SparesAction
  <1> QED
    BY <1>1, SparesInvariant, PTL DEF Spec, SparesOthers

-----------------------------------------------------------------------------
(* Successful uninstalls have distinct effects.                            *)

\* No step takes an effect back, and apps only go or are new.
LEMMA DistinctKept ==
    ASSUME DistinctInv,
           gen' \in Nat, gen <= gen',
           \A a \in apps' : a \in apps \/ (a \in App /\ a.gen > gen),
           \A v \in Workers : Destroyed(v)' => Destroyed(v) /\ effect'[v] = effect[v],
           \A v \in Workers : reply'[v] = 204 => pc'[v] = "done"
    PROVE  EffectsDistinct'
  <1> SUFFICES ASSUME NEW w \in Workers, Destroyed(w)'
               PROVE  /\ effect'[w] \in App \ apps'
                      /\ effect'[w].gen <= gen'
                      /\ \A v \in Workers \ {w} : Destroyed(v)' => effect'[v] # effect'[w]
    BY DEF EffectsDistinct
  <1>1. /\ Destroyed(w) /\ effect'[w] = effect[w]
        /\ effect[w] \in App \ apps /\ effect[w].gen <= gen
        /\ \A v \in Workers \ {w} : Destroyed(v) => effect[v] # effect[w]
    BY DEF DistinctInv, EffectsDistinct
  <1>2. effect[w].gen \in Nat /\ gen \in Nat
    BY <1>1 DEF App, DistinctInv, SparesInv, TypeInv, TypeOK
  <1>3. effect[w] \notin apps'
    BY <1>1, <1>2 DEF App
  <1>4. effect[w].gen <= gen'
    BY <1>1, <1>2
  <1> QED
    BY <1>1, <1>3, <1>4

LEMMA DestroyDistinct ==
    ASSUME DistinctInv, NEW w \in Workers, Handler(w), DestroyApp(w)
    PROVE  EffectsDistinct'
  <1> USE DEF DistinctInv, SparesInv, TypeInv, TypeOK
  <1>1. PICK a \in apps : apps' = apps \ {a} /\ effect' = [effect EXCEPT ![w] = a]
    BY DEF DestroyApp, Does
  <1>2. a \in App /\ a.gen <= gen /\ gen' = gen /\ pc[w] = "destroy"
    BY DEF DestroyApp, AppsOrdered
  <1>3. \A v \in Workers \ {w} : pc'[v] = pc[v] /\ reply'[v] = reply[v] /\ effect'[v] = effect[v]
    BY OthersKeep
  <1>4. effect'[w] = a
    BY <1>1
  <1>5. reply'[w] # 204
    BY <1>2 DEF DestroyApp, Continue, Reply, EffectsDistinct
  <1>6. \A v \in Workers \ {w} : Destroyed(v)' => effect[v] \in App \ apps /\ effect[v].gen <= gen
    BY <1>3 DEF EffectsDistinct, Destroyed
  <1>7. \A v \in Workers : reply'[v] = 204 => pc'[v] = "done"
    BY <1>3, <1>5 DEF EffectsDistinct
  <1>8. \A v \in Workers : Destroyed(v)' => effect'[v] \in App \ apps' /\ effect'[v].gen <= gen'
    BY <1>1, <1>2, <1>3, <1>4, <1>6
  <1>9. \A v, u \in Workers : v # u /\ Destroyed(v)' /\ Destroyed(u)' => effect'[v] # effect'[u]
    <2> SUFFICES ASSUME NEW v \in Workers, NEW u \in Workers,
                        v # u, Destroyed(v)', Destroyed(u)'
                 PROVE  effect'[v] # effect'[u]
      OBVIOUS
    <2>1. CASE v = w
      BY <1>3, <1>4, <1>6, <2>1
    <2>2. CASE u = w
      BY <1>3, <1>4, <1>6, <2>2
    <2>3. CASE v # w /\ u # w
      BY <1>3, <2>3 DEF EffectsDistinct, Destroyed
    <2> QED
      BY <2>1, <2>2, <2>3
  <1> QED
    BY <1>7, <1>8, <1>9 DEF EffectsDistinct

LEMMA DistinctStep == DistinctInv /\ [Next]_vars => DistinctInv'
  <1> SUFFICES ASSUME DistinctInv, [Next]_vars PROVE EffectsDistinct'
    BY SparesStep DEF DistinctInv
  <1>1. gen \in Nat
    BY DEF DistinctInv, SparesInv, TypeInv, TypeOK
  <1>2. CASE Environment
    <2>1. UNCHANGED <<apps, gen, pc, reply, effect>>
      BY <1>2 DEF Environment, Launch, Register, WriteState, Kill, Expire
    <2> QED
      BY <2>1 DEF DistinctInv, EffectsDistinct, Destroyed
  <1>3. CASE UNCHANGED vars
    BY <1>3 DEF vars, cluster, DistinctInv, EffectsDistinct, Destroyed
  <1>4. ASSUME NEW w \in Workers, Arrival(w) \/ Handler(w), ~DestroyApp(w)
        PROVE  EffectsDistinct'
    <2>1. \A v \in Workers \ {w} : pc'[v] = pc[v] /\ reply'[v] = reply[v] /\ effect'[v] = effect[v]
      BY <1>4, OthersKeep DEF DistinctInv, SparesInv, TypeInv
    <2>2. pc[w] # "done" /\ reply[w] # 204
      <3>1. pc[w] # "done"
        BY <1>4, AnswerEffect DEF Arrival, AcceptInstall, AcceptUninstall, BadRequest,
           AcceptShutdown, Handler, Answer, CreateApp, FindInstalled, LookupFramework,
           Teardown, PostUninstall, ShutdownFramework
      <3> QED
        BY <3>1 DEF DistinctInv, EffectsDistinct
    <2>3. /\ Destroyed(w)' => Destroyed(w) /\ effect'[w] = effect[w]
          /\ reply'[w] = 204 => pc'[w] = "done"
      <3> USE DEF DistinctInv, SparesInv, TypeInv, TypeOK, Destroyed, Reply, Continue, Panic
      <3>1. CASE Arrival(w)
        BY <2>2, <3>1 DEF Arrival, AcceptInstall, AcceptUninstall, BadRequest, AcceptShutdown
      <3>2. CASE Answer(w)
        BY <2>2, <3>2, AnswerEffect
      <3>3. CASE CreateApp(w)
        BY <2>2, <3>3 DEF CreateApp
      <3>4. CASE FindInstalled(w)
        BY <2>2, <3>4 DEF FindInstalled
      <3>5. CASE LookupFramework(w) \/ Teardown(w)
        BY <2>2, <3>5 DEF LookupFramework, Teardown
      <3>6. CASE PostUninstall(w)
        BY <2>2, <3>6 DEF PostUninstall
      <3>7. CASE ShutdownFramework(w)
        BY <2>2, <3>7 DEF ShutdownFramework
      <3> QED
        BY <1>4, <3>1, <3>2, <3>3, <3>4, <3>5, <3>6, <3>7 DEF Handler, Answer
    <2>4. \A v \in Workers : Destroyed(v)' => Destroyed(v) /\ effect'[v] = effect[v]
      BY <2>1, <2>3 DEF Destroyed
    <2>5. \A v \in Workers : reply'[v] = 204 => pc'[v] = "done"
      BY <2>1, <2>3 DEF DistinctInv, EffectsDistinct
    <2>6. /\ gen' \in Nat /\ gen <= gen'
          /\ \A a \in apps' : a \in apps \/ (a \in App /\ a.gen > gen)
      BY <1>4, HandlerApps DEF DistinctInv
    <2> QED
      BY <2>4, <2>5, <2>6, DistinctKept
  <1>5. ASSUME NEW w \in Workers, Arrival(w) \/ Handler(w), DestroyApp(w)
        PROVE  EffectsDistinct'
    <2>1. ~Arrival(w)
      BY <1>5 DEF DestroyApp, Arrival, AcceptInstall, AcceptUninstall, BadRequest,
         AcceptShutdown
    <2> QED
      BY <1>5, <2>1, DestroyDistinct
  <1> QED
    BY <1>2, <1>3, <1>4, <1>5 DEF Next

LEMMA DistinctInit == Init => DistinctInv
  <1> SUFFICES ASSUME Init PROVE EffectsDistinct
    BY SparesInit DEF DistinctInv
  <1> QED
    BY DEF Init, EffectsDistinct, Destroyed

(* Every 204 stands for the removal of an incarnation that no other 204    *)
(* stands for.                                                             *)
THEOREM EveryUninstallRemoves == Spec => []UninstallsDistinct
  <1>1. DistinctInv => UninstallsDistinct
    <2> SUFFICES ASSUME DistinctInv, NEW w \in Workers, reply[w] = 204
                 PROVE  /\ effect[w] # None
                        /\ \A v \in Workers \ {w} : reply[v] = 204 => effect[v] # effect[w]
      BY DEF UninstallsDistinct
    <2>1. effect[w] \in App
      BY DEF DistinctInv, EffectsDistinct, Destroyed
    <2>2. None \notin App
      BY ConstantsAssumption
    <2> QED
      BY <2>1, <2>2 DEF DistinctInv, EffectsDistinct, Destroyed
  <1> QED
    BY <1>1, DistinctInit, DistinctStep, PTL DEF Spec
-----------------------------------------------------------------------------
(* 201 and 204 keep their word.                                            *)

CreatedInv ==
    /\ SparesInv
    /\ "refuse" \notin faults =>
         \A w \in Workers : reply[w] = 201 => pc[w] = "done" /\ effect[w] # None

LEMMA CreatedStep == CreatedInv /\ [Next]_vars => CreatedInv'
  <1>0. ASSUME [Next]_vars PROVE UNCHANGED faults
    BY <1>0 DEF Next, Arrival, Handler, Environment, vars
  <1> SUFFICES ASSUME CreatedInv, [Next]_vars, "refuse" \notin faults
               PROVE  \A v \in Workers : reply'[v] = 201 => pc'[v] = "done" /\ effect'[v] # None
    BY <1>0, SparesStep DEF CreatedInv
  <1> USE DEF CreatedInv, SparesInv, TypeInv, TypeOK
  <1>1. CASE Environment
    BY <1>1 DEF Environment
  <1>2. CASE UNCHANGED vars
    BY <1>2 DEF vars
  <1>3. ASSUME NEW w \in Workers, Arrival(w) \/ Handler(w)
        PROVE  reply'[w] = 201 => pc'[w] = "done" /\ effect'[w] # None
    <2> USE DEF Reply, Continue, Panic
    <2>1. CASE Arrival(w)
      BY <2>1 DEF Arrival, AcceptInstall, AcceptUninstall, BadRequest, AcceptShutdown
    <2>2. CASE CreateApp(w)
      <3> DEFINE a == [id |-> request[w].id, pkg |-> request[w].pkg, gen |-> gen + 1]
      <3>1. request[w] \in [pkg : Packages, id : AppIds] /\ gen + 1 \in Nat
        BY <2>2 DEF CreateApp, Requested
      <3>2. a \in App
        BY <3>1 DEF App
      <3>3. effect' = [effect EXCEPT ![w] = a] /\ pc'[w] = "done"
        BY <2>2 DEF CreateApp, Does
      <3> HIDE DEF a
      <3>4. effect'[w] # None
        BY <3>2, <3>3, ConstantsAssumption
      <3> QED
        BY <3>3, <3>4
    <2>3. CASE Handler(w) /\ ~CreateApp(w)
      BY <2>3 DEF Handler, DefinitionFails, CreateConflict, CreateRefused, FindInstalled,
         FindNone, FindSeveral, FindUnavailable, DestroyApp, DestroyMissing,
         LookupFramework, Teardown, PostUninstall, CallFails, ShutdownFramework
    <2> QED
      BY <1>3, <2>1, <2>2, <2>3
  <1>4. ASSUME NEW w \in Workers, Arrival(w) \/ Handler(w)
        PROVE  \A v \in Workers : reply'[v] = 201 => pc'[v] = "done" /\ effect'[v] # None
    BY <1>3, <1>4, OthersKeep
  <1> QED
    BY <1>1, <1>2, <1>4 DEF Next

(* As long as Marathon refuses with nothing but 409 or a failed call, 201  *)
(* Created means that an app was created.                                  *)
THEOREM CreatedIsInstalled == Spec => []CreatedMeansInstalled
  <1>1. Init => CreatedInv
    BY SparesInit DEF Init, CreatedInv
  <1>2. CreatedInv => CreatedMeansInstalled
    BY DEF CreatedInv, CreatedMeansInstalled
  <1> QED
    BY <1>1, <1>2, CreatedStep, PTL DEF Spec

\* What an uninstall that nothing disturbed has still to remove shrinks.  Once
\* its framework is dealt with the app has no task, so that nothing of it comes
\* back; and state it has left when it is done is some other deletion's.
Faulty == faults \cap {"error", "zookeeper"} # {}

StateOfOthers(w) ==
    \/ Faulty
    \/ \E v \in Workers : Overlap(w, v)
    \/ \E v \in disturbed : reply[v] = 204 /\ SameName(found[v], found[w])

Cleaning(w) ==
    Destroyed(w) =>
        /\ effect[w].id = found[w].id
        /\ effect[w].pkg = found[w].pkg /\ w \notin disturbed =>
             /\ pc[w] = "teardown" /\ effect[w] \in tasks \cup frameworks
                  => target[w] = effect[w]
             /\ pc[w] = "post" \/ reply[w] = 204 =>
                  /\ effect[w] \notin tasks
                  /\ "mesos" \notin faults => effect[w] \notin frameworks
             /\ reply[w] = 204 => effect[w] \notin znodes \/ StateOfOthers(w)

CleanInv ==
    /\ DistinctInv
    /\ \A f \in frameworks : f.pkg \in FrameworkPkgs
    /\ \A w \in Workers : Cleaning(w)

\* Tasks are started for apps, and only running tasks register or write.
LEMMA CleanCluster ==
    ASSUME CleanInv, [Next]_vars
    PROVE  /\ tasks' \subseteq tasks \cup apps
           /\ frameworks' \subseteq frameworks \cup OfFrameworks(tasks)
           /\ znodes' \subseteq znodes \cup tasks
  <1> USE DEF cluster, OfFrameworks
  <1>1. CASE Environment
    BY <1>1 DEF Environment, Launch, Register, WriteState, Kill, Expire
  <1>2. CASE UNCHANGED vars
    BY <1>2 DEF vars
  <1>3. ASSUME NEW w \in Workers,
               Arrival(w) \/ Answer(w) \/ FindInstalled(w) \/ LookupFramework(w)
        PROVE  UNCHANGED cluster
    BY <1>3, AnswerEffect DEF Arrival, AcceptInstall, AcceptUninstall, BadRequest,
       AcceptShutdown, FindInstalled, LookupFramework
  <1>4. ASSUME NEW w \in Workers, CreateApp(w) \/ PostUninstall(w)
        PROVE  UNCHANGED <<tasks, frameworks>> /\ znodes' \subseteq znodes
    BY <1>4 DEF CreateApp, PostUninstall
  <1>5. ASSUME NEW w \in Workers, DestroyApp(w)
        PROVE  tasks' \subseteq tasks /\ UNCHANGED <<frameworks, znodes>>
    BY <1>5 DEF DestroyApp
  <1>6. ASSUME NEW w \in Workers, Teardown(w) \/ ShutdownFramework(w)
        PROVE  /\ UNCHANGED <<apps, znodes>> /\ tasks' \subseteq tasks
               /\ frameworks' \subseteq frameworks
    BY <1>6 DEF Teardown, ShutdownFramework, RemoveFramework
  <1> QED
    BY <1>1, <1>2, <1>3, <1>4, <1>5, <1>6 DEF Next, Handler, Answer

\* What Observe says of an uninstall that is not disturbed after the step.
LEMMA Undisturbed ==
    ASSUME Observe, NEW w \in Workers, w \notin disturbed'
    PROVE  /\ pc'[w] # "done" \/ reply'[w] = 204 => w \notin disturbed
           /\ pc'[w] = "post" => \A a \in tasks' : ~SameName(a, found[w])
           /\ pc'[w] = "teardown" =>
                \A a \in tasks' : SameName(a, found[w]) => a = target'[w]
  BY DEF Observe

\* Where the state that w left will be dealt with does not change by a step that
\* is not w's.
LEMMA OthersKept ==
    ASSUME CleanInv, Observe, NEW w \in Workers, NEW u \in Workers \ {w},
           reply[w] = 204, StateOfOthers(w), Arrival(u) \/ Handler(u)
    PROVE  effect[w] \notin znodes' \/ StateOfOthers(w)'
           \/ effect[w].pkg # found[w].pkg \/ effect[w].id # found[w].id
  <1> USE DEF CleanInv, DistinctInv, SparesInv, TypeInv
  <1>1. \A v \in Workers \ {u} : pc'[v] = pc[v] /\ found'[v] = found[v] /\ reply'[v] = reply[v]
    BY OthersKeep
  <1>2. faults' = faults
    BY DEF Arrival, Handler
  <1>3. \A v \in Workers : reply[v] = 204 => pc[v] = "done"
    BY DEF EffectsDistinct
  <1>4. pc[u] # "done"
    BY AnswerEffect DEF Arrival, AcceptInstall, AcceptUninstall, BadRequest,
       AcceptShutdown, Handler, Answer, CreateApp, FindInstalled, LookupFramework,
       DestroyApp, Teardown, PostUninstall, ShutdownFramework
  <1>5. CASE Faulty
    BY <1>2, <1>5 DEF StateOfOthers, Faulty
  <1>6. ASSUME NEW v \in disturbed, reply[v] = 204, SameName(found[v], found[w])
        PROVE  StateOfOthers(w)'
    <2>1. v \in Workers /\ v # u
      BY <1>3, <1>4, <1>6 DEF TypeOK
    <2>2. v \in disturbed' /\ reply'[v] = 204
      BY <1>1, <1>6, <2>1 DEF Observe
    <2> QED
      BY <1>1, <1>6, <2>1, <2>2 DEF StateOfOthers, SameName
  <1>7. ASSUME NEW v \in Workers, Overlap(w, v), v # u
        PROVE  StateOfOthers(w)'
    BY <1>1, <1>7 DEF StateOfOthers, Overlap, SameName
  <1>8. CASE Overlap(w, u) /\ ~Faulty
    <2>1. pc[u] = "post" /\ SameName(found[u], found[w])
      BY <1>8 DEF Overlap
    <2>2. PostUninstall(u)
      BY <2>1, AnswerEffect DEF Arrival, AcceptInstall, AcceptUninstall, BadRequest,
         AcceptShutdown, Handler, Answer, CreateApp, FindInstalled, LookupFramework,
         DestroyApp, Teardown, ShutdownFramework
    <2>3. reply'[u] = 204 /\ pc'[u] = "done" /\ UNCHANGED found
      BY <2>2 DEF PostUninstall, Reply, TypeOK
    <2>4. CASE u \in disturbed
      <3>1. u \in disturbed'
        BY <2>3, <2>4 DEF Observe
      <3> QED
        BY <2>1, <2>3, <3>1 DEF StateOfOthers, SameName
    <2>5. ASSUME NEW v \in Workers, Overlap(u, v) PROVE StateOfOthers(w)'
      <3>1. v # u /\ pc[v] = "post" /\ SameName(found[v], found[w])
        BY <2>1, <2>5 DEF Overlap, SameName
      <3>2. v # w
        BY <1>3, <3>1
      <3> QED
        BY <1>1, <1>7, <3>1, <3>2 DEF Overlap
    <2>6. CASE znodes' = {a \in znodes : ~SameName(a, found[u])} \cup {}
      BY <2>1, <2>6 DEF SameName
    <2> QED
      BY <1>8, <2>2, <2>4, <2>5, <2>6 DEF PostUninstall, Faulty
  <1> QED
    BY <1>5, <1>6, <1>7, <1>8 DEF StateOfOthers

\* The same when no request moves.
LEMMA OthersStay ==
    ASSUME CleanInv, NEW w \in Workers, StateOfOthers(w),
           UNCHANGED <<pc, found, reply, faults>>, Observe \/ UNCHANGED disturbed
    PROVE  StateOfOthers(w)'
  <1>1. \A v \in disturbed : v \in Workers /\ (reply[v] = 204 => v \in disturbed')
    BY DEF Observe, CleanInv, DistinctInv, SparesInv, TypeInv, TypeOK
  <1> QED
    BY <1>1 DEF StateOfOthers, Faulty, Overlap

\* A step that is not w's.
LEMMA CleanKept ==
    ASSUME CleanInv, [Next]_vars, NEW w \in Workers,
           pc'[w] = pc[w], found'[w] = found[w], target'[w] = target[w],
           reply'[w] = reply[w], effect'[w] = effect[w], faults' = faults,
           Destroyed(w) /\ w \notin disturbed' => w \notin disturbed,
           reply[w] = 204 /\ StateOfOthers(w) =>
             effect[w] \notin znodes' \/ StateOfOthers(w)'
             \/ effect[w].pkg # found[w].pkg \/ effect[w].id # found[w].id
    PROVE  Cleaning(w)'
  <1> SUFFICES ASSUME Destroyed(w) PROVE Cleaning(w)'
    BY DEF Cleaning, Destroyed
  <1>1. effect[w] \notin apps
    BY DEF CleanInv, DistinctInv, EffectsDistinct
  <1>2. /\ effect[w] \notin tasks => effect[w] \notin tasks'
        /\ effect[w] \notin tasks /\ effect[w] \notin frameworks
             => effect[w] \notin frameworks'
        /\ effect[w] \notin tasks /\ effect[w] \notin znodes
             => effect[w] \notin znodes'
    BY <1>1, CleanCluster DEF OfFrameworks
  <1>3. Cleaning(w)
    BY DEF CleanInv
  <1> QED
    BY <1>2, <1>3 DEF Cleaning, Destroyed

\* A step of w.
LEMMA CleanActor ==
    ASSUME CleanInv, NEW w \in Workers, Arrival(w) \/ Handler(w)
    PROVE  Cleaning(w)'
  <1> USE DEF CleanInv, DistinctInv, SparesInv, TypeInv, TypeOK
  <1>0. Observe /\ UNCHANGED faults
    BY DEF Arrival, Handler
  <1>1. pc[w] # "done" /\ reply[w] # 204
    <2>1. pc[w] # "done"
      BY AnswerEffect DEF Arrival, AcceptInstall, AcceptUninstall, BadRequest,
         AcceptShutdown, Handler, Answer, CreateApp, FindInstalled, LookupFramework,
         DestroyApp, Teardown, PostUninstall, ShutdownFramework
    <2> QED
      BY <2>1 DEF EffectsDistinct
  <1>2. CASE Arrival(w) \/ Answer(w) \/ CreateApp(w) \/ FindInstalled(w)
             \/ ShutdownFramework(w)
    <2>1. ~Destroyed(w)'
      <3> USE DEF Destroyed, Reply, Continue, Panic
      <3>1. CASE Arrival(w)
        BY <1>1, <3>1 DEF Arrival, AcceptInstall, AcceptUninstall, BadRequest,
           AcceptShutdown
      <3>2. CASE Answer(w)
        BY <1>1, <3>2, AnswerEffect
      <3>3. CASE CreateApp(w)
        BY <1>1, <3>3 DEF CreateApp
      <3>4. CASE FindInstalled(w) \/ ShutdownFramework(w)
        BY <1>1, <3>4 DEF FindInstalled, ShutdownFramework
      <3> QED
        BY <1>2, <3>1, <3>2, <3>3, <3>4
    <2> QED
      BY <2>1 DEF Cleaning
  <1>3. CASE DestroyApp(w)
    <2>1. PICK a \in apps : a.id = found[w].id /\ effect' = [effect EXCEPT ![w] = a]
      BY <1>3 DEF DestroyApp, Does
    <2>2. UNCHANGED <<frameworks, found>>
      BY <1>3 DEF DestroyApp
    <2>3. /\ reply'[w] # 204 /\ pc'[w] \in {"lookup", "post", "done"}
          /\ pc'[w] = "post" => found[w].pkg \notin FrameworkPkgs
      BY <1>1, <1>3 DEF DestroyApp, Continue, Reply
    <2>4. effect'[w] = a
      BY <2>1
    <2>5. pc'[w] = "post" /\ a.pkg = found[w].pkg /\ w \notin disturbed'
            => a \notin tasks' /\ a \notin frameworks'
      BY <1>0, <2>1, <2>2, <2>3, Undisturbed DEF SameName
    <2> QED
      BY <2>1, <2>2, <2>3, <2>4, <2>5 DEF Cleaning
  <1>4. CASE LookupFramework(w)
    <2>1. UNCHANGED <<tasks, frameworks, found, effect>> /\ reply'[w] # 204
      BY <1>1, <1>4 DEF LookupFramework, Continue, Reply, cluster
    <2>2. effect[w].id = found[w].id
      BY <1>4 DEF LookupFramework, Cleaning, Destroyed
    <2>3. CASE pc'[w] = "post"
      <3>1. effect[w].pkg = found[w].pkg /\ w \notin disturbed' => effect[w] \notin tasks'
        BY <1>0, <2>2, <2>3, Undisturbed DEF SameName
      <3>2. Named(w) = {} \/ "mesos" \in faults
        BY <1>4, <2>3 DEF LookupFramework, Continue, Reply
      <3>3. effect[w].pkg = found[w].pkg /\ "mesos" \notin faults
              => effect[w] \notin frameworks'
        BY <2>1, <2>2, <3>2 DEF Named, SameName
      <3> QED
        BY <1>0, <2>1, <2>2, <2>3, <3>1, <3>3 DEF Cleaning
    <2>4. CASE pc'[w] = "teardown"
      <3>1. PICK f \in frameworks : Named(w) = {f} /\ target'[w] = f
        BY <1>4, <2>4 DEF LookupFramework, Continue, Reply
      <3>2. effect[w].pkg = found[w].pkg /\ effect[w] \in frameworks
              => target'[w] = effect[w]
        BY <2>2, <3>1 DEF Named, SameName
      <3>3. effect[w].pkg = found[w].pkg /\ effect[w] \in tasks' /\ w \notin disturbed'
              => target'[w] = effect[w]
        BY <1>0, <2>2, <2>4, Undisturbed DEF SameName
      <3> QED
        BY <2>1, <2>2, <2>4, <3>2, <3>3 DEF Cleaning
    <2>5. CASE pc'[w] = "done"
      BY <2>1, <2>5 DEF Cleaning, Destroyed
    <2> QED
      BY <1>4, <2>3, <2>4, <2>5 DEF LookupFramework, Continue, Reply
  <1>5. CASE Teardown(w)
    <2>1. UNCHANGED <<found, effect>> /\ reply'[w] # 204 /\ pc'[w] \in {"post", "done"}
      BY <1>1, <1>5 DEF Teardown, Continue, Reply
    <2>2. CASE pc'[w] = "done"
      BY <2>1, <2>2 DEF Cleaning, Destroyed
    <2>3. CASE pc'[w] = "post"
      <3>1. frameworks' = frameworks \ {target[w]} /\ tasks' = tasks \ {target[w]}
        BY <1>5, <2>3 DEF Teardown, RemoveFramework, Reply
      <3>2. w \notin disturbed' => w \notin disturbed
        BY <1>0, <2>3, Undisturbed
      <3>3. Cleaning(w) /\ pc[w] = "teardown" /\ Destroyed(w)
        BY <1>5 DEF Teardown, Destroyed
      <3> QED
        BY <2>1, <2>3, <3>1, <3>2, <3>3 DEF Cleaning
    <2> QED
      BY <2>1, <2>2, <2>3
  <1>6. CASE PostUninstall(w)
    <2>1. /\ UNCHANGED <<tasks, frameworks, found, effect>>
          /\ pc' = [pc EXCEPT ![w] = "done"] /\ reply'[w] = 204 /\ pc[w] = "post"
      BY <1>6 DEF PostUninstall, Reply
    <2>2. Destroyed(w) /\ Cleaning(w)
      BY <2>1 DEF Destroyed
    <2>3. w \notin disturbed' => w \notin disturbed
      BY <1>0, <2>1, Undisturbed
    <2>4. w \notin disturbed /\ effect[w].pkg = found[w].pkg
            => effect[w] \notin znodes' \/ StateOfOthers(w)'
      <3> SUFFICES ASSUME w \notin disturbed, effect[w].pkg = found[w].pkg
                   PROVE  effect[w] \notin znodes' \/ StateOfOthers(w)'
        OBVIOUS
      <3>1. SameName(effect[w], found[w])
        BY <2>2 DEF SameName, Cleaning
      <3>2. CASE znodes' = {a \in znodes : ~SameName(a, found[w])} \cup {}
        BY <3>1, <3>2
      <3>3. CASE Faulty
        BY <1>0, <3>3 DEF StateOfOthers, Faulty
      <3>4. ASSUME NEW v \in Workers, Overlap(w, v) PROVE StateOfOthers(w)'
        <4>1. Overlap(w, v)'
          BY <2>1, <3>4 DEF Overlap, SameName
        <4> QED
          BY <4>1 DEF StateOfOthers
      <3> QED
        BY <1>6, <3>2, <3>3, <3>4 DEF PostUninstall, Faulty
    <2> QED
      BY <1>0, <2>1, <2>2, <2>3, <2>4 DEF Cleaning
  <1> QED
    BY <1>2, <1>3, <1>4, <1>5, <1>6 DEF Handler, Answer

LEMMA CleanStep == CleanInv /\ [Next]_vars => CleanInv'
  <1> SUFFICES ASSUME CleanInv, [Next]_vars PROVE CleanInv'
    OBVIOUS
  <1>1. DistinctInv'
    BY DistinctStep DEF CleanInv
  <1>2. \A f \in frameworks' : f.pkg \in FrameworkPkgs
    BY CleanCluster DEF CleanInv, OfFrameworks
  <1>3. ASSUME UNCHANGED <<pc, found, target, reply, effect, faults>>,
               Observe \/ UNCHANGED disturbed, NEW w \in Workers
        PROVE  Cleaning(w)'
    <2>1. Destroyed(w) /\ w \notin disturbed' => w \notin disturbed
      BY <1>3, Undisturbed DEF Destroyed
    <2> QED
      BY <1>3, <2>1, OthersStay, CleanKept
  <1>4. ASSUME NEW u \in Workers, Arrival(u) \/ Handler(u), NEW w \in Workers
        PROVE  Cleaning(w)'
    <2>0. Observe /\ UNCHANGED faults
      BY <1>4 DEF Arrival, Handler
    <2>1. CASE w = u
      BY <1>4, <2>1, CleanActor
    <2>2. CASE w # u
      <3>1. /\ pc'[w] = pc[w] /\ found'[w] = found[w] /\ target'[w] = target[w]
            /\ reply'[w] = reply[w] /\ effect'[w] = effect[w]
        BY <1>4, <2>2, OthersKeep DEF CleanInv, DistinctInv, SparesInv, TypeInv
      <3>2. Destroyed(w) /\ w \notin disturbed' => w \notin disturbed
        BY <2>0, <3>1, Undisturbed DEF Destroyed
      <3>3. reply[w] = 204 /\ StateOfOthers(w) =>
              effect[w] \notin znodes' \/ StateOfOthers(w)'
              \/ effect[w].pkg # found[w].pkg \/ effect[w].id # found[w].id
        BY <1>4, <2>0, <2>2, OthersKept
      <3> QED
        BY <2>0, <3>1, <3>2, <3>3, CleanKept
    <2> QED
      BY <2>1, <2>2
  <1>5. \A w \in Workers : Cleaning(w)'
    BY <1>3, <1>4 DEF Next, Environment, vars
  <1> QED
    BY <1>1, <1>2, <1>5 DEF CleanInv

(* An uninstall that no scheduler of its names disturbed keeps what 204    *)
(* says: the framework of the app is gone unless Mesos hid it, and its     *)
(* state unless a call failed or other deletions of the same tree have     *)
(* still to end or were disturbed themselves.                              *)
THEOREM SuccessLeavesNothing == Spec => []SuccessIsClean
  <1>1. Init => CleanInv
    <2> SUFFICES ASSUME Init PROVE CleanInv
      OBVIOUS
    <2>1. \A w \in Workers : Cleaning(w)
      BY DEF Init, Cleaning, Destroyed
    <2> QED
      BY <2>1, DistinctInit DEF Init, CleanInv, OfFrameworks
  <1>2. CleanInv => SuccessIsClean
    BY DEF CleanInv, Cleaning, Destroyed, SuccessIsClean, StateOfOthers, Faulty
  <1> QED
    BY <1>1, <1>2, CleanStep, PTL DEF Spec
=============================================================================
