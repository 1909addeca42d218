----------------------------- MODULE Lifecycle -----------------------------
(***************************************************************************)
(* Installing and uninstalling packages (the POST and DELETE handlers of   *)
(* src/api/api.go over src/install/install.go, src/marathon/marathon.go    *)
(* and src/mesos/mesos.go).  net/http runs every request in a goroutine of *)
(* its own and nothing serialises them; an uninstall is a sequence of      *)
(* remote calls (list the apps, destroy one, look its framework up, tear   *)
(* the framework down, delete its ZooKeeper state), and between two of     *)
(* them other requests, and the package's own scheduler, take steps.       *)
(*                                                                         *)
(* A worker stands for one HTTP request.  An app is one incarnation of a   *)
(* Marathon app: the record of its id, its package and a generation that   *)
(* orders the installations.  The same record names what that incarnation  *)
(* leaves in Mesos (its framework) and in ZooKeeper (its state).  effect   *)
(* is a history variable; disturbed records what a deletion may have met.  *)
(*                                                                         *)
(* Marathon ends the task of a destroyed app when it gets to it: before    *)
(* the next call of the uninstall, or at any time after.                   *)
(***************************************************************************)
EXTENDS Naturals, FiniteSets

CONSTANTS
    Workers,        \* the HTTP requests
    Packages,       \* package names
    FrameworkPkgs,  \* the packages whose app carries a framework name label
    AppIds,         \* Marathon app ids
    Operations,     \* the operations clients use
    Scenarios,      \* the sets of things that go wrong together
    None            \* no app, no application id

Operation == {"install", "uninstall", "shutdown"}

\* "error":     a call fails, or takes effect and its answer is lost; one to
\*              ZooKeeper may fail with part of the deletion done
\* "status":    Marathon answers the listing of apps with a status other than 200
\* "refuse":    Marathon refuses a new app with a status other than 409
\* "zookeeper": ZooKeeper cannot be reached
\* "mesos":     Mesos answers without its frameworks: an error that is JSON, or
\*              a master that no longer leads
Fault == {"error", "status", "refuse", "zookeeper", "mesos"}

App == [id : AppIds, pkg : Packages, gen : Nat]
Request == [pkg : Packages, id : AppIds \cup {None}]

ASSUME ConstantsAssumption ==
    /\ FrameworkPkgs \subseteq Packages
    /\ Operations \subseteq Operation
    /\ Scenarios \subseteq SUBSET Fault
    /\ None \notin App \cup AppIds \cup Request

VARIABLES
    apps,        \* Marathon's apps
    gen,         \* the number of installations so far
    tasks,       \* the apps whose scheduler task is running
    frameworks,  \* the apps with a framework registered in Mesos
    znodes,      \* the apps with ZooKeeper state that their uninstall.json names
    pc,          \* pc[w]: the call worker w makes next
    request,     \* request[w]: the parsed body
    found,       \* found[w]: the app FindInstalled returned
    target,      \* target[w]: the framework to shut down
    reply,       \* reply[w]: the status sent to the client, 0 before that
    effect,      \* effect[w]: what w created, destroyed or shut down
    disturbed,   \* the uninstalls that a scheduler of the same names disturbed
    faults       \* what may go wrong in this behaviour, and never changes

cluster == <<apps, gen, tasks, frameworks, znodes>>
vars == <<cluster, pc, request, found, target, reply, effect, disturbed, faults>>

Place == {"idle", "create", "find", "destroy", "lookup", "teardown", "post",
          "shutdown", "done"}
Status == {0, 201, 202, 204, 400, 404, 409, 500}

TypeOK ==
    /\ apps \in SUBSET App /\ gen \in Nat
    /\ tasks \in SUBSET App
    /\ frameworks \in SUBSET App
    /\ znodes \in SUBSET App
    /\ pc \in [Workers -> Place]
    /\ request \in [Workers -> Request \cup {None}]
    /\ found \in [Workers -> App \cup {None}]
    /\ target \in [Workers -> App \cup {None}]
    /\ reply \in [Workers -> Status]
    /\ effect \in [Workers -> App \cup {None}]
    /\ disturbed \in SUBSET Workers
    /\ faults \in Scenarios

\* Some packages were installed earlier and run.
Installed == {S \in SUBSET [id : AppIds, pkg : Packages, gen : {0}] :
                \A a, b \in S : a.id = b.id => a = b}

OfFrameworks(S) == {a \in S : a.pkg \in FrameworkPkgs}

Init ==
    /\ apps \in Installed
    /\ gen = 0
    /\ tasks = apps
    /\ frameworks = OfFrameworks(apps)
    /\ znodes = apps
    /\ pc = [w \in Workers |-> "idle"]
    /\ request = [w \in Workers |-> None]
    /\ found = [w \in Workers |-> None]
    /\ target = [w \in Workers |-> None]
    /\ reply = [w \in Workers |-> 0]
    /\ effect = [w \in Workers |-> None]
    /\ disturbed = {}
    /\ faults \in Scenarios

\* Framework names and ZooKeeper paths are rendered from the configuration of
\* the package; here they tell packages and ids apart, never incarnations.
SameName(a, b) == a.id = b.id /\ a.pkg = b.pkg

Reply(w, status) ==
    /\ pc' = [pc EXCEPT ![w] = "done"]
    /\ reply' = [reply EXCEPT ![w] = status]

Continue(w, place) ==
    /\ pc' = [pc EXCEPT ![w] = place]
    /\ UNCHANGED reply

\* The handler panics; net/http recovers and closes the connection unanswered.
Panic(w) == Continue(w, "done")

Does(w, app) == effect' = [effect EXCEPT ![w] = app]

\* Of every step: w is disturbed when, between looking the framework up and the
\* end of its deletion, a scheduler runs that bears the names of the app it found,
\* but for the one it is about to shut down, or when its deletion overlaps that of
\* another uninstall of these names that was.
Observe ==
    disturbed' = {w \in Workers :
        \/ w \in disturbed /\ (pc'[w] = "done" => reply'[w] = 204)
        \/ /\ pc'[w] \in {"teardown", "post"}
           /\ \E a \in tasks' : /\ SameName(a, found[w])
                              /\ pc'[w] = "teardown" => a # target'[w]
        \/ /\ pc'[w] = "post"
           /\ \E v \in disturbed : pc[v] = "post" /\ SameName(found[v], found[w])}

-----------------------------------------------------------------------------
(* The client's request reaches its handler.                               *)

AcceptInstall(w) ==
    /\ pc[w] = "idle" /\ "install" \in Operations
    /\ \E pkg \in Packages, id \in AppIds :
         request' = [request EXCEPT ![w] = [pkg |-> pkg, id |-> id]]
    /\ Continue(w, "create")
    /\ UNCHANGED <<cluster, found, target, effect>>

\* NOT THE CODE: the name is not required.
AcceptUnnamed(w) ==
    /\ pc[w] = "idle" /\ "uninstall" \in Operations
    /\ \E pkg \in Packages \cup {None}, id \in AppIds \cup {None} :
         request' = [request EXCEPT ![w] = [pkg |-> pkg, id |-> id]]
    /\ Continue(w, "find")
    /\ UNCHANGED <<cluster, found, target, effect>>

AcceptUninstall(w) ==
    /\ pc[w] = "idle" /\ "uninstall" \in Operations
    /\ \E pkg \in Packages, id \in AppIds \cup {None} :
         request' = [request EXCEPT ![w] = [pkg |-> pkg, id |-> id]]
    /\ Continue(w, "find")
    /\ UNCHANGED <<cluster, found, target, effect>>

\* NewPackageRequest returns an error, or panics (on the body null).
BadRequest(w) ==
    /\ pc[w] = "idle"
    /\ Operations \cap {"install", "uninstall"} # {}
    /\ Reply(w, 400) \/ Panic(w)
    /\ UNCHANGED <<cluster, request, found, target, effect>>

\* The status line is written before the framework is shut down.
AcceptShutdown(w) ==
    /\ pc[w] = "idle" /\ "shutdown" \in Operations
    /\ \E f \in frameworks : target' = [target EXCEPT ![w] = f]
    /\ pc' = [pc EXCEPT ![w] = "shutdown"]
    /\ reply' = [reply EXCEPT ![w] = 202]
    /\ UNCHANGED <<cluster, request, found, effect>>

-----------------------------------------------------------------------------
(* Install.                                                                *)

\* GetPackageDefinition, the templates, ToApp or addMantlLabels return an error,
\* or packagesIndex panics.
DefinitionFails(w) ==
    /\ pc[w] = "create"
    /\ Reply(w, 500) \/ Panic(w)
    /\ UNCHANGED <<cluster, request, found, target, effect>>

CreateApp(w) ==
    /\ pc[w] = "create"
    /\ LET a == [id |-> request[w].id, pkg |-> request[w].pkg, gen |-> gen + 1]
       IN  /\ \A b \in apps : b.id # a.id
           /\ apps' = apps \cup {a}
           /\ Does(w, a)
    /\ gen' = gen + 1
    /\ \/ Reply(w, 201)
       \/ "error" \in faults /\ Reply(w, 500)
    /\ UNCHANGED <<tasks, frameworks, znodes, request, found, target>>

\* NOT THE CODE: the switch without its case for 409.
ConflictUnnoticed(w) ==
    /\ pc[w] = "create"
    /\ \E b \in apps : b.id = request[w].id
    /\ Reply(w, 201)
    /\ UNCHANGED <<cluster, request, found, target, effect>>

\* Marathon answers 409.
CreateConflict(w) ==
    /\ pc[w] = "create"
    /\ \E b \in apps : b.id = request[w].id
    /\ Reply(w, 500)
    /\ UNCHANGED <<cluster, request, found, target, effect>>

\* Every other status is taken for success.
CreateRefused(w) ==
    /\ pc[w] = "create" /\ "refuse" \in faults
    /\ Reply(w, 201)
    /\ UNCHANGED <<cluster, request, found, target, effect>>

-----------------------------------------------------------------------------
(* Uninstall.                                                              *)

\* filterByPackageName and, when the request has an id, filterByID.
Matching(r) == {a \in apps : a.pkg = r.pkg /\ r.id \in {None, a.id}}

FindInstalled(w) ==
    /\ pc[w] = "find"
    /\ \E a \in apps :
         /\ Matching(request[w]) = {a}
         /\ found' = [found EXCEPT ![w] = a]
    /\ Continue(w, "destroy")
    /\ UNCHANGED <<cluster, request, target, effect>>

FindNone(w) ==
    /\ pc[w] = "find"
    /\ Matching(request[w]) = {}
    /\ Reply(w, 404)
    /\ UNCHANGED <<cluster, request, found, target, effect>>

FindSeveral(w) ==
    /\ pc[w] = "find"
    /\ Cardinality(Matching(request[w])) > 1
    /\ Reply(w, 409)
    /\ UNCHANGED <<cluster, request, found, target, effect>>

\* Apps returns neither apps nor an error when the status is not 200.
FindUnavailable(w) ==
    /\ pc[w] = "find" /\ "status" \in faults
    /\ Reply(w, 404)
    /\ UNCHANGED <<cluster, request, found, target, effect>>

\* Marathon is told the id alone: what goes is the app of that id, the one that
\* was found or a later one.
DestroyApp(w) ==
    /\ pc[w] = "destroy"
    /\ \E a \in apps :
         /\ a.id = found[w].id
         /\ apps' = apps \ {a}
         /\ tasks' \in {tasks, tasks \ {a}}
         /\ Does(w, a)
    /\ \/ Continue(w, IF found[w].pkg \in FrameworkPkgs THEN "lookup" ELSE "post")
       \/ "error" \in faults /\ Reply(w, 500)
    /\ UNCHANGED <<gen, frameworks, znodes, request, found, target>>

\* NOT THE CODE: DestroyApp without its test of the status.
MissingIsDestroyed(w) ==
    /\ pc[w] = "destroy"
    /\ \A a \in apps : a.id # found[w].id
    /\ Continue(w, IF found[w].pkg \in FrameworkPkgs THEN "lookup" ELSE "post")
    /\ UNCHANGED <<cluster, request, found, target, effect>>

\* Marathon answers 404.
DestroyMissing(w) ==
    /\ pc[w] = "destroy"
    /\ \A a \in apps : a.id # found[w].id
    /\ Reply(w, 500)
    /\ UNCHANGED <<cluster, request, found, target, effect>>

\* The name comes from the labels of the app that was found.
Named(w) == {f \in frameworks : SameName(f, found[w])}

\* NOT THE CODE: any framework of that name will do.
LookupAny(w) ==
    /\ pc[w] = "lookup"
    /\ \/ /\ Named(w) = {}
          /\ Continue(w, "post")
          /\ UNCHANGED target
       \/ /\ \E f \in Named(w) : target' = [target EXCEPT ![w] = f]
          /\ Continue(w, "teardown")
    /\ UNCHANGED <<cluster, request, found, effect>>

\* state() does not look at the status of the answer.
LookupFramework(w) ==
    /\ pc[w] = "lookup"
    /\ \/ /\ Named(w) = {} \/ "mesos" \in faults
          /\ Continue(w, "post")
          /\ UNCHANGED target
       \/ /\ \E f \in frameworks :
               Named(w) = {f} /\ target' = [target EXCEPT ![w] = f]
          /\ Continue(w, "teardown")
       \/ /\ Cardinality(Named(w)) > 1
          /\ Reply(w, 500)
          /\ UNCHANGED target
    /\ UNCHANGED <<cluster, request, found, effect>>

\* Mesos removes the framework; its scheduler is told so and exits.
RemoveFramework(f) ==
    /\ f \in frameworks
    /\ frameworks' = frameworks \ {f}
    /\ tasks' = tasks \ {f}
    /\ UNCHANGED <<apps, gen, znodes>>

Teardown(w) ==
    /\ pc[w] = "teardown"
    /\ \/ /\ RemoveFramework(target[w])
          /\ Continue(w, "post") \/ ("error" \in faults /\ Reply(w, 500))
       \/ /\ target[w] \notin frameworks
          /\ Reply(w, 500)
          /\ UNCHANGED cluster
    /\ UNCHANGED <<request, found, target, effect>>

\* The deletions of w and v work on the same tree.
Overlap(w, v) == v # w /\ pc[v] = "post" /\ SameName(found[v], found[w])

\* install.zookeeper.Delete lists the tree and deletes it node by node (ZkDelete);
\* a worker is at it as long as it is at "post", and this is its end.  It may end
\* with any part of the state in place after a failed call, when another deletion
\* of the tree took away what it was listing and is not done itself, or when a
\* scheduler wrote meanwhile.  Its error is dropped.
PostUninstall(w) ==
    /\ pc[w] = "post"
    /\ \E left \in SUBSET {a \in znodes : SameName(a, found[w])} :
         /\ \/ left = {}
            \/ faults \cap {"error", "zookeeper"} # {} \/ w \in disturbed
            \/ \E v \in Workers : Overlap(w, v)
         /\ znodes' = {a \in znodes : ~SameName(a, found[w])} \cup left
    /\ Reply(w, 204)
    /\ UNCHANGED <<apps, gen, tasks, frameworks, request, found, target, effect>>

\* NOT THE CODE: an app that could not be destroyed is logged and no more.
CarryOn(w) ==
    /\ pc[w] \in {"find", "destroy", "lookup", "teardown"}
    /\ "error" \in faults
    /\ IF pc[w] = "destroy" THEN Continue(w, "lookup") ELSE Reply(w, 500)
    /\ UNCHANGED <<cluster, request, found, target, effect>>

\* A call before the last fails and changes nothing.
CallFails(w) ==
    /\ pc[w] \in {"find", "destroy", "lookup", "teardown"}
    /\ "error" \in faults
    /\ Reply(w, 500)
    /\ UNCHANGED <<cluster, request, found, target, effect>>

-----------------------------------------------------------------------------
(* DELETE /1/frameworks/:id.  The status has been sent: the one written    *)
(* after an error is ignored.                                              *)
ShutdownFramework(w) ==
    /\ pc[w] = "shutdown"
    /\ \/ RemoveFramework(target[w]) /\ Does(w, target[w])
       \/ /\ target[w] \notin frameworks \/ "error" \in faults
          /\ UNCHANGED <<cluster, effect>>
    /\ Continue(w, "done")
    /\ UNCHANGED <<request, found, target>>

-----------------------------------------------------------------------------
(* Marathon, Mesos and the scheduler of an app.                            *)

Launch(a) ==
    /\ a \in apps \ tasks
    /\ tasks' = tasks \cup {a}
    /\ UNCHANGED <<apps, gen, frameworks, znodes>>

Register(a) ==
    /\ a \in OfFrameworks(tasks) \ frameworks
    /\ frameworks' = frameworks \cup {a}
    /\ UNCHANGED <<apps, gen, tasks, znodes>>

WriteState(a) ==
    /\ a \in tasks \ znodes
    /\ znodes' = znodes \cup {a}
    /\ UNCHANGED <<apps, gen, tasks, frameworks>>

\* Marathon ends the task of an app that is gone.
Kill(a) ==
    /\ a \in tasks \ apps
    /\ tasks' = tasks \ {a}
    /\ UNCHANGED <<apps, gen, frameworks, znodes>>

\* The failover timeout of a framework without a scheduler passes.
Expire(f) ==
    /\ f \in frameworks \ tasks
    /\ frameworks' = frameworks \ {f}
    /\ UNCHANGED <<apps, gen, tasks, znodes>>

Environment ==
    /\ \E a \in apps \cup tasks \cup frameworks :
         Launch(a) \/ Register(a) \/ WriteState(a) \/ Kill(a) \/ Expire(a)
    /\ UNCHANGED <<pc, request, found, target, reply, effect, faults>>
    /\ Observe

-----------------------------------------------------------------------------
Arrival(w) ==
    /\ AcceptInstall(w) \/ AcceptUninstall(w) \/ BadRequest(w) \/ AcceptShutdown(w)
    /\ UNCHANGED faults /\ Observe

Handler(w) ==
    /\ \/ DefinitionFails(w) \/ CreateApp(w) \/ CreateConflict(w) \/ CreateRefused(w)
       \/ FindInstalled(w) \/ FindNone(w) \/ FindSeveral(w) \/ FindUnavailable(w)
       \/ DestroyApp(w) \/ DestroyMissing(w) \/ LookupFramework(w) \/ Teardown(w)
       \/ PostUninstall(w) \/ CallFails(w) \/ ShutdownFramework(w)
    /\ UNCHANGED faults /\ Observe

Next ==
    \/ \E w \in Workers : Arrival(w) \/ Handler(w)
    \/ Environment

Spec == Init /\ [][Next]_vars

\* Remote calls return, Marathon starts and ends tasks, schedulers do their work.
\* Requests need not arrive and a failover timeout need not pass.
Fairness ==
    /\ \A w \in Workers : WF_vars(Handler(w))
    /\ WF_vars(Environment /\ tasks' # tasks)
    /\ WF_vars(Environment /\ znodes' # znodes)

FairSpec == Spec /\ Fairness

-----------------------------------------------------------------------------
(* An uninstall touches nothing but what carries the names of the app it   *)
(* found, and of the apps still installed only one put there after it had  *)
(* looked: the app destroyed has the id that was found, and a framework or *)
(* ZooKeeper state lost by an installed app is that of a later incarnation.*)
SparesOthers ==
    [][/\ \A a \in apps \ apps' : \E w \in Workers :
            pc[w] = "destroy" /\ a.id = found[w].id /\ a.gen >= found[w].gen
       /\ \A a \in apps \cap (frameworks \ frameworks') : \E w \in Workers :
            \/ pc[w] = "shutdown" /\ target[w] = a
            \/ pc[w] = "teardown" /\ SameName(a, found[w]) /\ a.gen > found[w].gen
       /\ \A a \in apps \cap (znodes \ znodes') : \E w \in Workers :
            pc[w] = "post" /\ SameName(a, found[w]) /\ a.gen > found[w].gen
      ]_vars

(* Each client told 204 has removed an incarnation of its own: two         *)
(* uninstalls that race for one app do not both succeed.                   *)
UninstallsDistinct ==
    \A w \in Workers : reply[w] = 204 =>
        /\ effect[w] # None
        /\ \A v \in Workers \ {w} : reply[v] = 204 => effect[v] # effect[w]

(* What a 204 is worth when no scheduler of the names disturbed the        *)
(* uninstall, and the app had not been replaced by one of another package  *)
(* under the same id: the framework of the removed app is gone, as long as *)
(* Mesos tells the truth; and so is its state, as long as no call failed,  *)
(* once every deletion of the same tree has ended, and none of them was    *)
(* disturbed.  While another goes on, a 204 promises nothing about state.  *)
SuccessIsClean ==
    \A w \in Workers \ disturbed :
        reply[w] = 204 /\ effect[w].pkg = found[w].pkg =>
            /\ "mesos" \notin faults => effect[w] \notin frameworks
            /\ \/ effect[w] \notin znodes
               \/ faults \cap {"error", "zookeeper"} # {}
               \/ \E v \in Workers : Overlap(w, v)
               \/ \E v \in disturbed : reply[v] = 204 /\ SameName(found[v], found[w])

(* 201 Created: an app was created, as long as Marathon refuses with       *)
(* nothing but 409 or a failed call.                                       *)
CreatedMeansInstalled ==
    "refuse" \notin faults =>
        \A w \in Workers : reply[w] = 201 => effect[w] # None

(* 404, "Package not found": no app of the package is installed.           *)
NotFoundMeansAbsent ==
    [][\A w \in Workers : reply[w] = 0 /\ reply'[w] = 404
            => Matching(request[w]) = {}]_vars

(* "This will also remove the Zookeeper state": after a successful         *)
(* uninstall that no scheduler disturbed the state of the app is gone for  *)
(* good.                                                                   *)
StateRemoved ==
    \A w \in Workers :
        (reply[w] = 204 /\ w \notin disturbed) ~> [](effect[w] \notin znodes)

(* "After a moment, Cassandra will have been removed from your cluster":   *)
(* after a successful uninstall the framework is gone for good.            *)
FrameworkRemoved ==
    \A w \in Workers :
        (reply[w] = 204) ~> [](effect[w] \notin frameworks)
=============================================================================
