---------------------------- MODULE InstallQueue ----------------------------
(***************************************************************************)
(* The request queue and Marathon together: what the monitor of            *)
(* ConsulMonitor does between taking a request and deleting its key        *)
(* (InstallPackage in src/install/install.go, CreateApp in                 *)
(* src/marathon/marathon.go, doRequest in src/utils/http/http.go).  The    *)
(* POST to Marathon blocks the goroutine, without a time limit, and may be *)
(* on its way when the process that sent it is no more, or has been given  *)
(* an error.  Clients remove the apps through the HTTP API, whose handlers *)
(* run beside the monitor.                                                 *)
(*                                                                         *)
(* answered and gone are history variables.                                *)
(***************************************************************************)
EXTENDS ConsulMonitor

CONSTANTS
    AppId,      \* AppId[key]: the app that a request under key asks for
    Answering,  \* the processes whose calls Marathon answers in the end
    NoCall      \* no call

ASSUME CallAssumption == NoCall \notin Pair /\ Answering \subseteq Instances

VARIABLES
    waiting,   \* waiting[n]: the pair whose POST process n is waiting for
    late,      \* the pairs whose POST has outlived its process, or its call
    apps,      \* the apps Marathon has
    answered,  \* the pairs that were refused, or that Marathon has answered
    gone       \* the apps that were removed when nothing asked for them

callVars == <<waiting, late, apps, answered, gone>>
allVars == <<vars, callVars>>

AppIds == {AppId[key] : key \in Keys}

CallTypeOK ==
    /\ waiting \in [Instances -> Pair \cup {NoCall}]
    /\ late \in SUBSET Pair /\ answered \in SUBSET Pair
    /\ apps \in SUBSET AppIds /\ gone \in SUBSET AppIds

CallInit ==
    /\ Init
    /\ waiting = [n \in Instances |-> NoCall]
    /\ late = {} /\ apps = {} /\ answered = {} /\ gone = {}

\* The pairs that may yet reach Marathon.
Outstanding == queue \cup late \cup UNION {kvps[n] : n \in Instances}

-----------------------------------------------------------------------------
(* The clients.                                                            *)

Ask(key, valid) ==
    /\ Put(key, valid)
    /\ gone' = gone \ {AppId[key]}
    /\ UNCHANGED <<waiting, late, apps, answered>>

TakeBack(key) == Withdraw(key) /\ UNCHANGED callVars

\* An uninstall through the HTTP API.
Remove(app) ==
    /\ app \in apps
    /\ apps' = apps \ {app}
    /\ gone' = IF \E p \in Outstanding : AppId[p.key] = app THEN gone ELSE gone \cup {app}
    /\ UNCHANGED <<vars, waiting, late, answered>>

-----------------------------------------------------------------------------
(* The goroutine of process n.                                             *)

\* NOT THE CODE: a listing that allows stale answers.
TakeStale(n) ==
    /\ pc[n] = "range" /\ kvps[n] = {}
    /\ \E pairs \in SUBSET (submitted \ superseded) : kvps' = [kvps EXCEPT ![n] = pairs]
    /\ UNCHANGED <<queueVars, pc, handled, attempts, faults, callVars>>

\* NOT THE CODE: passes over the pairs that another process has taken.
TakeUnclaimed(n) ==
    /\ pc[n] = "range" /\ kvps[n] = {}
    /\ kvps' = [kvps EXCEPT ![n] = queue \ UNION {kvps[m] : m \in Instances \ {n}}]
    /\ UNCHANGED <<queueVars, pc, handled, attempts, faults, callVars>>

Take(n) == (List(n) \/ Skip(n)) /\ UNCHANGED callVars

\* The value is no request, or InstallPackage finds no definition it can use
\* or panics: Marathon hears nothing.
Refuse(n) ==
    /\ Reject(n) \/ InstallPackage(n)
    /\ answered' = answered \cup {p \in kvps[n] : IsNext(n, p)}
    /\ UNCHANGED <<waiting, late, apps, gone>>

\* NOT THE CODE: the call is left to a goroutine of its own.
SendAsync(n) ==
    /\ InstallPackage(n) /\ pc'[n] = "delete"
    /\ late' = late \cup {p \in kvps[n] : IsNext(n, p)}
    /\ UNCHANGED <<waiting, apps, answered, gone>>

\* The POST of CreateApp leaves.
Send(n) ==
    /\ InstallPackage(n) /\ pc'[n] = "delete"
    /\ \E p \in kvps[n] : IsNext(n, p) /\ waiting' = [waiting EXCEPT ![n] = p]
    /\ UNCHANGED <<late, apps, answered, gone>>

\* NOT THE CODE: the app bears the name of the key.
PostedUnderKey(p) == apps' = apps \/ apps' = apps \cup {p.key}

\* Marathon creates the app of p, or has it already (409), or refuses.
Posted(p) == apps' = apps \/ apps' = apps \cup {AppId[p.key]}

\* doRequest returns: an answer, or an error that says nothing of the app, and
\* after which the POST may yet arrive.
Answer(n) ==
    /\ waiting[n] # NoCall
    /\ \/ Posted(waiting[n]) /\ UNCHANGED late
       \/ late' = late \cup {waiting[n]} /\ UNCHANGED apps
    /\ answered' = answered \cup {waiting[n]}
    /\ waiting' = [waiting EXCEPT ![n] = NoCall]
    /\ UNCHANGED <<vars, gone>>

\* InstallPackage has returned, and the deferred function runs.
Acknowledge(n) ==
    /\ waiting[n] = NoCall
    /\ Delete(n) \/ DeleteFails(n)
    /\ UNCHANGED callVars

\* A process that is killed may leave its call behind.
Kill(n) ==
    /\ Crash(n)
    /\ waiting' = [waiting EXCEPT ![n] = NoCall]
    /\ late' = late \/ (waiting[n] # NoCall /\ late' = late \cup {waiting[n]})
    /\ UNCHANGED <<apps, answered, gone>>

StartAgain(n) == Restart(n) /\ UNCHANGED callVars

\* What was left behind arrives, or is lost.
Arrive(p) ==
    /\ p \in late
    /\ late' = late \ {p}
    /\ Posted(p)
    /\ UNCHANGED <<vars, waiting, answered, gone>>

-----------------------------------------------------------------------------
Step(n) == Take(n) \/ Refuse(n) \/ Send(n) \/ (Acknowledge(n) /\ UNCHANGED faults)

CallNext ==
    \/ \E key \in Keys : TakeBack(key) \/ \E valid \in BOOLEAN : Ask(key, valid)
    \/ \E app \in apps : Remove(app)
    \/ \E n \in Instances :
         Take(n) \/ Refuse(n) \/ Send(n) \/ Answer(n) \/ Acknowledge(n)
         \/ Kill(n) \/ StartAgain(n)
    \/ \E p \in late : Arrive(p)

CallSpec == CallInit /\ [][CallNext]_allVars

\* As in ConsulMonitor, but Marathon need not answer every process: the HTTP
\* client has no timeout, and a connection may be dead without either side
\* knowing.  QueueDrains of ConsulMonitor under this fairness says that a
\* process whose call never ends does not hold up the queue for a process
\* whose calls do: nobody waits for a request that another has taken.
CallFairSpec ==
    /\ CallSpec
    /\ \A n \in Instances : WF_allVars(Step(n)) /\ WF_allVars(StartAgain(n))
    /\ \A n \in Answering : WF_allVars(Answer(n))

-----------------------------------------------------------------------------
(* An app that was removed when neither Consul, nor a snapshot, nor a call *)
(* on its way asked for it any more stays away until somebody asks anew.   *)
(* As long as one of them is left, a removed app may come back.            *)
GoneStaysGone == gone \cap apps = {}

(* The monitor acknowledges a request only after Marathon has answered or  *)
(* InstallPackage has refused it: the at-least-once queue of RequestQueue, *)
(* with handling a request understood as having its outcome.               *)
Outcomes == INSTANCE RequestQueue WITH
    Pair <- Pair, queue <- queue, submitted <- submitted, handled <- answered,
    withdrawn <- superseded
AnsweredFirst == Outcomes!Spec
=============================================================================
