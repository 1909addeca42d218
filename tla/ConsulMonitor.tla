--------------------------- MODULE ConsulMonitor ---------------------------
(***************************************************************************)
(* The Consul monitor (src/install/consul_monitor.go).  A client asks for  *)
(* a package by putting a key under mantl-install/apps/.  Every mantl-api  *)
(* process runs one goroutine, Watch, that on each tick lists the prefix   *)
(* and, for every pair of that snapshot in key order, installs the package *)
(* and then deletes the KEY.  Nothing ties the deletion to the value that  *)
(* was read, nothing locks the prefix, and several processes may run: a    *)
(* rolling upgrade, or a developer's process pointed at the same cluster.  *)
(*                                                                         *)
(* submitted, handled, superseded, racing, attempts and faults are history *)
(* variables: the program does not keep them.                              *)
(***************************************************************************)
EXTENDS Naturals, FiniteSets

CONSTANTS
    Instances,  \* the mantl-api processes watching one Consul
    Keys,       \* the keys under the prefix, numbered in Consul's listing order
    AppsRoot,   \* the folder key itself, mantl-install/apps/
    MaxPuts,    \* bound on the number of client writes
    MaxFaults   \* bound on the crashes and failed deletions of one process

ASSUME KeysAssumption == Keys \subseteq Nat
ASSUME BoundsAssumption == MaxPuts \in Nat /\ MaxFaults \in Nat

VARIABLES
    queue,        \* the pairs now stored under the prefix
    modifyIndex,  \* Consul's ModifyIndex, new for every write
    kvps,         \* kvps[n]: what is left of the snapshot process n ranges over
    pc,           \* pc[n]: where the goroutine of process n stands
    submitted,    \* every pair ever written
    handled,      \* every pair rejected, or passed to InstallPackage
    superseded,   \* the pairs a client has overwritten or withdrawn
    racing,       \* the pairs written while a process held a pair of their key
    attempts,     \* attempts[n][i]: calls of InstallPackage by n for pair i
    faults        \* faults[n]: crashes and failed deletions of n so far

queueVars == <<queue, modifyIndex, submitted, superseded, racing>>
vars == <<queue, modifyIndex, kvps, pc, submitted, handled, superseded,
          racing, attempts, faults>>

Index == 1 .. MaxPuts

\* valid: NewPackageRequest accepts the value.
Pair == [key : Keys, index : Index, valid : BOOLEAN]

\* "range": the loop of Watch, waiting for a tick when nothing is left;
\* "delete" and "unwind": the deferred function is about to run, in the second
\* case because of a panic; "down": the process is not running.
Place == {"range", "delete", "unwind", "down"}

TypeOK ==
    /\ queue \in SUBSET Pair
    /\ modifyIndex \in 0 .. MaxPuts
    /\ kvps \in [Instances -> SUBSET Pair]
    /\ pc \in [Instances -> Place]
    /\ submitted \in SUBSET Pair
    /\ handled \in SUBSET Pair
    /\ superseded \in SUBSET Pair
    /\ racing \in SUBSET Pair
    /\ attempts \in [Instances -> [Index -> Nat]]
    /\ faults \in [Instances -> 0 .. MaxFaults]

Init ==
    /\ queue = {}
    /\ modifyIndex = 0
    /\ kvps = [n \in Instances |-> {}]
    /\ pc = [n \in Instances |-> "range"]
    /\ submitted = {}
    /\ handled = {}
    /\ superseded = {}
    /\ racing = {}
    /\ attempts = [n \in Instances |-> [i \in Index |-> 0]]
    /\ faults = [n \in Instances |-> 0]

OfKey(pairs, key) == {p \in pairs : p.key = key}

-----------------------------------------------------------------------------
(* The clients of the queue, who write to Consul directly.                 *)

Put(key, valid) ==
    /\ modifyIndex < MaxPuts
    /\ LET p == [key |-> key, index |-> modifyIndex + 1, valid |-> valid]
           held == \E n \in Instances : OfKey(kvps[n], key) # {}
       IN  /\ queue' = (queue \ OfKey(queue, key)) \cup {p}
           /\ submitted' = submitted \cup {p}
           /\ racing' = IF held THEN racing \cup {p} ELSE racing
    /\ modifyIndex' = modifyIndex + 1
    /\ superseded' = superseded \cup OfKey(queue, key)
    /\ UNCHANGED <<kvps, pc, handled, attempts, faults>>

Withdraw(key) ==
    /\ OfKey(queue, key) # {}
    /\ queue' = queue \ OfKey(queue, key)
    /\ superseded' = superseded \cup OfKey(queue, key)
    /\ UNCHANGED <<modifyIndex, kvps, pc, submitted, handled, racing,
                   attempts, faults>>

-----------------------------------------------------------------------------
(* The goroutine of process n.                                             *)

\* p is the pair the range loop has reached.
IsNext(n, p) == p \in kvps[n] /\ \A q \in kvps[n] : p.key <= q.key

\* NOT THE CODE: lists the parent prefix, mantl-install/, and so a key of the
\* package repository as well.
ListParent(n) ==
    /\ pc[n] = "range"
    /\ kvps[n] = {}
    /\ kvps' = [kvps EXCEPT ![n] =
                  queue \cup {[key |-> Cardinality(Keys) + 1, index |-> 0, valid |-> FALSE]}]
    /\ UNCHANGED <<queueVars, pc, handled, attempts, faults>>

\* NOT THE CODE: empties the prefix as soon as it has been read.
ListAndClear(n) ==
    /\ pc[n] = "range"
    /\ kvps[n] = {}
    /\ kvps' = [kvps EXCEPT ![n] = queue]
    /\ queue' = {}
    /\ UNCHANGED <<modifyIndex, submitted, superseded, racing,
                   pc, handled, attempts, faults>>

\* kv.List on a tick.  When it fails the loop continues with the next tick
\* and no state changes, which is a stuttering step.
List(n) ==
    /\ pc[n] = "range"
    /\ kvps[n] = {}
    /\ kvps' = [kvps EXCEPT ![n] = queue]
    /\ UNCHANGED <<queueVars, pc, handled, attempts, faults>>

\* The folder key has an empty application name and is passed over.
Skip(n) ==
    /\ pc[n] = "range"
    /\ \E p \in kvps[n] :
         /\ IsNext(n, p)
         /\ p.key = AppsRoot
         /\ kvps' = [kvps EXCEPT ![n] = @ \ {p}]
    /\ UNCHANGED <<queueVars, pc, handled, attempts, faults>>

\* NOT THE CODE: returns before the deletion is deferred.
RejectKeepingKey(n) ==
    /\ pc[n] = "range"
    /\ \E p \in kvps[n] :
         /\ IsNext(n, p)
         /\ p.key # AppsRoot
         /\ ~p.valid
         /\ handled' = handled \cup {p}
         /\ kvps' = [kvps EXCEPT ![n] = @ \ {p}]
    /\ UNCHANGED <<queueVars, pc, attempts, faults>>

\* NewPackageRequest returns an error, or panics (on the value null); the
\* deferred deletion runs in either case.
Reject(n) ==
    /\ pc[n] = "range"
    /\ \E p \in kvps[n] :
         /\ IsNext(n, p)
         /\ p.key # AppsRoot
         /\ ~p.valid
         /\ handled' = handled \cup {p}
    /\ \E next \in {"delete", "unwind"} : pc' = [pc EXCEPT ![n] = next]
    /\ UNCHANGED <<queueVars, kvps, attempts, faults>>

\* InstallPackage succeeds, returns an error that is only logged, or panics
\* (the unchecked type assertions of packagesIndex in catalog.go).
InstallPackage(n) ==
    /\ pc[n] = "range"
    /\ \E p \in kvps[n] :
         /\ IsNext(n, p)
         /\ p.key # AppsRoot
         /\ p.valid
         /\ handled' = handled \cup {p}
         /\ attempts' = [attempts EXCEPT ![n][p.index] = @ + 1]
    /\ \E next \in {"delete", "unwind"} : pc' = [pc EXCEPT ![n] = next]
    /\ UNCHANGED <<queueVars, kvps, faults>>

\* Leaving the deferred function: on with the loop or, when it ran because of
\* a panic that nothing recovers, the end of the process.
Leave(n, p) ==
    IF pc[n] = "unwind"
    THEN /\ pc' = [pc EXCEPT ![n] = "down"]
         /\ kvps' = [kvps EXCEPT ![n] = {}]
    ELSE /\ pc' = [pc EXCEPT ![n] = "range"]
         /\ kvps' = [kvps EXCEPT ![n] = @ \ {p}]

\* NOT THE CODE: kv.DeleteTree of the whole prefix.
DeleteTree(n) ==
    /\ pc[n] \in {"delete", "unwind"}
    /\ \E p \in kvps[n] : IsNext(n, p) /\ Leave(n, p)
    /\ queue' = {}
    /\ UNCHANGED <<modifyIndex, submitted, handled, superseded, racing,
                   attempts, faults>>

\* NOT THE CODE: the deletion as a last statement that a panic never reaches.
DeleteUndeferred(n) ==
    /\ pc[n] \in {"delete", "unwind"}
    /\ \E p \in kvps[n] :
         /\ IsNext(n, p)
         /\ queue' = IF pc[n] = "unwind" THEN queue
                     ELSE queue \ OfKey(queue, p.key)
         /\ Leave(n, p)
    /\ UNCHANGED <<modifyIndex, submitted, handled, superseded, racing,
                   attempts, faults>>

\* kv.Delete by key: whatever is stored there now goes.
Delete(n) ==
    /\ pc[n] \in {"delete", "unwind"}
    /\ \E p \in kvps[n] :
         /\ IsNext(n, p)
         /\ queue' = queue \ OfKey(queue, p.key)
         /\ Leave(n, p)
    /\ UNCHANGED <<modifyIndex, submitted, handled, superseded, racing,
                   attempts, faults>>

\* kv.Delete fails; the error is logged and the key stays.
DeleteFails(n) ==
    /\ pc[n] \in {"delete", "unwind"}
    /\ faults[n] < MaxFaults
    /\ \E p \in kvps[n] : IsNext(n, p) /\ Leave(n, p)
    /\ faults' = [faults EXCEPT ![n] = @ + 1]
    /\ UNCHANGED <<queueVars, handled, attempts>>

\* The process is killed; no deferred function runs.
Crash(n) ==
    /\ pc[n] # "down"
    /\ faults[n] < MaxFaults
    /\ pc' = [pc EXCEPT ![n] = "down"]
    /\ kvps' = [kvps EXCEPT ![n] = {}]
    /\ faults' = [faults EXCEPT ![n] = @ + 1]
    /\ UNCHANGED <<queueVars, handled, attempts>>

\* Marathon starts the task again; main reaches the go statement of Watch.
Restart(n) ==
    /\ pc[n] = "down"
    /\ pc' = [pc EXCEPT ![n] = "range"]
    /\ UNCHANGED <<queueVars, kvps, handled, attempts, faults>>

-----------------------------------------------------------------------------
Client == \E key \in Keys : Withdraw(key) \/ \E valid \in BOOLEAN : Put(key, valid)

Watch(n) == List(n) \/ Skip(n) \/ Reject(n) \/ InstallPackage(n) \/ Delete(n)

Fault(n) == DeleteFails(n) \/ Crash(n)

Next ==
    \/ Client
    \/ \E n \in Instances : Watch(n) \/ Fault(n) \/ Restart(n)

Spec == Init /\ [][Next]_vars

\* The ticker keeps firing, remote calls return, and Marathon keeps its tasks
\* running.  Nothing is assumed of clients and of faults.
Fairness == \A n \in Instances : WF_vars(Watch(n)) /\ WF_vars(Restart(n))

FairSpec == Spec /\ Fairness

-----------------------------------------------------------------------------
(* A request is lost silently only when it was written while some process  *)
(* still held an earlier pair of its key (the deletion of line 32 names    *)
(* the key alone).  Any other request is in Consul, was acted upon, or was *)
(* overwritten or withdrawn by a client, whatever crashes or panics.       *)
NoSilentLoss == submitted \subseteq queue \cup handled \cup superseded \cup racing

(* One process passes a request to InstallPackage once, and once more for  *)
(* each of its own crashes and failed deletions.  In particular a request  *)
(* that makes InstallPackage panic does not kill the process forever: the  *)
(* deferred deletion of lines 31-36 removes it on the way down.            *)
AttemptsBounded ==
    \A n \in Instances, i \in Index : attempts[n][i] <= 1 + faults[n]

(* The monitor implements the at-least-once queue of RequestQueue: no      *)
(* request leaves Consul but by a client's hand, or after a request of the *)
(* same key was acted upon.                                                *)
Queue == INSTANCE RequestQueue WITH
    Pair <- Pair, queue <- queue, submitted <- submitted, handled <- handled,
    withdrawn <- superseded
QueueSpec == Queue!Spec

(* Every request leaves the queue, rejected, failing and panicking ones    *)
(* too, so no request holds up the others for ever.                        *)
QueueDrains ==
    \A key \in Keys \ {AppsRoot} :
        \A i \in Index :
            (\E p \in queue : p.key = key /\ p.index = i)
                ~> ~(\E p \in queue : p.key = key /\ p.index = i)
=============================================================================
