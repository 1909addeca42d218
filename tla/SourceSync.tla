---------------------------- MODULE SourceSync -----------------------------
(***************************************************************************)
(* Synchronising the package repositories into Consul (SyncSources in      *)
(* src/install/install.go, src/install/source.go and syncRepo in           *)
(* src/main.go).  A source is a git repository, cloned before it is read,  *)
(* or a directory read in place; every .json file of it is written under   *)
(* mantl-install/repository/<index>/, then the name of the source, then a  *)
(* timestamp.  Daemons synchronise at startup the sources that have no     *)
(* timestamp; `mantl-api sync' and --force-sync synchronise all of them.   *)
(* Nothing excludes two synchronisations at a time, and any error ends the *)
(* process (log.Fatal).                                                    *)
(*                                                                         *)
(* A file's content is the revision of the source it was read at, 0 in     *)
(* Consul for a key that is absent.  always, unread, overlap and start are *)
(* history variables.                                                      *)
(***************************************************************************)
EXTENDS Naturals

CONSTANTS
    Procs,      \* the mantl-api processes, daemons and commands
    Daemons,    \* the processes that Marathon restarts
    Forced,     \* the processes that synchronise with force
    Sources,    \* the configured sources
    GitSources, \* the sources that are cloned
    Index,      \* Index[s]: the index of source s, 0 where none is configured
    Files,      \* the files of the sources, numbered in the order of filepath.Walk
    Trees,      \* Trees[s]: the sets of files source s may have
    Faults,     \* what may go wrong in this instance
    MaxRev,     \* bound on the revisions of a source
    MaxFaults,  \* bound on the failures of one process
    None        \* no source

\* "get":  reading the timestamp fails
\* "walk": the path of a source cannot be read
Fault == {"get", "walk"}

ASSUME SourcesAssumption ==
    /\ Daemons \subseteq Procs /\ Forced \subseteq Procs
    /\ GitSources \subseteq Sources /\ Index \in [Sources -> Nat]
    /\ None \notin Sources
ASSUME BoundsAssumption ==
    /\ Files \subseteq Nat /\ Trees \in [Sources -> SUBSET SUBSET Files] /\ Faults \subseteq Fault
    /\ MaxRev \in Nat \ {0} /\ MaxFaults \in Nat

Indexes == {Index[s] : s \in Sources}

\* Every repository has an index of its own, as in the example of the README.
DistinctIndexes == \A s, t \in Sources : Index[s] = Index[t] => s = t

VARIABLES
    tree,     \* tree[s]: the files source s has now
    rev,      \* rev[s]: its revision
    kv,       \* kv[i][f]: the revision of file f under repository i in Consul
    name,     \* name[i]: the name stored under repository i
    updated,  \* updated[i]: whether repository i has a timestamp
    pc,       \* pc[p]: where process p stands
    todo,     \* todo[p]: the sources SyncSources has not come to
    source,   \* source[p]: the source being synchronised
    listed,   \* listed[p]: the files it had when that began
    left,     \* left[p]: the files the walk has not finished
    data,     \* data[p]: what was read from the file in hand
    faults,   \* faults[p]: failures of p so far
    always,   \* always[s]: the files s has had in all its revisions
    unread,   \* the sources that some walk failed to read in part
    start,    \* start[p]: the revision of the source when p began with it
    overlap   \* overlap[p]: another process was on the same index meanwhile

repositories == <<tree, rev, always>>
upstream == <<repositories, unread>>
consul == <<kv, name, updated>>
history == <<faults, start, overlap>>
vars == <<upstream, consul, pc, todo, source, listed, left, data, history>>

Place == {"range", "walk", "put", "stamp", "done", "down"}
Rev == 0 .. MaxRev

TypeOK ==
    /\ tree \in [Sources -> SUBSET Files] /\ always \in [Sources -> SUBSET Files]
    /\ rev \in [Sources -> Rev] /\ unread \in SUBSET Sources
    /\ kv \in [Indexes -> [Files -> Rev]]
    /\ name \in [Indexes -> Sources \cup {None}]
    /\ updated \in [Indexes -> BOOLEAN]
    /\ pc \in [Procs -> Place]
    /\ todo \in [Procs -> SUBSET Sources]
    /\ source \in [Procs -> Sources \cup {None}]
    /\ listed \in [Procs -> SUBSET Files] /\ left \in [Procs -> SUBSET Files]
    /\ data \in [Procs -> Rev] /\ start \in [Procs -> Rev]
    /\ faults \in [Procs -> 0 .. MaxFaults]
    /\ overlap \in [Procs -> BOOLEAN]

Init ==
    /\ tree \in [Sources -> SUBSET Files] /\ \A s \in Sources : tree[s] \in Trees[s]
    /\ rev = [s \in Sources |-> 1]
    /\ always = tree /\ unread = {}
    /\ kv = [i \in Indexes |-> [f \in Files |-> 0]]
    /\ name = [i \in Indexes |-> None]
    /\ updated = [i \in Indexes |-> FALSE]
    /\ pc = [p \in Procs |-> "range"]
    /\ todo = [p \in Procs |-> Sources]
    /\ source = [p \in Procs |-> None]
    /\ listed = [p \in Procs |-> {}]
    /\ left = [p \in Procs |-> {}]
    /\ data = [p \in Procs |-> 0]
    /\ faults = [p \in Procs |-> 0]
    /\ start = [p \in Procs |-> 0]
    /\ overlap = [p \in Procs |-> FALSE]

GoTo(p, place) == pc' = [pc EXCEPT ![p] = place]

\* p is through with its source, in one way or another.
LeaveSource(p) ==
    /\ source' = [source EXCEPT ![p] = None]
    /\ listed' = [listed EXCEPT ![p] = {}]
    /\ left' = [left EXCEPT ![p] = {}]
    /\ data' = [data EXCEPT ![p] = 0]
    /\ start' = [start EXCEPT ![p] = 0]
    /\ overlap' = [overlap EXCEPT ![p] = FALSE]

\* log.Fatal, or a kill.
Die(p) ==
    /\ GoTo(p, "down")
    /\ LeaveSource(p)
    /\ todo' = [todo EXCEPT ![p] = {}]

-----------------------------------------------------------------------------
\* Somebody commits to a source, or edits its directory.
Commit(s) ==
    /\ rev[s] < MaxRev
    /\ rev' = [rev EXCEPT ![s] = @ + 1]
    /\ \E files \in Trees[s] :
         /\ tree' = [tree EXCEPT ![s] = files]
         /\ always' = [always EXCEPT ![s] = @ \cap files]
    /\ UNCHANGED <<unread, consul, pc, todo, source, listed, left, data, history>>

-----------------------------------------------------------------------------
(* SyncSources.  syncRepo takes the sources from a Go map, in any order.   *)

\* NOT THE CODE: a zero timestamp is no reason to synchronise.
NeedsForce(p, s) == p \in Forced

\* The timestamp of the source is zero, or force is set.
NeedsSync(p, s) == ~updated[Index[s]] \/ p \in Forced

UpToDate(p) ==
    /\ pc[p] = "range"
    /\ \E s \in todo[p] :
         /\ ~NeedsSync(p, s)
         /\ todo' = [todo EXCEPT ![p] = @ \ {s}]
    /\ UNCHANGED <<upstream, consul, pc, source, listed, left, data, history>>

On(i) == {q \in Procs : source[q] # None /\ Index[source[q]] = i}

\* p turns to source s.
TakeSource(p, s) ==
    /\ todo' = [todo EXCEPT ![p] = @ \ {s}]
    /\ source' = [source EXCEPT ![p] = s]
    /\ listed' = [listed EXCEPT ![p] = tree[s]]
    /\ left' = [left EXCEPT ![p] = Files]
    /\ start' = [start EXCEPT ![p] = rev[s]]
    /\ overlap' = [q \in Procs |->
           CASE q = p              -> On(Index[s]) # {}
             [] q \in On(Index[s]) -> TRUE
             [] OTHER              -> overlap[q]]
    /\ GoTo(p, "walk")

\* NOT THE CODE: what the repository holds is deleted before the walk.
StartCleared(p) ==
    /\ pc[p] = "range"
    /\ \E s \in todo[p] :
         /\ NeedsSync(p, s)
         /\ TakeSource(p, s)
         /\ kv' = [kv EXCEPT ![Index[s]] = [f \in Files |-> 0]]
    /\ UNCHANGED <<upstream, name, updated, data, faults>>

\* An error of sourceLastUpdated counts as a source without a timestamp.
StartSync(p) ==
    /\ pc[p] = "range"
    /\ \E s \in todo[p] :
         /\ NeedsSync(p, s) \/ "get" \in Faults
         /\ TakeSource(p, s)
    /\ UNCHANGED <<upstream, consul, data, faults>>

\* SyncSources returns and the process goes on to serve, or the command exits.
Finish(p) ==
    /\ pc[p] = "range" /\ todo[p] = {}
    /\ GoTo(p, "done")
    /\ UNCHANGED <<upstream, consul, todo, source, listed, left, data, history>>

-----------------------------------------------------------------------------
(* sync: the walk, the name, the timestamp.                                *)

\* NOT THE CODE: the files are taken in no particular order.
AnyFile(p, f) == f \in left[p]

InHand(p, f) == f \in left[p] /\ \A g \in left[p] : f <= g

\* Read file f: from the clone, or as it is now.
ReadFile(p) ==
    /\ pc[p] = "walk"
    /\ \E f \in Files :
         /\ InHand(p, f)
         /\ f \in IF source[p] \in GitSources THEN listed[p] ELSE tree[source[p]]
    /\ data' = [data EXCEPT ![p] = IF source[p] \in GitSources
                                   THEN start[p] ELSE rev[source[p]]]
    /\ GoTo(p, "put")
    /\ UNCHANGED <<upstream, consul, todo, source, listed, left, history>>

\* The walk does not meet f: not in the clone, or not in the directory when
\* that was listed.
PassBy(p) ==
    /\ pc[p] = "walk"
    /\ \E f \in Files :
         /\ InHand(p, f)
         /\ \/ f \notin listed[p]
            \/ source[p] \notin GitSources /\ f \notin tree[source[p]]
         /\ left' = [left EXCEPT ![p] = @ \ {f}]
    /\ UNCHANGED <<upstream, consul, pc, todo, source, listed, data, history>>

\* The path of the source, or a directory in it, cannot be read: the callback
\* of the walk ignores the error it is given.
WalkUnreadable(p) ==
    /\ pc[p] = "walk" /\ "walk" \in Faults
    /\ source[p] \notin GitSources
    /\ \E files \in SUBSET left[p] \ {{}} : left' = [left EXCEPT ![p] = @ \ files]
    /\ unread' = unread \cup {source[p]}
    /\ UNCHANGED <<repositories, consul, pc, todo, source, listed, data, history>>

\* NOT THE CODE: a file that Consul has is not written again.
AddIfAbsent(p) ==
    /\ pc[p] = "put"
    /\ \E f \in Files :
         /\ InHand(p, f)
         /\ kv' = [kv EXCEPT ![Index[source[p]]][f] = IF @ = 0 THEN data[p] ELSE @]
         /\ left' = [left EXCEPT ![p] = @ \ {f}]
    /\ GoTo(p, "walk")
    /\ UNCHANGED <<upstream, name, updated, todo, source, listed, data, history>>

addSourceArtifact(p) ==
    /\ pc[p] = "put"
    /\ \E f \in Files :
         /\ InHand(p, f)
         /\ kv' = [kv EXCEPT ![Index[source[p]]][f] = data[p]]
         /\ left' = [left EXCEPT ![p] = @ \ {f}]
    /\ GoTo(p, "walk")
    /\ UNCHANGED <<upstream, name, updated, todo, source, listed, data, history>>

\* NOT THE CODE: the index of the source is stored for its name.
SetNameToIndex(p) ==
    /\ pc[p] = "walk" /\ left[p] = {}
    /\ name' = [name EXCEPT ![Index[source[p]]] = Index[source[p]]]
    /\ GoTo(p, "stamp")
    /\ UNCHANGED <<upstream, kv, updated, todo, source, listed, left, data, history>>

setName(p) ==
    /\ pc[p] = "walk" /\ left[p] = {}
    /\ name' = [name EXCEPT ![Index[source[p]]] = source[p]]
    /\ GoTo(p, "stamp")
    /\ UNCHANGED <<upstream, kv, updated, todo, source, listed, left, data, history>>

setTimestamp(p) ==
    /\ pc[p] = "stamp"
    /\ updated' = [updated EXCEPT ![Index[source[p]]] = TRUE]
    /\ LeaveSource(p)
    /\ GoTo(p, "range")
    /\ UNCHANGED <<upstream, kv, name, todo, faults>>

-----------------------------------------------------------------------------
\* A file of the directory has gone since it was listed; SyncSources returns
\* the error of the walk and syncRepo exits.
ReadFails(p) ==
    /\ pc[p] = "walk"
    /\ source[p] \notin GitSources
    /\ \E f \in listed[p] \ tree[source[p]] : InHand(p, f)
    /\ Die(p)
    /\ UNCHANGED <<upstream, consul, faults>>

\* NOT THE CODE: a failed write of a file is logged, and the walk goes on.
FailUnnoticed(p) ==
    /\ pc[p] = "put"
    /\ faults[p] < MaxFaults
    /\ faults' = [faults EXCEPT ![p] = @ + 1]
    /\ left' = [left EXCEPT ![p] = {f \in @ : ~InHand(p, f)}]
    /\ GoTo(p, "walk")
    /\ UNCHANGED <<upstream, consul, todo, source, listed, data, start, overlap>>

\* git or a write to Consul fails, or the process is killed.
Fail(p) ==
    /\ pc[p] # "down"
    /\ faults[p] < MaxFaults
    /\ faults' = [faults EXCEPT ![p] = @ + 1]
    /\ Die(p)
    /\ UNCHANGED <<upstream, consul>>

Restart(p) ==
    /\ pc[p] = "down"
    /\ GoTo(p, "range")
    /\ todo' = [todo EXCEPT ![p] = Sources]
    /\ UNCHANGED <<upstream, consul, source, listed, left, data, history>>

-----------------------------------------------------------------------------
SyncSources(p) ==
    \/ UpToDate(p) \/ StartSync(p) \/ Finish(p)
    \/ ReadFile(p) \/ PassBy(p) \/ WalkUnreadable(p) \/ ReadFails(p)
    \/ addSourceArtifact(p) \/ setName(p) \/ setTimestamp(p)

Next ==
    \/ \E p \in Procs : SyncSources(p) \/ Fail(p) \/ Restart(p)
    \/ \E s \in Sources : Commit(s)

Spec == Init /\ [][Next]_vars

\* Remote calls, git and the file system answer; Marathon restarts daemons.
Fairness ==
    /\ \A p \in Procs : WF_vars(SyncSources(p))
    /\ \A p \in Daemons : WF_vars(Restart(p))

FairSpec == Spec /\ Fairness

-----------------------------------------------------------------------------
(* A repository with a timestamp, which no unforced synchronisation will   *)
(* touch again, bears the name of its source and holds every file the      *)
(* source has had all along: whatever crashed, overlapped or was edited    *)
(* on the way, the timestamp is never there before the files.  Only a walk *)
(* that could not read the source breaks this.                             *)
TimestampMeansComplete ==
    \A s \in Sources : updated[Index[s]] =>
        /\ name[Index[s]] = s
        /\ s \notin unread => \A f \in always[s] : kv[Index[s]][f] # 0

(* A synchronisation that had its index to itself leaves no lasting file   *)
(* older than the revision it began with, if its source could be read.     *)
AloneIsFresh ==
    \A p \in Procs : pc[p] = "stamp" /\ ~overlap[p] /\ source[p] \notin unread =>
        \A f \in always[source[p]] : kv[Index[source[p]]][f] >= start[p]

(* A file in Consul goes back to an older revision only when two           *)
(* synchronisations of its repository overlap.                             *)
NoRegressionAlone ==
    [][\A i \in Indexes, f \in Files : kv'[i][f] < kv[i][f] =>
          \E p \in Procs :
              pc[p] = "put" /\ Index[source[p]] = i /\ overlap[p]]_vars

(* Every configured source is in Consul for good at last, if commits and   *)
(* failures end and some daemon is kept running.                           *)
EventuallySynced == \A s \in Sources : <>[](updated[Index[s]])

Readers == INSTANCE Repositories WITH
    Before <- {x \in Files \X Files : x[1] < x[2]},
    lasting <- [s \in Sources |-> IF s \in unread THEN {} ELSE always[s]],
    held <- [i \in Indexes |-> {f \in Files : kv[i][f] # 0}],
    stamped <- {i \in Indexes : updated[i]}

(* Readers see the files of a source appear in the order of the walk and   *)
(* stay, whoever else synchronises or crashes: a file is written when the  *)
(* lasting files before it are there, the name with all of them, and the   *)
(* timestamp after the name.                                               *)
RepositoriesSpec == Readers!Spec

(* "sync repositories if they don't exist" (install.go): a repository      *)
(* that will not be synchronised again is there.                           *)
StampedExists ==
    \A s \in Sources : updated[Index[s]] =>
        \A f \in always[s] : kv[Index[s]][f] # 0
=============================================================================
