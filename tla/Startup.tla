------------------------------ MODULE Startup ------------------------------
(***************************************************************************)
(* One mantl-api daemon from its start to the moment it serves             *)
(* (src/main.go, src/discover.go, NewMesos and RequiresAuthentication in   *)
(* src/mesos/mesos.go, NewInstall in src/install/install.go).  start       *)
(* reads the configuration, reaches Consul, takes the credentials from     *)
(* Vault, finds its peers in Consul's catalogue, asks Mesos whether it     *)
(* authenticates, synchronises the package sources and then runs two       *)
(* goroutines, the monitor and the HTTP server.  Nearly every error is     *)
(* log.Fatal; Marathon then starts the task again, with the same           *)
(* environment, and also kills a task that does not answer /health in      *)
(* time, which no mantl-api does before its sources are synchronised.      *)
(*                                                                         *)
(* The repositories outlive the processes.  A repository bears the index   *)
(* of its source and nothing that identifies the source: one that bears a  *)
(* timestamp is left alone, whoever filled it.                             *)
(*                                                                         *)
(* stored, begun, unread, fresh and unanswered are history variables.      *)
(***************************************************************************)
EXTENDS Naturals

CONSTANTS
    Setups,     \* the configurations of this instance
    Sources,    \* the sources of the configuration file
    Default,    \* the mantl-universe repository of GitHub
    Index,      \* Index[s]: the repository that source s fills
    MaxFaults   \* bound on the failures

Peers == {"marathon", "mesos", "zookeeper"}
Secrets == {"mesos-principal", "mesos-secret", "marathon-user", "marathon-password"}

\* file:     the settings below stand in a configuration file
\* explicit: the peers whose address is configured
\* token:    none, a token, or a wrapped one (vault-cubbyhole-token)
\* vault:    the secrets that Vault holds
\* interval: consul-refresh-interval, zero or more
Setup == [file : BOOLEAN, explicit : SUBSET Peers,
          token : {"none", "plain", "wrapped"}, vault : SUBSET Secrets,
          force : BOOLEAN, interval : {0, 1}]

ASSUME SetupsAssumption == Setups \subseteq Setup
ASSUME SourcesAssumption == Default \notin Sources
ASSUME IndexAssumption ==
    Index \in [Sources \cup {Default} -> Nat] /\ Index[Default] = 0
ASSUME BoundAssumption == MaxFaults \in Nat

VARIABLES
    setup,      \* the configuration the task was given
    conf,       \* the one this process goes by
    pc,         \* where start stands
    wrapped,    \* whether the wrapped token has not been used
    loaded,     \* the secrets this process has read from Vault
    used,       \* the secrets of them a client of this process was made with
    address,    \* where this process will look for each peer
    running,    \* the peers that run, and are in Consul's catalogue
    todo,       \* the sources SyncSources has not come to
    writing,    \* the source that is being synchronised, if any
    fresh,      \* whether this process has synchronised a source
    stamped,    \* the indexes with a timestamp in Consul
    stored,     \* the sources whose files their repository holds
    begun,      \* the sources that were ever written to their repository
    unread,     \* the sources that were ever stamped without all their files
    watching,   \* whether Watch has its ticker
    faults,     \* failures so far
    unanswered  \* the peers whose catalogue query failed in this process

repositories == <<stamped, stored, begun, unread>>
outside == <<setup, wrapped, running, repositories, faults>>
process == <<conf, loaded, used, address, todo, writing, fresh, watching, unanswered>>
vars == <<outside, process, pc>>

Address == {"none", "configured", "discovered", "fallback"}
Place == {"config", "consul", "unwrap", "secrets", "marathon", "mesos",
          "zookeeper", "install", "sync", "serve", "down"}

AllSources == Sources \cup {Default}

Defaults == [file |-> FALSE, explicit |-> {}, token |-> "none", vault |-> {},
             force |-> FALSE, interval |-> 1]

TypeOK ==
    /\ setup \in Setup /\ conf \in Setup
    /\ pc \in Place
    /\ wrapped \in BOOLEAN /\ fresh \in BOOLEAN /\ watching \in BOOLEAN
    /\ loaded \in SUBSET Secrets /\ used \in SUBSET Secrets
    /\ address \in [Peers -> Address]
    /\ running \in SUBSET Peers /\ unanswered \in SUBSET Peers
    /\ todo \in SUBSET AllSources /\ writing \in SUBSET AllSources
    /\ stamped \in SUBSET Nat
    /\ stored \in SUBSET AllSources /\ begun \in SUBSET AllSources
    /\ unread \in SUBSET AllSources
    /\ faults \in 0 .. MaxFaults

Init ==
    /\ setup \in Setups /\ conf = Defaults
    /\ pc = "config"
    /\ wrapped = TRUE /\ fresh = FALSE /\ watching = FALSE
    /\ loaded = {} /\ used = {} /\ unanswered = {}
    /\ address = [p \in Peers |-> "none"]
    /\ running \in SUBSET Peers
    /\ todo = {} /\ writing = {}
    /\ stamped = {} /\ stored = {} /\ begun = {} /\ unread = {}
    /\ faults = 0

\* NOT THE CODE: a source without a path is not dropped.
ConfiguredUnchecked(c) == IF c.file THEN Sources \cup {"invalid"} ELSE {Default}

\* The sources a process with configuration c synchronises: the valid ones of
\* the file, else the default.
Configured(c) == IF c.file THEN Sources ELSE {Default}

Fault ==
    /\ faults < MaxFaults
    /\ faults' = faults + 1

-----------------------------------------------------------------------------
\* A configuration file that is not there, or cannot be read, is only warned
\* about.
readConfigFile ==
    /\ pc = "config"
    /\ pc' = "consul"
    /\ \/ conf' = setup /\ UNCHANGED faults
       \/ conf' = Defaults /\ setup.file /\ Fault
    /\ UNCHANGED <<setup, wrapped, running, repositories, loaded, used, address,
                   todo, writing, fresh, watching, unanswered>>

consulClient ==
    /\ pc = "consul"
    /\ pc' = IF conf.token = "wrapped" THEN "unwrap"
             ELSE IF conf.token = "plain" THEN "secrets" ELSE "marathon"
    /\ UNCHANGED <<outside, process>>

\* Vault answers a wrapped token once.
Unwrap ==
    /\ pc = "unwrap"
    /\ wrapped
    /\ wrapped' = FALSE
    /\ pc' = "secrets"
    /\ UNCHANGED <<setup, running, repositories, faults, process>>

UnwrapRefused ==
    /\ pc = "unwrap"
    /\ ~wrapped
    /\ pc' = "down"
    /\ UNCHANGED <<outside, process>>

\* NOT THE CODE: a secret that Vault does not have ends the loop.
ReadSecretsOfAll ==
    /\ pc = "secrets"
    /\ loaded' = IF conf.vault = Secrets THEN Secrets ELSE {}
    /\ pc' = IF conf.vault = {} THEN "down" ELSE "marathon"
    /\ UNCHANGED <<outside, conf, used, address, todo, writing, fresh, watching,
                   unanswered>>

\* Without a single one of the four Vault has no secret at all; Read answers
\* nil, and start panics.
ReadSecrets ==
    /\ pc = "secrets"
    /\ loaded' = conf.vault
    /\ pc' = IF conf.vault = {} THEN "down" ELSE "marathon"
    /\ UNCHANGED <<outside, conf, used, address, todo, writing, fresh, watching,
                   unanswered>>

\* A query that fails counts as one that found no host.
Discover(p) ==
    \/ /\ address' = [address EXCEPT ![p] =
                        IF p \in conf.explicit THEN "configured"
                        ELSE IF p \in running THEN "discovered" ELSE "fallback"]
       /\ UNCHANGED <<unanswered, faults>>
    \/ /\ p \notin conf.explicit
       /\ address' = [address EXCEPT ![p] = "fallback"]
       /\ unanswered' = unanswered \cup {p}
       /\ Fault

NewMarathon == used' = used \cup (loaded \cap {"marathon-user", "marathon-password"})

\* The secret comes from the file mesos-secret-path alone.
NewMesos == used' = used \cup (loaded \cap {"mesos-principal"})

FindMarathon ==
    /\ pc = "marathon"
    /\ Discover("marathon")
    /\ NewMarathon
    /\ pc' = "mesos"
    /\ UNCHANGED <<setup, wrapped, running, repositories, conf, loaded, todo, writing,
                   fresh, watching>>

FindMesos ==
    /\ pc = "mesos"
    /\ Discover("mesos")
    /\ NewMesos
    /\ pc' = "zookeeper"
    /\ UNCHANGED <<setup, wrapped, running, repositories, conf, loaded, todo, writing,
                   fresh, watching>>

FindZookeeper ==
    /\ pc = "zookeeper"
    /\ Discover("zookeeper")
    /\ pc' = "install"
    /\ UNCHANGED <<setup, wrapped, running, repositories, conf, loaded, used, todo,
                   writing, fresh, watching>>

\* Whether Mesos says if frameworks have to authenticate.
RequiresAuthentication == "mesos" \in running /\ address["mesos"] # "fallback"

\* NOT THE CODE: no authentication is assumed when Mesos does not answer.
NewInstallUnasked ==
    /\ pc = "install"
    /\ todo' = Configured(conf)
    /\ pc' = "sync"
    /\ UNCHANGED <<outside, conf, loaded, used, address, writing, fresh, watching,
                   unanswered>>

\* The first time the process talks to any of its peers.
NewInstall ==
    /\ pc = "install"
    /\ IF RequiresAuthentication
       THEN pc' = "sync" /\ todo' = Configured(conf)
       ELSE pc' = "down" /\ UNCHANGED todo
    /\ UNCHANGED <<outside, conf, loaded, used, address, writing, fresh, watching,
                   unanswered>>

-----------------------------------------------------------------------------
\* NOT THE CODE: the timestamps are not looked at.
NeedsSyncAlways(s) == TRUE

NeedsSync(s) == Index[s] \notin stamped \/ conf.force

\* The repository has its timestamp.
SkipSource(s) ==
    /\ pc = "sync" /\ writing = {} /\ s \in todo
    /\ ~NeedsSync(s)
    /\ todo' = todo \ {s}
    /\ UNCHANGED <<outside, conf, loaded, used, address, writing, fresh, watching,
                   unanswered, pc>>

\* NOT THE CODE: the timestamp is set before the walk.
StampFirst(s) ==
    /\ pc = "sync" /\ writing = {} /\ s \in todo
    /\ NeedsSync(s)
    /\ writing' = {s}
    /\ begun' = begun \cup {s}
    /\ stamped' = stamped \cup {Index[s]}
    /\ UNCHANGED <<setup, wrapped, running, stored, unread, faults, conf, loaded, used,
                   address, todo, fresh, watching, unanswered, pc>>

\* SyncSources comes to a source, in any order: they were in a Go map.  An error
\* of sourceLastUpdated has it synchronised too.  Its files replace those of
\* the same names that another source has put under its index.
BeginSource(s) ==
    /\ pc = "sync" /\ writing = {} /\ s \in todo
    /\ (NeedsSync(s) /\ UNCHANGED faults) \/ Fault
    /\ writing' = {s}
    /\ begun' = begun \cup {s}
    /\ stored' = {u \in stored : u = s \/ Index[u] # Index[s]}
    /\ UNCHANGED <<setup, wrapped, running, stamped, unread, conf, loaded, used,
                   address, todo, fresh, watching, unanswered, pc>>

\* The walk is over and the timestamp set, also when what it was to read could
\* not be read.
SyncSource(s) ==
    /\ pc = "sync" /\ s \in writing
    /\ writing' = {} /\ todo' = todo \ {s}
    /\ stamped' = stamped \cup {Index[s]}
    /\ \/ stored' = stored \cup {s} /\ UNCHANGED unread
       \/ unread' = unread \cup {s} /\ UNCHANGED stored
    /\ fresh' = TRUE
    /\ UNCHANGED <<setup, wrapped, running, begun, faults, conf, loaded, used, address,
                   watching, unanswered, pc>>

\* git, a file or a write to Consul fails.
SyncFails ==
    /\ pc = "sync" /\ writing # {}
    /\ Fault
    /\ pc' = "down"
    /\ UNCHANGED <<setup, wrapped, running, repositories, process>>

\* The two go statements.
Go ==
    /\ pc = "sync" /\ todo = {}
    /\ pc' = "serve"
    /\ UNCHANGED <<outside, process>>

\* NewTicker panics when the interval is not positive.
Watch ==
    /\ pc = "serve" /\ ~watching
    /\ IF conf.interval > 0
       THEN watching' = TRUE /\ UNCHANGED pc
       ELSE pc' = "down" /\ UNCHANGED watching
    /\ UNCHANGED <<outside, conf, loaded, used, address, todo, writing, fresh, unanswered>>

-----------------------------------------------------------------------------
\* An error of Consul, Vault, Mesos or ListenAndServe, or a kill.
Crash ==
    /\ pc # "down"
    /\ Fault
    /\ pc' = "down"
    /\ UNCHANGED <<setup, wrapped, running, repositories, process>>

\* The health check runs out before the process serves, be it in the middle of
\* its first source.
HealthKill ==
    /\ pc \notin {"serve", "down"}
    /\ pc' = "down"
    /\ UNCHANGED <<outside, process>>

\* Marathon starts the task again.
Restart ==
    /\ pc = "down"
    /\ pc' = "config"
    /\ conf' = Defaults
    /\ loaded' = {} /\ used' = {} /\ unanswered' = {}
    /\ address' = [p \in Peers |-> "none"]
    /\ todo' = {} /\ writing' = {}
    /\ fresh' = FALSE /\ watching' = FALSE
    /\ UNCHANGED outside

PeerStarts(p) ==
    /\ p \notin running
    /\ running' = running \cup {p}
    /\ UNCHANGED <<setup, wrapped, repositories, faults, process, pc>>

PeerStops(p) ==
    /\ p \in running
    /\ Fault
    /\ running' = running \ {p}
    /\ UNCHANGED <<setup, wrapped, repositories, process, pc>>

-----------------------------------------------------------------------------
initVault == Unwrap \/ UnwrapRefused \/ ReadSecrets
discover == FindMarathon \/ FindMesos \/ FindZookeeper
syncRepo ==
    \/ \E s \in todo : SkipSource(s) \/ BeginSource(s) \/ SyncSource(s)
    \/ SyncFails \/ Go

start ==
    \/ readConfigFile \/ consulClient \/ initVault \/ discover
    \/ NewInstall \/ syncRepo \/ Watch

Next ==
    \/ start \/ Crash \/ HealthKill \/ Restart
    \/ \E p \in Peers : PeerStarts(p) \/ PeerStops(p)

Spec == Init /\ [][Next]_vars

\* Remote calls return, Marathon restarts the task, and a peer that stopped
\* is started again.  Health checks may fail whenever they run.
Fairness ==
    /\ WF_vars(start) /\ WF_vars(Restart)
    /\ \A p \in Peers : WF_vars(PeerStarts(p))

FairSpec == Spec /\ Fairness

-----------------------------------------------------------------------------
Serving == pc = "serve"

(* A process that serves has, for every source it goes by, a repository    *)
(* with a timestamp under its index, whatever was killed or failed on the  *)
(* way, in this process or before.  And the files there are the source's   *)
(* own, unless a walk of it met what it could not read, or another source  *)
(* was once synchronised on the same index: the default one, by a process  *)
(* that could not read the configuration file, is enough.                  *)
ServesSynced ==
    Serving => \A s \in Configured(conf) :
        /\ Index[s] \in stamped
        /\ \/ s \in stored \cup unread
           \/ \E u \in begun \ {s} : Index[u] = Index[s]

(* A process that serves has the Mesos it was told or has found, and never *)
(* lost an answer of the catalogue about it: a failed query, a warning     *)
(* only, may leave a process with the fallback for Marathon or ZooKeeper   *)
(* to the end of its days, but with the fallback for Mesos none gets past  *)
(* NewInstall.                                                             *)
ServesReachable ==
    Serving => /\ address["mesos"] \in {"configured", "discovered"}
               /\ "mesos" \notin unanswered

(* Once Vault has the secrets, a serving process that was given a token    *)
(* has made its clients with every one of them but mesos-secret, whatever  *)
(* it was started and stopped before.                                      *)
ServesWithSecrets ==
    Serving /\ conf.token # "none" => conf.vault \ {"mesos-secret"} \subseteq used

\* A wrapped token serves one start only; without a secret in Vault, or with
\* an interval of zero, every start panics; and a forced synchronisation may
\* outlast the health check every time.
Workable(c) ==
    /\ c.token # "wrapped"
    /\ c.token = "plain" => c.vault # {}
    /\ c.interval > 0 /\ ~c.force

(* With failures and stopped peers coming to an end a daemon with a        *)
(* workable configuration comes to serve and watch for good, or health     *)
(* checks kill it for ever before it has synchronised a single source.     *)
(* Kills that leave the time for one source cannot keep it down: what has  *)
(* its timestamp is not synchronised anew.                                 *)
EventuallyServes ==
    Workable(setup) =>
        <>[](Serving /\ watching) \/ []<><<HealthKill /\ ~fresh>>_vars
=============================================================================
