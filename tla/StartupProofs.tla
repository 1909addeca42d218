--------------------------- MODULE StartupProofs ---------------------------
(* Proofs about Startup: what a serving process has behind it holds by an  *)
(* invariant that follows the order of start, stage by stage.              *)
EXTENDS Startup, TLAPS

AfterVault == pc \in {"marathon", "mesos", "zookeeper", "install", "sync", "serve"}
AfterMarathon == pc \in {"mesos", "zookeeper", "install", "sync", "serve"}
AfterMesos == pc \in {"zookeeper", "install", "sync", "serve"}
AfterInstall == pc \in {"sync", "serve"}

\* Nothing is taken off the list of sources before its index has a timestamp.
SyncInv ==
    /\ AfterInstall => \A s \in Configured(conf) : s \in todo \/ Index[s] \in stamped
    /\ Serving => todo = {}

\* Another source was written to the repository of s.
Shared(s) == \E u \in begun \ {s} : Index[u] = Index[s]

\* A timestamp is the work of some source on its index, and the files of a
\* source whose index has a timestamp are there but for what the walk or another
\* source made of them.
RepoInv ==
    /\ writing \subseteq begun
    /\ \A i \in stamped : \E s \in begun : Index[s] = i
    /\ \A s \in begun : Index[s] \in stamped => s \in stored \cup unread \/ Shared(s)

\* A query that failed leaves the fallback, and the fallback does not pass
\* NewInstall.
PeerInv ==
    /\ AfterMesos => address["mesos"] # "none"
    /\ AfterInstall => address["mesos"] # "fallback"
    /\ "mesos" \in unanswered =>
          pc = "down" \/ (AfterMesos /\ address["mesos"] = "fallback")

SecretInv ==
    conf.token # "none" =>
        /\ AfterVault => loaded = conf.vault
        /\ AfterMarathon => loaded \cap {"marathon-user", "marathon-password"} \subseteq used
        /\ AfterMesos => loaded \cap {"mesos-principal"} \subseteq used

IInv == TypeOK /\ SyncInv /\ RepoInv /\ PeerInv /\ SecretInv

LEMMA DefaultsInSetup == Defaults \in Setup
  BY DEF Defaults, Setup

LEMMA ConfiguredType ==
    ASSUME NEW c PROVE Configured(c) \in SUBSET AllSources
  BY DEF Configured, AllSources

LEMMA FaultType == ASSUME faults \in 0 .. MaxFaults, Fault
                   PROVE faults' \in 0 .. MaxFaults
  BY BoundAssumption DEF Fault

\* Type correctness of each variable is kept by every step.
LEMMA TypeStep == TypeOK /\ [Next]_vars => TypeOK'
<1>. SUFFICES ASSUME TypeOK, [Next]_vars PROVE TypeOK'
  OBVIOUS
<1>. USE DEF TypeOK, outside, process, repositories
<1>1. CASE readConfigFile
  BY <1>1, FaultType, DefaultsInSetup DEF readConfigFile, Place
<1>2. CASE consulClient
  BY <1>2 DEF consulClient, Place
<1>3. CASE initVault
  BY <1>3 DEF initVault, Unwrap, UnwrapRefused, ReadSecrets, Place, Setup
<1>4. CASE discover
  <2>1. ASSUME NEW p \in Peers, Discover(p)
        PROVE /\ address' \in [Peers -> Address] /\ unanswered' \in SUBSET Peers
              /\ faults' \in 0 .. MaxFaults
    BY <2>1, FaultType DEF Discover, Address
  <2>2. /\ address' \in [Peers -> Address] /\ unanswered' \in SUBSET Peers
        /\ faults' \in 0 .. MaxFaults
    BY <1>4, <2>1 DEF discover, FindMarathon, NewMarathon, FindMesos, NewMesos, FindZookeeper, Peers
  <2>. QED
    BY <1>4, <2>2 DEF discover, FindMarathon, NewMarathon, FindMesos, NewMesos, FindZookeeper, Place
<1>5. CASE NewInstall
  BY <1>5, ConfiguredType DEF NewInstall, RequiresAuthentication, Place
<1>6. CASE syncRepo
  <2>1. ASSUME NEW s \in todo, SkipSource(s) \/ BeginSource(s) PROVE TypeOK'
    BY <2>1, FaultType DEF SkipSource, BeginSource
  <2>2. ASSUME NEW s \in todo, SyncSource(s) PROVE TypeOK'
    <3>1. Index[s] \in Nat
      BY IndexAssumption DEF AllSources
    <3>. QED
      BY <2>2, <3>1 DEF SyncSource
  <2>3. CASE SyncFails \/ Go
    BY <2>3, FaultType DEF SyncFails, Go, Place
  <2>. QED
    BY <1>6, <2>1, <2>2, <2>3 DEF syncRepo
<1>7. CASE Watch
  BY <1>7 DEF Watch, Place
<1>8. CASE Crash \/ HealthKill
  BY <1>8, FaultType DEF Crash, HealthKill, Place
<1>9. CASE Restart
  BY <1>9, DefaultsInSetup DEF Restart, Place, Address
<1>10. CASE \E p \in Peers : PeerStarts(p) \/ PeerStops(p)
  BY <1>10, FaultType DEF PeerStarts, PeerStops
<1>11. CASE UNCHANGED vars
  BY <1>11 DEF vars
<1>. QED
  BY <1>1, <1>2, <1>3, <1>4, <1>5, <1>6, <1>7, <1>8, <1>9, <1>10, <1>11
     DEF Next, start

LEMMA SyncStep == TypeOK /\ SyncInv /\ [Next]_vars => SyncInv'
<1>. SUFFICES ASSUME TypeOK, SyncInv, [Next]_vars PROVE SyncInv'
  OBVIOUS
<1>. USE DEF SyncInv, AfterInstall, Serving, outside, process, repositories
<1>1. CASE NewInstall
  BY <1>1 DEF NewInstall, RequiresAuthentication
<1>2. CASE syncRepo
  <2>1. ASSUME NEW s \in todo, SkipSource(s) PROVE SyncInv'
    <3>1. Index[s] \in stamped
      BY <2>1 DEF SkipSource, NeedsSync
    <3>. QED
      BY <2>1, <3>1 DEF SkipSource
  <2>2. ASSUME NEW s \in todo, BeginSource(s) \/ SyncSource(s) PROVE SyncInv'
    BY <2>2 DEF BeginSource, SyncSource
  <2>3. CASE SyncFails \/ Go
    BY <2>3 DEF SyncFails, Go
  <2>. QED
    BY <1>2, <2>1, <2>2, <2>3 DEF syncRepo
<1>3. CASE readConfigFile \/ consulClient \/ Watch \/ Crash \/ HealthKill \/ Restart
  BY <1>3 DEF readConfigFile, consulClient, Watch, Crash, HealthKill, Restart
<1>4. CASE initVault \/ discover
  BY <1>4 DEF initVault, Unwrap, UnwrapRefused, ReadSecrets, discover,
     FindMarathon, NewMarathon, FindMesos, NewMesos, FindZookeeper
<1>5. CASE \E p \in Peers : PeerStarts(p) \/ PeerStops(p)
  BY <1>5 DEF PeerStarts, PeerStops
<1>6. CASE UNCHANGED vars
  BY <1>6 DEF vars
<1>. QED
  BY <1>1, <1>2, <1>3, <1>4, <1>5, <1>6 DEF Next, start

LEMMA RepoStep == TypeOK /\ RepoInv /\ [Next]_vars => RepoInv'
<1>. SUFFICES ASSUME TypeOK, RepoInv, [Next]_vars PROVE RepoInv'
  OBVIOUS
<1>. USE DEF RepoInv, Shared, outside, process, repositories
<1>1. ASSUME UNCHANGED repositories, writing' \subseteq writing PROVE RepoInv'
  BY <1>1
<1>2. ASSUME NEW s \in todo, BeginSource(s) PROVE RepoInv'
  <2>1. /\ writing' = {s} /\ begun' = begun \cup {s} /\ UNCHANGED <<stamped, unread>>
        /\ stored' = {u \in stored : u = s \/ Index[u] # Index[s]}
    BY <1>2 DEF BeginSource
  <2>2. ASSUME NEW u \in begun', Index[u] \in stamped'
        PROVE  u \in stored' \cup unread' \/ Shared(u)'
    <3>1. CASE u # s /\ Index[u] = Index[s]
      BY <2>1, <3>1
    <3>2. CASE u # s /\ Index[u] # Index[s]
      BY <2>1, <2>2, <3>2
    <3>3. CASE u = s /\ s \in begun
      BY <2>1, <2>2, <3>3
    <3>4. CASE u = s /\ s \notin begun
      <4>1. PICK t \in begun : Index[t] = Index[s]
        BY <2>1, <2>2, <3>4
      <4>. QED
        BY <2>1, <3>4, <4>1
    <3>. QED
      BY <3>1, <3>2, <3>3, <3>4
  <2>. QED
    BY <2>1, <2>2
<1>3. ASSUME NEW s \in todo, SyncSource(s) PROVE RepoInv'
  <2>1. /\ s \in begun /\ writing' = {} /\ begun' = begun
        /\ stamped' = stamped \cup {Index[s]}
        /\ stored \subseteq stored' /\ unread \subseteq unread'
        /\ s \in stored' \cup unread'
    BY <1>3 DEF SyncSource
  <2>2. ASSUME NEW u \in begun', Index[u] \in stamped'
        PROVE  u \in stored' \cup unread' \/ Shared(u)'
    <3>1. CASE u # s /\ Index[u] = Index[s]
      BY <2>1, <3>1
    <3>2. CASE u = s
      BY <2>1, <3>2
    <3>3. CASE Index[u] # Index[s]
      BY <2>1, <2>2, <3>3
    <3>. QED
      BY <3>1, <3>2, <3>3
  <2>. QED
    BY <2>1, <2>2
<1>4. CASE syncRepo
  BY <1>1, <1>2, <1>3, <1>4 DEF syncRepo, SkipSource, SyncFails, Go
<1>5. CASE readConfigFile \/ consulClient \/ NewInstall \/ Watch
  BY <1>1, <1>5 DEF readConfigFile, consulClient, NewInstall, Watch
<1>6. CASE initVault \/ discover
  BY <1>1, <1>6 DEF initVault, Unwrap, UnwrapRefused, ReadSecrets, discover,
     FindMarathon, FindMesos, FindZookeeper
<1>7. CASE Crash \/ HealthKill \/ Restart
  BY <1>1, <1>7 DEF Crash, HealthKill, Restart
<1>8. CASE \E p \in Peers : PeerStarts(p) \/ PeerStops(p)
  BY <1>1, <1>8 DEF PeerStarts, PeerStops
<1>9. CASE UNCHANGED vars
  BY <1>1, <1>9 DEF vars
<1>. QED
  BY <1>4, <1>5, <1>6, <1>7, <1>8, <1>9 DEF Next, start

LEMMA PeerStep == TypeOK /\ PeerInv /\ [Next]_vars => PeerInv'
<1>. SUFFICES ASSUME TypeOK, PeerInv, [Next]_vars PROVE PeerInv'
  OBVIOUS
<1>. USE DEF TypeOK, PeerInv, AfterMesos, AfterInstall, outside, process
<1>1. CASE FindMarathon \/ FindZookeeper
  BY <1>1 DEF FindMarathon, NewMarathon, FindZookeeper, Discover, Peers
<1>2. CASE FindMesos
  BY <1>2 DEF FindMesos, NewMesos, Discover, Peers
<1>3. CASE NewInstall \/ syncRepo \/ initVault \/ consulClient \/ readConfigFile \/ Watch
  BY <1>3 DEF NewInstall, RequiresAuthentication, syncRepo, SkipSource,
     BeginSource, SyncSource, SyncFails, Go, initVault, Unwrap,
     UnwrapRefused, ReadSecrets, consulClient, readConfigFile, Watch
<1>4. CASE Crash \/ HealthKill \/ Restart
  BY <1>4 DEF Crash, HealthKill, Restart
<1>5. CASE \E p \in Peers : PeerStarts(p) \/ PeerStops(p)
  BY <1>5 DEF PeerStarts, PeerStops
<1>6. CASE UNCHANGED vars
  BY <1>6 DEF vars
<1>. QED
  BY <1>1, <1>2, <1>3, <1>4, <1>5, <1>6 DEF Next, start, discover

LEMMA SecretStep == TypeOK /\ SecretInv /\ [Next]_vars => SecretInv'
<1>. SUFFICES ASSUME TypeOK, SecretInv, [Next]_vars PROVE SecretInv'
  OBVIOUS
<1>. USE DEF SecretInv, AfterVault, AfterMarathon, AfterMesos, outside, process
<1>1. CASE initVault \/ consulClient \/ readConfigFile
  BY <1>1 DEF initVault, Unwrap, UnwrapRefused, ReadSecrets, consulClient,
     readConfigFile, TypeOK, Setup
<1>2. CASE discover
  BY <1>2 DEF discover, FindMarathon, NewMarathon, FindMesos, NewMesos, FindZookeeper
<1>3. CASE NewInstall \/ syncRepo \/ Watch
  BY <1>3 DEF NewInstall, RequiresAuthentication, syncRepo, SkipSource,
     BeginSource, SyncSource, SyncFails, Go, Watch
<1>4. CASE Crash \/ HealthKill \/ Restart
  BY <1>4 DEF Crash, HealthKill, Restart, Defaults
<1>5. CASE \E p \in Peers : PeerStarts(p) \/ PeerStops(p)
  BY <1>5 DEF PeerStarts, PeerStops
<1>6. CASE UNCHANGED vars
  BY <1>6 DEF vars
<1>. QED
  BY <1>1, <1>2, <1>3, <1>4, <1>5, <1>6 DEF Next, start

LEMMA Invariance == Spec => []IInv
<1>1. Init => IInv
  <2>. SUFFICES ASSUME Init PROVE IInv
    OBVIOUS
  <2>1. TypeOK
    <3>1. address \in [Peers -> Address]
      BY DEF Init, Address
    <3>2. setup \in Setup /\ conf \in Setup /\ faults \in 0 .. MaxFaults
      BY DefaultsInSetup, SetupsAssumption, BoundAssumption DEF Init
    <3>3. pc \in Place
      BY DEF Init, Place
    <3>. QED
      BY <3>1, <3>2, <3>3 DEF Init, TypeOK
  <2>2. SyncInv /\ RepoInv /\ PeerInv /\ SecretInv
    BY DEF Init, SyncInv, RepoInv, PeerInv, SecretInv, AfterVault, AfterMarathon,
       AfterMesos, AfterInstall, Serving
  <2>. QED
    BY <2>1, <2>2 DEF IInv
<1>2. IInv /\ [Next]_vars => IInv'
  BY TypeStep, SyncStep, RepoStep, PeerStep, SecretStep DEF IInv
<1>. QED
  BY <1>1, <1>2, PTL DEF Spec

\* Type correctness of the startup.
THEOREM TypeCorrect == Spec => []TypeOK
  BY Invariance, PTL DEF IInv

\* A process that serves has a timestamp for each of its sources, whatever failed
\* or was killed before, in this process and in the ones before it, and the files
\* of each but for an unreadable walk or another source on its index.
THEOREM ServesSyncedHolds == Spec => []ServesSynced
<1>1. IInv => ServesSynced
  <2>. SUFFICES ASSUME IInv, Serving, NEW s \in Configured(conf)
                PROVE  /\ Index[s] \in stamped
                       /\ s \in stored \cup unread \/ Shared(s)
    BY DEF ServesSynced, Shared
  <2>1. Index[s] \in stamped
    BY DEF IInv, SyncInv, AfterInstall, Serving
  <2>2. PICK u \in begun : Index[u] = Index[s]
    BY <2>1 DEF IInv, RepoInv
  <2>3. CASE u = s
    BY <2>1, <2>2, <2>3 DEF IInv, RepoInv
  <2>4. CASE u # s
    BY <2>1, <2>2, <2>4 DEF Shared
  <2>. QED
    BY <2>1, <2>3, <2>4
<1>. QED
  BY <1>1, Invariance, PTL

\* The fallback address of Mesos never serves.
THEOREM ServesReachableHolds == Spec => []ServesReachable
<1>1. IInv => ServesReachable
  BY DEF IInv, TypeOK, Address, Peers, PeerInv, AfterMesos, AfterInstall, Serving,
     ServesReachable
<1>. QED
  BY <1>1, Invariance, PTL

\* A serving process given a token made its clients with Vault's secrets, but
\* for mesos-secret.
THEOREM ServesWithSecretsHolds == Spec => []ServesWithSecrets
<1>1. IInv => ServesWithSecrets
  BY DEF IInv, TypeOK, Setup, Secrets, SecretInv, AfterVault, AfterMarathon,
     AfterMesos, Serving, ServesWithSecrets
<1>. QED
  BY <1>1, Invariance, PTL
=============================================================================
