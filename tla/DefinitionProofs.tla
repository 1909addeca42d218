-------------------------- MODULE DefinitionProofs --------------------------
(***************************************************************************)
(* Proofs about Definition: type correctness, and, of any number of        *)
(* repositories, versions and synchronisations, what holds of a definition *)
(* that is read file by file while the repositories are written.           *)
(***************************************************************************)
EXTENDS Definition, WellFoundedInduction, TLAPS

\* A repository that has been read is no higher than one that is still to be.
ReadingInv ==
    /\ pc \in {"list", "exists", "meta", "repos"} => def = [f \in Files |-> Absent]
    /\ left \subseteq repos \X Files
    /\ \A q \in repos, f \in Files : <<q, f>> \notin left =>
         \A y \in left : q <= y[1]
    /\ pc = "done" => left = {}

\* Some repository that has not been read has content for f.
Ahead(f) == \E r \in repos : <<r, f>> \in left /\ HasData(kv[r][release][f])

\* What layering gives now is recorded, and what has been read is recorded or
\* about to be replaced.
CurrentInv ==
    /\ pc = "read" => \A f \in Files : Layered(kv, repos, release, f) \subseteq seen[f]
    /\ pc \in {"read", "done"} /\ ~failed /\ ~blank =>
         \A f \in Files : Ahead(f) \/ def[f] \in seen[f]

\* Nothing is written that the source has not got, a package.json is preceded
\* by the files that sort before it, and empty files do not go unnoticed.
StoreInv ==
    /\ \A r \in Repos, i \in Indexes, f \in Files :
         kv[r][i][f] # Absent => <<r, i, f>> \in tree
    /\ \A r \in Repos, i \in Indexes, f \in Files :
         /\ kv[r][i][PackageJson] # Absent
         /\ f < PackageJson /\ <<r, i, f>> \in tree
         => kv[r][i][f] # Absent
    /\ \A r \in Repos, i \in Indexes, f \in Files : ~blank => kv[r][i][f] # Empty

\* What a synchronisation has behind it is in Consul.
WalkInv ==
    \A s \in Syncs :
        /\ \A x \in walk[s] : x \in tree /\ x[1] = at[s]
        /\ at[s] # None => \A x \in tree \ walk[s] :
             x[1] = at[s] => kv[x[1]][x[2]][x[3]] # Absent

\* What the catalogue knows is in Consul.
CatalogInv ==
    /\ \A v \in Versions : versions[v] # None =>
         \E r \in Repos : kv[r][versions[v]][PackageJson] # Absent
    /\ \A k \in supported : kv[k[1]][k[2]][MantlJson] # Absent
    /\ pc = "repos" => \E r \in Repos : kv[r][release][PackageJson] # Absent

\* File f of repository r has still to be read, or there is content for f.
ToCome(r, f) == <<r, f>> \in left \/ HasData(def[f])

\* The repository that listed the version, and any that marked it as
\* supported, have not been passed over.
CompleteInv ==
    pc \in {"read", "done"} /\ ~failed /\ ~blank =>
        /\ \A k \in supported : k[2] = release => ToCome(k[1], MantlJson)
        /\ \E r \in Repos :
             /\ kv[r][release][PackageJson] # Absent
             /\ \A f \in Files : f < PackageJson /\ <<r, release, f>> \in tree
                                     => ToCome(r, f)

-----------------------------------------------------------------------------
(* Facts about single operators and steps.                                 *)

LEMMA Numbers == Repos \subseteq Nat /\ Indexes \subseteq Nat
  BY NumbersAssumption

LEMMA FindIsListed == \A v : FindPackageVersion(v) \subseteq Listed
  <1>1. CurrentVersion \subseteq Listed
    BY DEF CurrentVersion, MostRecent
  <1>2. MostRecent(SupportedListed) \subseteq Listed /\ MostRecent(Listed) \subseteq Listed
    BY DEF MostRecent, SupportedListed
  <1> QED
    BY <1>1, <1>2 DEF FindPackageVersion

\* What a write does to Consul.
Write(s, r, i, f, c) ==
    /\ InHand(s, <<r, i, f>>)
    /\ walk' = [walk EXCEPT ![s] = @ \ {<<r, i, f>>}]
    /\ kv' = [kv EXCEPT ![r][i][f] = c]
    /\ blank' = (blank \/ c = Empty)

LEMMA Written ==
    ASSUME TypeOK, NEW s \in Syncs, addSourceArtifact(s)
    PROVE  \E r \in Repos, i \in Indexes, f \in Files, c \in Content \ {Absent} :
             Write(s, r, i, f, c)
  <1>1. PICK x \in walk[s] : \E c \in Contents(x) :
             /\ InHand(s, x)
             /\ walk' = [walk EXCEPT ![s] = @ \ {x}]
             /\ kv' = [kv EXCEPT ![x[1]][x[2]][x[3]] = c]
             /\ blank' = (blank \/ c = Empty)
    BY DEF addSourceArtifact
  <1>2. x \in Path
    BY DEF TypeOK
  <1>3. PICK r \in Repos, i \in Indexes, f \in Files : x = <<r, i, f>>
    BY <1>2 DEF Path
  <1>4. Contents(x) \subseteq Content \ {Absent}
    BY <1>3, ContentAssumption DEF Contents, Content
  <1> QED
    BY <1>1, <1>3, <1>4 DEF Write

LEMMA BlankStays == [Next]_vars /\ blank => blank'
  BY DEF Next, vars, sync, GetPackageDefinition, Sync, Begin, setName, Die,
     addSourceArtifact, ListKeys, LookForMantlJson, ReadMeta, MetaPanics, Choose, NotFound,
     getRepositories, NameFails, ReadFile, Return, MergeFails, KeysFail

\* Files are only added or replaced.
LEMMA FilesStay ==
    ASSUME TypeOK, [Next]_vars, NEW r \in Repos, NEW i \in Indexes, NEW f \in Files
    PROVE  /\ kv[r][i][f] # Absent => kv'[r][i][f] # Absent
           /\ HasData(kv[r][i][f]) /\ ~blank' => HasData(kv'[r][i][f])
  <1>1. CASE \E s \in Syncs : addSourceArtifact(s)
    <2>1. PICK s \in Syncs : addSourceArtifact(s)
      BY <1>1
    <2>2. PICK q \in Repos, j \in Indexes, g \in Files, c \in Content \ {Absent} :
             Write(s, q, j, g, c)
      BY <2>1, Written
    <2>3. kv'[r][i][f] = IF r = q /\ i = j /\ f = g THEN c ELSE kv[r][i][f]
      BY <2>2 DEF TypeOK, Write
    <2> QED
      BY <2>2, <2>3 DEF HasData, Write
  <1>2. CASE ~\E s \in Syncs : addSourceArtifact(s)
    <2>1. UNCHANGED <<kv, blank>>
      BY <1>2 DEF Next, vars, sync, GetPackageDefinition, Sync, Begin, setName, Die,
           ListKeys, LookForMantlJson, ReadMeta, MetaPanics, Choose, NotFound,
           getRepositories, NameFails, ReadFile, Return, MergeFails, KeysFail
    <2> QED
      BY <2>1
  <1> QED
    BY <1>1, <1>2

-----------------------------------------------------------------------------
(* Type correctness.                                                       *)

LEMMA LayeredType ==
    ASSUME NEW store \in [Repos -> [Indexes -> [Files -> Content]]],
           NEW rs \in SUBSET Repos, NEW i \in Indexes, NEW f \in Files
    PROVE  Layered(store, rs, i, f) \subseteq Content
  BY DEF Layered, Holding, Content

LEMMA TypeInit == Init => TypeOK
  <1> SUFFICES ASSUME Init PROVE TypeOK
    OBVIOUS
  <1>1. tree \in SUBSET Path
    BY ContentAssumption DEF Init, Path
  <1>2. kv \in [Repos -> [Indexes -> [Files -> Content]]]
    BY ContentAssumption DEF Init, Content
  <1>3. syncs \in 0 .. MaxSyncs
    BY NumbersAssumption DEF Init
  <1>4. blank \in BOOLEAN
    BY DEF Init
  <1>5. def \in [Files -> Content] /\ wanted \in Versions \cup {None}
    BY ContentAssumption DEF Init, Content
  <1> QED
    BY <1>1, <1>2, <1>3, <1>4, <1>5 DEF Init, TypeOK

LEMMA StartTypes ==
    ASSUME TypeOK, NEW rs \in SUBSET Repos, StartReading(rs)
    PROVE  /\ repos' \in SUBSET Repos /\ left' \in SUBSET (Repos \X Files)
           /\ seen' \in [Files -> SUBSET Content] /\ pc' = "read"
           /\ release \in Indexes
  <1>1. release \in Indexes
    BY DEF StartReading, TypeOK
  <1>2. \A f \in Files : Layered(kv, rs, release, f) \subseteq Content
    BY <1>1, LayeredType DEF TypeOK
  <1> QED
    BY <1>1, <1>2 DEF StartReading

LEMMA TypeStep == TypeOK /\ [Next]_vars => TypeOK'
  <1> SUFFICES ASSUME TypeOK, [Next]_vars PROVE TypeOK'
    OBVIOUS
  <1> USE DEF TypeOK, sync, index, chosen, reading
  <1>1. ASSUME NEW s \in Syncs, Begin(s) PROVE TypeOK'
    <2>1. walk' \in [Syncs -> SUBSET Path] /\ at' \in [Syncs -> Repos \cup {None}]
      BY <1>1 DEF Begin
    <2>2. syncs' \in 0 .. MaxSyncs
      BY <1>1, NumbersAssumption DEF Begin
    <2> QED
      BY <1>1, <2>1, <2>2 DEF Begin
  <1>2. ASSUME NEW s \in Syncs, addSourceArtifact(s) PROVE TypeOK'
    <2>1. PICK r \in Repos, i \in Indexes, f \in Files, c \in Content \ {Absent} :
             Write(s, r, i, f, c)
      BY <1>2, Written
    <2>2. /\ kv' \in [Repos -> [Indexes -> [Files -> Content]]]
          /\ walk' \in [Syncs -> SUBSET Path] /\ blank' \in BOOLEAN
      BY <2>1 DEF Write
    <2>3. seen' \in [Files -> SUBSET Content]
      <3>1. CASE pc = "read"
        <4>1. release \in Indexes
          BY <3>1
        <4>2. \A g \in Files : Layered(kv', repos, release, g) \subseteq Content
          BY <2>2, <4>1, LayeredType
        <4> QED
          BY <1>2, <3>1, <4>2 DEF addSourceArtifact
      <3> QED
        BY <1>2, <3>1 DEF addSourceArtifact
    <2>4. /\ UNCHANGED <<tree, named, at, syncs, pc, wanted, keys, supported, versions,
                         version, release, repos, left, def, failed>>
          /\ moved' = TRUE /\ offered' \subseteq offered
      BY <1>2 DEF addSourceArtifact
    <2> QED
      BY <2>2, <2>3, <2>4
  <1>3. ASSUME NEW s \in Syncs, setName(s) PROVE TypeOK'
    BY <1>3 DEF setName
  <1>4. ASSUME NEW s \in Syncs, Die(s) PROVE TypeOK'
    BY <1>4 DEF Die
  <1>5. CASE ListKeys
    BY <1>5 DEF ListKeys
  <1>6. CASE LookForMantlJson
    <2>1. PICK k \in keys : supported' \in {supported, supported \cup {k}}
      BY <1>6 DEF LookForMantlJson
    <2> QED
      BY <1>6, <2>1 DEF LookForMantlJson
  <1>7. CASE ReadMeta
    <2>1. PICK k \in keys :
            /\ \/ versions' = [v \in Versions |->
                     IF v = kv[k[1]][k[2]][PackageJson] THEN k[2] ELSE versions[v]]
               \/ versions' = versions
            /\ keys' = keys \ {k}
      BY <1>7 DEF ReadMeta
    <2>2. k[2] \in Indexes
      BY <2>1 DEF Key
    <2>3. versions' \in [Versions -> Indexes \cup {None}]
      BY <2>1, <2>2
    <2> QED
      BY <1>7, <2>1, <2>3 DEF ReadMeta
  <1>8. CASE MetaPanics
    BY <1>8 DEF MetaPanics
  <1>9. CASE Choose
    <2>1. PICK v \in Listed : version' = v /\ release' = versions[v]
      BY <1>9, FindIsListed DEF Choose
    <2>2. version' \in Versions /\ release' \in Indexes
      BY <2>1 DEF Listed
    <2> QED
      BY <1>9, <2>2 DEF Choose
  <1>10. CASE NotFound \/ KeysFail \/ MergeFails
    BY <1>10 DEF NotFound, KeysFail, MergeFails
  <1>11. CASE getRepositories \/ NameFails
    <2>1. PICK rs \in SUBSET Repos : StartReading(rs)
      BY <1>11 DEF getRepositories, NameFails
    <2>2. /\ UNCHANGED <<tree, kv, sync, wanted, index, chosen, def, blank, moved, offered>>
          /\ failed' \in BOOLEAN
      BY <1>11 DEF getRepositories, NameFails
    <2> QED
      BY <2>1, <2>2, StartTypes
  <1>12. CASE ReadFile
    <2>1. PICK x \in left : /\ left' = left \ {x}
                            /\ \/ def' = [def EXCEPT ![x[2]] =
                                            Override(x[2], kv[x[1]][release][x[2]])]
                               \/ def' = def
      BY <1>12 DEF ReadFile
    <2>2. x[1] \in Repos /\ x[2] \in Files /\ release \in Indexes
      BY <2>1, <1>12 DEF ReadFile
    <2>3. Override(x[2], kv[x[1]][release][x[2]]) \in Content
      BY <2>2 DEF Override
    <2>4. def' \in [Files -> Content] /\ left' \in SUBSET (Repos \X Files)
      BY <2>1, <2>2, <2>3
    <2> QED
      BY <1>12, <2>4 DEF ReadFile
  <1>13. CASE Return
    BY <1>13 DEF Return
  <1>14. CASE UNCHANGED vars
    BY <1>14 DEF vars
  <1> QED
    BY <1>1, <1>2, <1>3, <1>4, <1>5, <1>6, <1>7, <1>8, <1>9, <1>10, <1>11, <1>12,
       <1>13, <1>14 DEF Next, GetPackageDefinition, Sync

(* Every reachable state is well typed.                                    *)
THEOREM TypeCorrect == Spec => []TypeOK
  <1> QED
    BY TypeInit, TypeStep, PTL DEF Spec

-----------------------------------------------------------------------------
(* How a request reads the repositories.                                   *)

\* Steps that neither read nor write a file of a definition.
Early == ListKeys \/ LookForMantlJson \/ ReadMeta \/ Choose
Ends == MetaPanics \/ NotFound \/ KeysFail \/ MergeFails
Starts(rs) == StartReading(rs) /\ UNCHANGED <<tree, kv, sync, wanted, index, chosen,
                                              def, blank, moved, offered>>
Quiet(s) == Begin(s) \/ setName(s) \/ Die(s)

LEMMA NextCases ==
    ASSUME [Next]_vars
    PROVE  \/ Early \/ Ends \/ Return \/ ReadFile \/ UNCHANGED vars
           \/ \E rs \in SUBSET Repos :
                 Starts(rs) /\ (failed' \/ (UNCHANGED failed /\ Present \subseteq rs))
           \/ \E s \in Syncs : Quiet(s) \/ addSourceArtifact(s)
  <1>1. CASE getRepositories
    <2>1. PICK rs \in SUBSET Repos : Present \subseteq rs /\ StartReading(rs)
      BY <1>1 DEF getRepositories
    <2>2. Starts(rs) /\ UNCHANGED failed
      BY <1>1, <2>1 DEF getRepositories, Starts
    <2> QED
      BY <2>1, <2>2
  <1>2. CASE NameFails
    <2>1. PICK rs \in SUBSET Repos : StartReading(rs)
      BY <1>2 DEF NameFails
    <2>2. Starts(rs) /\ failed'
      BY <1>2, <2>1 DEF NameFails, Starts
    <2> QED
      BY <2>2
  <1>3. CASE \E s \in Syncs : Sync(s)
    BY <1>3 DEF Sync, Quiet
  <1>4. CASE Early \/ Ends \/ Return \/ ReadFile \/ UNCHANGED vars
    BY <1>4
  <1> QED
    BY <1>1, <1>2, <1>3, <1>4 DEF Next, GetPackageDefinition, Early, Ends

LEMMA QuietUnchanged ==
    ASSUME NEW s \in Syncs, Quiet(s)
    PROVE  UNCHANGED <<tree, kv, pc, wanted, index, chosen, reading,
                       failed, blank, moved, offered>>
  BY DEF Quiet, Begin, setName, Die

LEMMA EarlyUnchanged ==
    ASSUME Early
    PROVE  /\ UNCHANGED <<tree, kv, sync, wanted, reading, blank>>
           /\ pc \in {"list", "exists", "meta"} /\ pc' \in {"exists", "meta", "repos"}
  BY DEF Early, ListKeys, LookForMantlJson, ReadMeta, Choose

LEMMA EndsUnchanged ==
    ASSUME Ends
    PROVE  /\ UNCHANGED <<tree, kv, sync, wanted, index, chosen, reading,
                          failed, blank, moved, offered>>
           /\ pc' \in {"error", "panic"}
  BY DEF Ends, MetaPanics, NotFound, KeysFail, MergeFails

LEMMA WriteUnchanged ==
    ASSUME NEW s \in Syncs, addSourceArtifact(s)
    PROVE  UNCHANGED <<tree, named, at, syncs, pc, wanted, index, chosen,
                       repos, left, def, failed>>
  BY DEF addSourceArtifact

LEMMA ReadingStep == TypeOK /\ ReadingInv /\ [Next]_vars => ReadingInv'
  <1> SUFFICES ASSUME TypeOK, ReadingInv, [Next]_vars PROVE ReadingInv'
    OBVIOUS
  <1> USE DEF ReadingInv, sync, index, chosen, reading
  <1>1. CASE Early
    BY <1>1, EarlyUnchanged
  <1>2. CASE Ends
    BY <1>2, EndsUnchanged
  <1>3. CASE Return
    BY <1>3 DEF Return
  <1>4. CASE ReadFile
    <2>1. PICK x \in left : NextFile(x) /\ left' = left \ {x}
      BY <1>4 DEF ReadFile
    <2>2. pc' = "read" /\ repos' = repos
      BY <1>4 DEF ReadFile
    <2>3. \A y \in left : x[1] <= y[1]
      <3>1. \A y \in left : y[1] \in Nat
        <4>1. TAKE y \in left
        <4>2. y[1] \in Repos
          BY <4>1 DEF TypeOK
        <4> QED
          BY <4>2, Numbers
      <3> QED
        BY <2>1, <3>1 DEF NextFile, Upto
    <2>4. ASSUME NEW q \in repos, NEW f \in Files, <<q, f>> \notin left', NEW y \in left'
          PROVE  q <= y[1]
      <3>1. CASE <<q, f>> = x
        BY <2>1, <2>3, <3>1
      <3>2. CASE <<q, f>> # x
        BY <2>1, <2>4, <3>2
      <3> QED
        BY <3>1, <3>2
    <2> QED
      BY <2>1, <2>2, <2>4
  <1>5. CASE UNCHANGED vars
    BY <1>5 DEF vars
  <1>6. ASSUME NEW rs \in SUBSET Repos, Starts(rs) PROVE ReadingInv'
    BY <1>6 DEF Starts, StartReading
  <1>7. ASSUME NEW s \in Syncs, Quiet(s) PROVE ReadingInv'
    BY <1>7, QuietUnchanged
  <1>8. ASSUME NEW s \in Syncs, addSourceArtifact(s) PROVE ReadingInv'
    BY <1>8, WriteUnchanged
  <1> QED
    BY <1>1, <1>2, <1>3, <1>4, <1>5, <1>6, <1>7, <1>8, NextCases

-----------------------------------------------------------------------------
(* What is read is current.                                                *)

\* Once a request reads, content that lies ahead stays ahead until it is read.
LEMMA CurrentStep == TypeOK /\ ReadingInv /\ CurrentInv /\ [Next]_vars => CurrentInv'
  <1> SUFFICES ASSUME TypeOK, ReadingInv, CurrentInv, [Next]_vars PROVE CurrentInv'
    OBVIOUS
  <1> USE DEF sync, index, chosen, reading
  <1>1. CASE Early
    BY <1>1, EarlyUnchanged DEF CurrentInv
  <1>2. CASE Ends
    BY <1>2, EndsUnchanged DEF CurrentInv
  <1>3. CASE Return
    BY <1>3 DEF Return, CurrentInv, Ahead
  <1>4. CASE ReadFile
    <2>1. PICK x \in left :
             /\ NextFile(x) /\ left' = left \ {x}
             /\ \/ /\ def' = [def EXCEPT ![x[2]] =
                                  Override(x[2], kv[x[1]][release][x[2]])]
                   /\ UNCHANGED failed
                \/ def' = def /\ failed'
      BY <1>4 DEF ReadFile
    <2>2. pc = "read" /\ pc' = "read" /\ UNCHANGED <<kv, repos, release, seen, blank>>
      BY <1>4 DEF ReadFile
    <2>3. PICK r \in repos, g \in Files : x = <<r, g>>
      BY DEF ReadingInv
    <2>4. ASSUME ~failed', ~blank', NEW f \in Files
          PROVE  Ahead(f)' \/ def'[f] \in seen'[f]
      <3>1. ~failed /\ ~blank /\ def' = [def EXCEPT ![g] = Override(g, kv[r][release][g])]
        BY <2>1, <2>2, <2>3, <2>4
      <3>2. Ahead(f) \/ def[f] \in seen[f]
        BY <2>2, <3>1 DEF CurrentInv
      <3>3. CASE f # g
        <4>1. def'[f] = def[f]
          BY <3>1, <3>3 DEF TypeOK
        <4>2. Ahead(f) => Ahead(f)'
          BY <2>1, <2>2, <2>3, <3>3 DEF Ahead
        <4> QED
          BY <2>2, <3>2, <4>1, <4>2
      <3>4. CASE f = g /\ ~HasData(kv[r][release][g])
        <4>1. def'[f] = def[f]
          BY <3>1, <3>4 DEF TypeOK, Override
        <4>2. Ahead(f) => Ahead(f)'
          BY <2>1, <2>2, <2>3, <3>4 DEF Ahead
        <4> QED
          BY <2>2, <3>2, <4>1, <4>2
      <3>5. CASE f = g /\ HasData(kv[r][release][g]) /\ ~Ahead(f)'
        <4>1. def'[f] = kv[r][release][f]
          BY <3>1, <3>5 DEF TypeOK, Override
        <4>2. \A q \in Holding(kv, repos, release, f) : q <= r
          <5>1. TAKE q \in Holding(kv, repos, release, f)
          <5>2. q \in repos /\ HasData(kv[q][release][f])
            BY <5>1 DEF Holding
          <5>3. CASE q = r
            BY <5>3, NumbersAssumption DEF TypeOK
          <5>4. CASE q # r
            <6>1. <<q, f>> \notin left
              BY <2>1, <2>2, <2>3, <3>5, <5>2, <5>4 DEF Ahead
            <6> QED
              BY <2>3, <5>2, <6>1 DEF ReadingInv
          <5> QED
            BY <5>3, <5>4
        <4>3. r \in Holding(kv, repos, release, f)
          BY <3>5 DEF Holding
        <4>4. kv[r][release][f] \in Layered(kv, repos, release, f)
          BY <4>2, <4>3 DEF Layered
        <4> QED
          BY <2>2, <4>1, <4>4 DEF CurrentInv
      <3> QED
        BY <3>3, <3>4, <3>5
    <2> QED
      BY <2>2, <2>4 DEF CurrentInv
  <1>5. CASE UNCHANGED vars
    BY <1>5 DEF vars, CurrentInv, Ahead
  <1>6. ASSUME NEW rs \in SUBSET Repos, Starts(rs) PROVE CurrentInv'
    <2>1. /\ pc' = "read" /\ repos' = rs /\ left' = rs \X Files
          /\ UNCHANGED <<kv, release, def>>
          /\ \A f \in Files : seen'[f] = Layered(kv, rs, release, f)
          /\ def = [f \in Files |-> Absent]
      BY <1>6 DEF Starts, StartReading, ReadingInv
    <2>2. ASSUME NEW f \in Files, ~Ahead(f)' PROVE def'[f] \in seen'[f]
      <3>1. Holding(kv, rs, release, f) = {}
        BY <2>1, <2>2 DEF Ahead, Holding
      <3> QED
        BY <2>1, <3>1 DEF Layered
    <2> QED
      BY <2>1, <2>2 DEF CurrentInv
  <1>7. ASSUME NEW s \in Syncs, Quiet(s) PROVE CurrentInv'
    BY <1>7, QuietUnchanged DEF CurrentInv, Ahead
  <1>8. ASSUME NEW s \in Syncs, addSourceArtifact(s) PROVE CurrentInv'
    <2>1. UNCHANGED <<pc, release, repos, left, def, failed>>
      BY <1>8, WriteUnchanged
    <2>2. pc = "read" => seen' = [f \in Files |-> seen[f] \cup Layered(kv', repos, release, f)]
      BY <1>8 DEF addSourceArtifact
    <2>3. pc # "read" => seen' = seen
      BY <1>8 DEF addSourceArtifact
    <2>4. ASSUME pc \in {"read", "done"}, ~failed, ~blank', NEW f \in Files
          PROVE  Ahead(f)' \/ def'[f] \in seen'[f]
      <3>1. release \in Indexes /\ ~blank
        BY <2>4, BlankStays DEF TypeOK
      <3>2. Ahead(f) => Ahead(f)'
        BY <2>1, <2>4, <3>1, FilesStay DEF Ahead, TypeOK
      <3>3. Ahead(f) \/ def[f] \in seen[f]
        BY <2>4, <3>1 DEF CurrentInv
      <3>4. seen[f] \subseteq seen'[f]
        BY <2>2, <2>3
      <3> QED
        BY <2>1, <3>2, <3>3, <3>4
    <2> QED
      BY <2>1, <2>2, <2>4 DEF CurrentInv
  <1> QED
    BY <1>1, <1>2, <1>3, <1>4, <1>5, <1>6, <1>7, <1>8, NextCases

(* A definition read without a failed Get consists of files that were      *)
(* current at some moment of the reading: FilesWereCurrent, for any number *)
(* of repositories and synchronisations.                                   *)
THEOREM DefinitionIsCurrent == Spec => []FilesWereCurrent
  <1>1. Init => ReadingInv /\ CurrentInv
    BY DEF Init, ReadingInv, CurrentInv
  <1>2. ReadingInv /\ CurrentInv => FilesWereCurrent
    <2> SUFFICES ASSUME ReadingInv, CurrentInv, pc = "done", ~failed, ~blank, NEW f \in Files
                 PROVE  def[f] \in seen[f]
      BY DEF FilesWereCurrent
    <2> QED
      BY DEF CurrentInv, ReadingInv, Ahead
  <1> QED
    BY <1>1, <1>2, ReadingStep, CurrentStep, TypeCorrect, PTL DEF Spec

-----------------------------------------------------------------------------
(* What is in Consul while synchronisations write.                         *)

LEMMA RankType == \A n \in Nat : Rank(n) \in Nat
  BY DEF Rank

LEMMA OnlyWritesChangeFiles ==
    ASSUME [Next]_vars, ~\E s \in Syncs : addSourceArtifact(s)
    PROVE  UNCHANGED <<tree, kv, blank>>
  BY DEF Next, vars, sync, GetPackageDefinition, Sync, Begin, setName, Die,
     ListKeys, LookForMantlJson, ReadMeta, MetaPanics, Choose, NotFound,
     getRepositories, NameFails, ReadFile, Return, MergeFails, KeysFail

\* The synchronisations' own state changes by their steps only.
LEMMA OnlySyncsChangeWalks ==
    ASSUME [Next]_vars, ~\E s \in Syncs : Sync(s)
    PROVE  UNCHANGED <<tree, kv, at, walk>>
  BY DEF Next, vars, sync, GetPackageDefinition,
     ListKeys, LookForMantlJson, ReadMeta, MetaPanics, Choose, NotFound,
     getRepositories, NameFails, ReadFile, Return, MergeFails, KeysFail

LEMMA StoreStep == TypeOK /\ StoreInv /\ WalkInv /\ [Next]_vars => StoreInv'
  <1> SUFFICES ASSUME TypeOK, StoreInv, WalkInv, [Next]_vars PROVE StoreInv'
    OBVIOUS
  <1>1. CASE ~\E s \in Syncs : addSourceArtifact(s)
    BY <1>1, OnlyWritesChangeFiles DEF StoreInv
  <1>2. ASSUME NEW s \in Syncs, addSourceArtifact(s) PROVE StoreInv'
    <2>1. PICK q \in Repos, j \in Indexes, g \in Files, c \in Content \ {Absent} :
             Write(s, q, j, g, c)
      BY <1>2, Written
    <2>2. tree' = tree
      BY <1>2, WriteUnchanged
    <2>3. \A r \in Repos, i \in Indexes, f \in Files :
             kv'[r][i][f] = IF r = q /\ i = j /\ f = g THEN c ELSE kv[r][i][f]
      BY <2>1 DEF TypeOK, Write
    <2>4. <<q, j, g>> \in walk[s] /\ <<q, j, g>> \in tree /\ q = at[s]
      BY <2>1 DEF Write, InHand, WalkInv
    <2>5. ASSUME NEW r \in Repos, NEW i \in Indexes, NEW f \in Files,
                 kv'[r][i][f] # Absent
          PROVE  <<r, i, f>> \in tree'
      BY <2>2, <2>3, <2>4, <2>5 DEF StoreInv
    <2>6. ASSUME NEW r \in Repos, NEW i \in Indexes, NEW f \in Files,
                 kv'[r][i][PackageJson] # Absent,
                 f < PackageJson, <<r, i, f>> \in tree'
          PROVE  kv'[r][i][f] # Absent
      <3>1. CASE kv[r][i][PackageJson] # Absent
        BY <2>2, <2>6, <3>1, FilesStay DEF StoreInv
      <3>2. CASE kv[r][i][PackageJson] = Absent
        <4>1. r = q /\ i = j /\ g = PackageJson
          BY <2>3, <2>6, <3>2, FilesAssumption
        <4>2. <<r, i, f>> \notin walk[s]
          <5> SUFFICES ASSUME <<r, i, f>> \in walk[s] PROVE FALSE
            OBVIOUS
          <5>1. Upto(<<Rank(i), PackageJson>>, <<Rank(i), f>>)
            BY <2>1, <4>1 DEF Write, InHand
          <5>2. Rank(i) \in Nat /\ f \in Nat
            BY RankType, Numbers, FilesAssumption
          <5> QED
            BY <2>6, <5>1, <5>2 DEF Upto, PackageJson
        <4>3. at[s] # None
          BY <2>4, ContentAssumption
        <4>4. kv[r][i][f] # Absent
          BY <2>2, <2>4, <2>6, <4>1, <4>2, <4>3 DEF WalkInv
        <4> QED
          BY <4>4, FilesStay
      <3> QED
        BY <3>1, <3>2
    <2>7. ASSUME NEW r \in Repos, NEW i \in Indexes, NEW f \in Files, ~blank'
          PROVE  kv'[r][i][f] # Empty
      <3>1. ~blank /\ c # Empty
        BY <2>1, <2>7 DEF Write
      <3>2. kv[r][i][f] # Empty
        BY <3>1 DEF StoreInv
      <3> QED
        BY <2>3, <3>1, <3>2
    <2> QED
      BY <2>5, <2>6, <2>7 DEF StoreInv
  <1> QED
    BY <1>1, <1>2

LEMMA WalkStep == TypeOK /\ WalkInv /\ [Next]_vars => WalkInv'
  <1> SUFFICES ASSUME TypeOK, WalkInv, [Next]_vars PROVE WalkInv'
    OBVIOUS
  <1>1. CASE ~\E s \in Syncs : Sync(s)
    BY <1>1, OnlySyncsChangeWalks DEF WalkInv
  <1>2. ASSUME NEW s \in Syncs, Begin(s) PROVE WalkInv'
    BY <1>2 DEF Begin, WalkInv, TypeOK
  <1>3. ASSUME NEW s \in Syncs, addSourceArtifact(s) PROVE WalkInv'
    <2>1. PICK q \in Repos, j \in Indexes, g \in Files, c \in Content \ {Absent} :
             Write(s, q, j, g, c)
      BY <1>3, Written
    <2>2. tree' = tree /\ at' = at
      BY <1>3, WriteUnchanged
    <2>3. kv'[q][j][g] # Absent
      BY <2>1 DEF Write, TypeOK
    <2>4. ASSUME NEW t \in Syncs PROVE walk'[t] \subseteq walk[t]
      BY <2>1 DEF Write, TypeOK
    <2>5. ASSUME NEW t \in Syncs, at'[t] # None, NEW x \in tree' \ walk'[t], x[1] = at'[t]
          PROVE  kv'[x[1]][x[2]][x[3]] # Absent
      <3>1. CASE x \notin walk[t]
        <4>1. kv[x[1]][x[2]][x[3]] # Absent
          BY <2>2, <2>5, <3>1 DEF WalkInv
        <4>2. x[1] \in Repos /\ x[2] \in Indexes /\ x[3] \in Files
          BY <2>2, <2>5 DEF TypeOK, Path
        <4> QED
          BY <4>1, <4>2, FilesStay
      <3>2. CASE x \in walk[t]
        <4>1. x = <<q, j, g>>
          BY <2>1, <2>5, <3>2 DEF Write, TypeOK
        <4> QED
          BY <2>3, <4>1
      <3> QED
        BY <3>1, <3>2
    <2> QED
      BY <2>2, <2>4, <2>5 DEF WalkInv
  <1>4. ASSUME NEW s \in Syncs, setName(s) PROVE WalkInv'
    BY <1>4 DEF setName, WalkInv, TypeOK
  <1>5. ASSUME NEW s \in Syncs, Die(s) PROVE WalkInv'
    BY <1>5 DEF Die, WalkInv, TypeOK
  <1> QED
    BY <1>1, <1>2, <1>3, <1>4, <1>5 DEF Sync

-----------------------------------------------------------------------------
(* What the catalogue knows, and what a definition does not miss.          *)

LEMMA CatalogStep == TypeOK /\ CatalogInv /\ [Next]_vars => CatalogInv'
  <1> SUFFICES ASSUME TypeOK, CatalogInv, [Next]_vars PROVE CatalogInv'
    OBVIOUS
  <1> USE DEF sync, index, chosen, reading
  \* A step that leaves the catalogue alone leaves what it knows in Consul.
  <1>0. ASSUME UNCHANGED index, pc' = "repos" => pc = "repos" /\ release' = release
        PROVE  CatalogInv'
    <2>1. PackageJson \in Files /\ MantlJson \in Files
      BY FilesAssumption
    <2>2. ASSUME NEW v \in Versions, versions'[v] # None
          PROVE  \E r \in Repos : kv'[r][versions'[v]][PackageJson] # Absent
      <3>1. versions[v] \in Indexes /\ versions'[v] = versions[v]
        BY <1>0, <2>2 DEF TypeOK
      <3>2. PICK r \in Repos : kv[r][versions[v]][PackageJson] # Absent
        BY <2>2, <3>1 DEF CatalogInv
      <3> QED
        BY <2>1, <3>1, <3>2, FilesStay
    <2>3. ASSUME NEW k \in supported' PROVE kv'[k[1]][k[2]][MantlJson] # Absent
      <3>1. k \in supported /\ k[1] \in Repos /\ k[2] \in Indexes
        BY <1>0, <2>3 DEF TypeOK, Key
      <3> QED
        BY <2>1, <3>1, FilesStay DEF CatalogInv
    <2>4. ASSUME pc' = "repos"
          PROVE  \E r \in Repos : kv'[r][release'][PackageJson] # Absent
      <3>1. pc = "repos" /\ release' = release /\ release \in Indexes
        BY <1>0, <2>4 DEF TypeOK
      <3> QED
        BY <2>1, <3>1, FilesStay DEF CatalogInv
    <2> QED
      BY <2>2, <2>3, <2>4 DEF CatalogInv
  <1>1. CASE ListKeys
    BY <1>1 DEF ListKeys, CatalogInv
  <1>2. CASE LookForMantlJson
    BY <1>2 DEF LookForMantlJson, CatalogInv
  <1>3. CASE ReadMeta
    <2>1. PICK k \in keys :
            \/ versions' = [v \in Versions |->
                     IF v = kv[k[1]][k[2]][PackageJson] THEN k[2] ELSE versions[v]]
            \/ versions' = versions
      BY <1>3 DEF ReadMeta
    <2>2. k[1] \in Repos /\ k[2] \in Indexes
      BY DEF TypeOK, Key
    <2>3. pc' = "exists" /\ UNCHANGED <<kv, supported>>
      BY <1>3 DEF ReadMeta
    <2>4. ASSUME NEW v \in Versions, versions'[v] # None
          PROVE  \E r \in Repos : kv[r][versions'[v]][PackageJson] # Absent
      <3>1. CASE versions'[v] = versions[v]
        BY <2>4, <3>1 DEF CatalogInv
      <3>2. CASE versions'[v] # versions[v]
        <4>1. versions'[v] = k[2] /\ kv[k[1]][k[2]][PackageJson] = v
          BY <2>1, <3>2
        <4>2. v # Absent
          BY ContentAssumption
        <4> QED
          BY <2>2, <4>1, <4>2
      <3> QED
        BY <3>1, <3>2
    <2> QED
      BY <2>3, <2>4 DEF CatalogInv
  <1>4. CASE Choose
    <2>1. PICK v \in Listed : release' = versions[v]
      BY <1>4, FindIsListed DEF Choose
    <2>2. UNCHANGED <<kv, versions, supported>>
      BY <1>4 DEF Choose
    <2> QED
      BY <2>1, <2>2 DEF CatalogInv, Listed
  <1>5. CASE Ends
    BY <1>0, <1>5, EndsUnchanged
  <1>6. CASE Return \/ ReadFile
    BY <1>0, <1>6 DEF Return, ReadFile
  <1>7. CASE UNCHANGED vars
    BY <1>0, <1>7 DEF vars
  <1>8. ASSUME NEW rs \in SUBSET Repos, Starts(rs) PROVE CatalogInv'
    BY <1>0, <1>8 DEF Starts, StartReading
  <1>9. ASSUME NEW s \in Syncs, Quiet(s) PROVE CatalogInv'
    BY <1>0, <1>9, QuietUnchanged
  <1>10. ASSUME NEW s \in Syncs, addSourceArtifact(s) PROVE CatalogInv'
    BY <1>0, <1>10, WriteUnchanged
  <1> QED
    BY <1>1, <1>2, <1>3, <1>4, <1>5, <1>6, <1>7, <1>8, <1>9, <1>10, NextCases DEF Early

\* What is to come still is after a file has been read, if it is in Consul.
LEMMA ReadKeeps ==
    ASSUME TypeOK, ReadingInv, ReadFile, ~failed',
           NEW r \in Repos, NEW f \in Files,
           HasData(kv[r][release][f]), ToCome(r, f)
    PROVE  ToCome(r, f)'
  <1>1. PICK x \in left :
             /\ left' = left \ {x}
             /\ def' = [def EXCEPT ![x[2]] = Override(x[2], kv[x[1]][release][x[2]])]
    BY DEF ReadFile
  <1>2. PICK q \in repos, g \in Files : x = <<q, g>>
    BY DEF ReadingInv
  <1>3. def'[f] = IF f = g THEN Override(g, kv[q][release][g]) ELSE def[f]
    BY <1>1, <1>2 DEF TypeOK
  <1>4. CASE HasData(def[f])
    BY <1>3, <1>4 DEF ToCome, Override
  <1>5. CASE <<r, f>> \in left /\ <<r, f>> # x
    BY <1>1, <1>5 DEF ToCome
  <1>6. CASE <<r, f>> = x
    BY <1>2, <1>3, <1>6 DEF ToCome, Override
  <1> QED
    BY <1>4, <1>5, <1>6 DEF ToCome

LEMMA CompleteStep ==
    TypeOK /\ ReadingInv /\ StoreInv /\ CatalogInv /\ CompleteInv /\ [Next]_vars
        => CompleteInv'
  <1> SUFFICES ASSUME TypeOK, ReadingInv, StoreInv, CatalogInv, CompleteInv, [Next]_vars
               PROVE  CompleteInv'
    OBVIOUS
  <1> USE DEF sync, index, chosen, reading
  <1> DEFINE Full(r) == /\ kv[r][release][PackageJson] # Absent
                        /\ \A f \in Files : f < PackageJson /\ <<r, release, f>> \in tree
                                                => ToCome(r, f)
  <1>1. PackageJson \in Files /\ MantlJson \in Files
    BY FilesAssumption
  \* A step of somebody else.
  <1>2. ASSUME UNCHANGED <<tree, pc, supported, release, left, def, failed>>
        PROVE  CompleteInv'
    <2> SUFFICES ASSUME pc' \in {"read", "done"}, ~failed', ~blank' PROVE CompleteInv!2'
      BY DEF CompleteInv
    <2>1. pc \in {"read", "done"} /\ ~failed /\ ~blank /\ release \in Indexes
      BY <1>2, BlankStays DEF TypeOK
    <2>2. PICK r \in Repos : Full(r)
      BY <2>1 DEF CompleteInv
    <2>3. kv'[r][release'][PackageJson] # Absent
      BY <1>1, <1>2, <2>1, <2>2, FilesStay
    <2> QED
      BY <1>2, <2>1, <2>2, <2>3 DEF CompleteInv, ToCome
  <1>3. CASE Early
    BY <1>3, EarlyUnchanged DEF CompleteInv
  <1>4. CASE Ends
    BY <1>4, EndsUnchanged DEF CompleteInv
  <1>5. CASE Return
    BY <1>5 DEF Return, CompleteInv, ToCome
  <1>6. CASE ReadFile
    <2> SUFFICES ASSUME ~failed', ~blank' PROVE CompleteInv!2'
      BY DEF CompleteInv
    <2>1. /\ pc = "read" /\ release \in Indexes
          /\ UNCHANGED <<tree, kv, supported, release, blank>>
      BY <1>6 DEF ReadFile, TypeOK
    <2>2. ~failed /\ ~blank
      BY <1>6, <2>1 DEF ReadFile
    <2>3. ASSUME NEW k \in supported, k[2] = release PROVE ToCome(k[1], MantlJson)'
      <3>1. k[1] \in Repos /\ ToCome(k[1], MantlJson)
        BY <2>1, <2>2, <2>3 DEF CompleteInv, TypeOK, Key
      <3>2. HasData(kv[k[1]][release][MantlJson])
        BY <1>1, <2>1, <2>2, <2>3, <3>1 DEF CatalogInv, StoreInv, HasData
      <3> QED
        BY <1>1, <1>6, <3>1, <3>2, ReadKeeps
    <2>4. PICK r \in Repos : Full(r)
      BY <2>1, <2>2 DEF CompleteInv
    <2>5. ASSUME NEW f \in Files, f < PackageJson, <<r, release, f>> \in tree
          PROVE  ToCome(r, f)'
      <3>1. HasData(kv[r][release][f])
        BY <2>1, <2>2, <2>4, <2>5 DEF StoreInv, HasData
      <3> QED
        BY <1>6, <2>4, <2>5, <3>1, ReadKeeps
    <2> QED
      BY <2>1, <2>3, <2>4, <2>5
  <1>7. CASE UNCHANGED vars
    BY <1>2, <1>7 DEF vars
  <1>8. ASSUME NEW rs \in SUBSET Repos, Starts(rs), ~failed', Present \subseteq rs
        PROVE  CompleteInv'
    <2>1. /\ pc = "repos" /\ left' = rs \X Files
          /\ UNCHANGED <<tree, kv, supported, release>>
      BY <1>8 DEF Starts, StartReading
    <2>2. release \in Indexes
      BY <2>1 DEF TypeOK
    <2>3. \A r \in Repos, f \in Files :
             kv[r][release][f] # Absent => \A g \in Files : ToCome(r, g)'
      BY <1>8, <2>1, <2>2 DEF Present, ToCome
    <2>4. ASSUME NEW k \in supported, k[2] = release PROVE ToCome(k[1], MantlJson)'
      <3>1. k[1] \in Repos /\ kv[k[1]][release][MantlJson] # Absent
        BY <2>4 DEF CatalogInv, TypeOK, Key
      <3> QED
        BY <1>1, <2>3, <3>1
    <2>5. PICK r \in Repos : kv[r][release][PackageJson] # Absent
      BY <2>1 DEF CatalogInv
    <2> QED
      BY <1>1, <2>1, <2>3, <2>4, <2>5 DEF CompleteInv
  <1>9. ASSUME NEW s \in Syncs, Quiet(s) PROVE CompleteInv'
    BY <1>2, <1>9, QuietUnchanged
  <1>10. ASSUME NEW s \in Syncs, addSourceArtifact(s) PROVE CompleteInv'
    BY <1>2, <1>10, WriteUnchanged
  <1>11. CASE failed'
    BY <1>11 DEF CompleteInv
  <1> QED
    BY <1>3, <1>4, <1>5, <1>6, <1>7, <1>8, <1>9, <1>10, <1>11, NextCases

CatalogueInv == StoreInv /\ WalkInv /\ CatalogInv /\ CompleteInv

LEMMA InitialFiles ==
    ASSUME Init
    PROVE  \A r \in Repos, i \in Indexes, f \in Files :
             kv[r][i][f] # Absent <=> r \in named /\ <<r, i, f>> \in tree
  <1>1. PICK text \in Texts, name \in [Indexes -> Versions \cup {Empty, Malformed}] :
           kv = [r \in Repos |-> [i \in Indexes |-> [f \in Files |->
                   IF r \notin named \/ <<r, i, f>> \notin tree THEN Absent
                   ELSE IF f = PackageJson THEN name[i] ELSE text]]]
    BY DEF Init
  <1>2. text # Absent /\ \A i \in Indexes : name[i] # Absent
    BY ContentAssumption
  <1> QED
    BY <1>1, <1>2

LEMMA CatalogueInit == Init => ReadingInv /\ CatalogueInv
  <1> SUFFICES ASSUME Init PROVE ReadingInv /\ CatalogueInv
    OBVIOUS
  <1>1. ReadingInv /\ CatalogInv /\ CompleteInv
    BY DEF Init, ReadingInv, CatalogInv, CompleteInv
  <1>2. WalkInv
    BY DEF Init, WalkInv
  <1>3. \A r \in Repos, i \in Indexes, f \in Files :
           kv[r][i][f] # Absent <=> r \in named /\ <<r, i, f>> \in tree
    BY InitialFiles
  <1>4. \A r \in Repos, i \in Indexes, f \in Files : ~blank => kv[r][i][f] # Empty
    BY DEF Init
  <1>5. StoreInv
    BY <1>3, <1>4, FilesAssumption DEF StoreInv
  <1> QED
    BY <1>1, <1>2, <1>5 DEF CatalogueInv

LEMMA Catalogued == Spec => [](TypeOK /\ ReadingInv /\ CatalogueInv)
  <1>1. TypeOK /\ ReadingInv /\ CatalogueInv /\ [Next]_vars => ReadingInv' /\ CatalogueInv'
    BY ReadingStep, StoreStep, WalkStep, CatalogStep, CompleteStep DEF CatalogueInv
  <1> QED
    BY <1>1, CatalogueInit, TypeCorrect, PTL DEF Spec

-----------------------------------------------------------------------------
(* The synchronisations of this module keep what Repositories promises.    *)

LEMMA RankDistinct == \A a, b \in 0 .. 99 : Rank(a) = Rank(b) => a = b
  BY DEF Rank

Lasting == [r \in Repos |-> {x \in File : <<r, x[1], x[2]>> \in tree}]
Held == [r \in Repos |-> {x \in File : kv[r][x[1]][x[2]] # Absent}]
NameOf == [r \in Repos |-> IF r \in named THEN r ELSE None]

\* A walk has the files behind it that it meets before the one in hand.
LEMMA EarlierIsWalked ==
    ASSUME TypeOK, WalkInv, NEW s \in Syncs, NEW q \in Repos, NEW y \in File,
           InHand(s, <<q, y[1], y[2]>>), NEW x \in Lasting[q], <<x, y>> \in WalkOrder
    PROVE  x \in Held[q]
  <1>1. x \in File /\ <<q, x[1], x[2]>> \in tree /\ x # y
    BY DEF Lasting, WalkOrder
  <1>2. x[1] \in Indexes /\ x[2] \in Files /\ y[1] \in Indexes /\ y[2] \in Files
        /\ x = <<x[1], x[2]>> /\ y = <<y[1], y[2]>>
    BY <1>1 DEF File
  <1>3. Rank(x[1]) \in Nat /\ Rank(y[1]) \in Nat /\ x[2] \in Nat /\ y[2] \in Nat
    BY <1>2, RankType, Numbers, FilesAssumption
  <1>4. Upto(<<Rank(x[1]), x[2]>>, <<Rank(y[1]), y[2]>>)
    BY DEF WalkOrder
  <1>5. <<q, x[1], x[2]>> \notin walk[s]
    <2> SUFFICES ASSUME <<q, x[1], x[2]>> \in walk[s] PROVE FALSE
      OBVIOUS
    <2>1. Upto(<<Rank(y[1]), y[2]>>, <<Rank(x[1]), x[2]>>)
      BY DEF InHand
    <2>2. Rank(x[1]) = Rank(y[1]) /\ x[2] = y[2]
      BY <1>3, <1>4, <2>1 DEF Upto
    <2>3. x[1] = y[1]
      BY <1>2, <2>2, RankDistinct, NumbersAssumption
    <2> QED
      BY <1>1, <1>2, <2>2, <2>3
  <1>6. at[s] = q /\ at[s] # None
    BY ContentAssumption DEF InHand, WalkInv
  <1> QED
    BY <1>1, <1>2, <1>5, <1>6 DEF WalkInv, Held

LEMMA WriteAppears ==
    ASSUME TypeOK, WalkInv, NEW s \in Syncs, addSourceArtifact(s)
    PROVE  /\ UNCHANGED <<Lasting, NameOf>>
           /\ \/ Held' = Held
              \/ \E q \in Repos, y \in File :
                   /\ y \notin Held[q]
                   /\ \A x \in Lasting[q] : <<x, y>> \in WalkOrder => x \in Held[q]
                   /\ Held' = [Held EXCEPT ![q] = @ \cup {y}]
  <1>1. PICK q \in Repos, i \in Indexes, f \in Files, c \in Content \ {Absent} :
           Write(s, q, i, f, c)
    BY Written
  <1>2. UNCHANGED <<Lasting, NameOf>>
    BY WriteUnchanged DEF Lasting, NameOf
  <1>3. <<i, f>> \in File
    BY DEF File
  <1>4. \A r \in Repos, x \in File :
           kv'[r][x[1]][x[2]] = IF r = q /\ x = <<i, f>> THEN c ELSE kv[r][x[1]][x[2]]
    BY <1>1 DEF Write, TypeOK, File
  <1>5. \A r \in Repos :
           Held'[r] = IF r = q THEN Held[r] \cup {<<i, f>>} ELSE Held[r]
    BY <1>3, <1>4 DEF Held
  <1>6. CASE <<i, f>> \in Held[q]
    <2>1. \A r \in Repos : Held'[r] = Held[r]
      BY <1>5, <1>6
    <2>2. Held' = Held
      BY <2>1 DEF Held
    <2> QED
      BY <1>2, <2>2
  <1>7. CASE <<i, f>> \notin Held[q]
    <2>1. \A x \in Lasting[q] : <<x, <<i, f>>>> \in WalkOrder => x \in Held[q]
      BY <1>1, <1>3, EarlierIsWalked DEF Write
    <2>2. Held' = [Held EXCEPT ![q] = @ \cup {<<i, f>>}]
      BY <1>5 DEF Held
    <2> QED
      BY <1>2, <1>3, <1>7, <2>1, <2>2
  <1> QED
    BY <1>6, <1>7

LEMMA NameIsLast ==
    ASSUME TypeOK, WalkInv, NEW s \in Syncs, setName(s)
    PROVE  \E q \in Repos :
             /\ UNCHANGED <<Lasting, Held>>
             /\ Lasting[q] \subseteq Held[q]
             /\ NameOf' = [NameOf EXCEPT ![q] = q]
  <1>1. at[s] \in Repos /\ at[s] # None /\ walk[s] = {}
    BY DEF setName, TypeOK
  <1>2. UNCHANGED <<Lasting, Held>>
    BY DEF setName, Lasting, Held
  <1>3. \A x \in Lasting[at[s]] : x \in Held[at[s]]
    BY <1>1 DEF WalkInv, Lasting, Held
  <1>4. NameOf' = [NameOf EXCEPT ![at[s]] = at[s]]
    BY <1>1 DEF setName, NameOf
  <1> QED
    BY <1>1, <1>2, <1>3, <1>4

LEMMA OthersShowNothing ==
    ASSUME [Next]_vars, ~\E s \in Syncs : addSourceArtifact(s) \/ setName(s)
    PROVE  UNCHANGED <<Lasting, Held, NameOf>>
  <1>1. UNCHANGED <<tree, kv, named>>
    BY DEF Next, vars, sync, GetPackageDefinition, Sync, Begin, Die,
       ListKeys, LookForMantlJson, ReadMeta, MetaPanics, Choose, NotFound,
       getRepositories, NameFails, ReadFile, Return, MergeFails, KeysFail
  <1> QED
    BY <1>1 DEF Lasting, Held, NameOf

LEMMA ReadersStep ==
    ASSUME TypeOK, WalkInv, [Next]_vars
    PROVE  [Readers!Next]_(Readers!vars)
  <1> USE DEF Lasting, Held, NameOf, Readers!vars
  <1>1. ASSUME NEW s \in Syncs, addSourceArtifact(s)
        PROVE  UNCHANGED Readers!vars \/ Readers!Next
    BY <1>1, WriteAppears DEF Readers!Next, Readers!Appear, Readers!Earlier
  <1>2. ASSUME NEW s \in Syncs, setName(s) PROVE Readers!Next
    <2>1. \E q \in Repos : Readers!Name(q)
      BY <1>2, NameIsLast DEF Readers!Name
    <2> QED
      BY <2>1 DEF Readers!Next
  <1>3. CASE ~\E s \in Syncs : addSourceArtifact(s) \/ setName(s)
    BY <1>3, OthersShowNothing
  <1> QED
    BY <1>1, <1>2, <1>3

LEMMA ReadersInit == Init => Readers!Init
  <1> SUFFICES ASSUME Init PROVE Readers!Init
    OBVIOUS
  <1>1. \A r \in Repos, i \in Indexes, f \in Files :
           kv[r][i][f] # Absent <=> r \in named /\ <<r, i, f>> \in tree
    BY InitialFiles
  <1>2. ASSUME NEW r \in Repos
        PROVE  Held[r] = IF r \in named THEN Lasting[r] ELSE {}
    <2>1. /\ Held[r] = {x \in File : kv[r][x[1]][x[2]] # Absent}
          /\ Lasting[r] = {x \in File : <<r, x[1], x[2]>> \in tree}
      BY DEF Held, Lasting
    <2>2. \A x \in File :
             kv[r][x[1]][x[2]] # Absent <=> r \in named /\ <<r, x[1], x[2]>> \in tree
      BY <1>1 DEF File
    <2>3. CASE r \in named
      BY <2>1, <2>2, <2>3
    <2>4. CASE r \notin named
      BY <2>1, <2>2, <2>4
    <2> QED
      BY <2>3, <2>4
  <1>3. None \notin Repos
    BY ContentAssumption
  <1>4. Readers!Orderly
    BY <1>2, <1>3 DEF Readers!Orderly, Readers!Earlier, Held, Lasting
  <1>5. /\ Lasting \in [Repos -> SUBSET File] /\ Held \in [Repos -> SUBSET File]
        /\ NameOf \in [Repos -> Repos \cup {None}]
    BY DEF Lasting, Held, NameOf
  <1>6. Readers!Repository = Repos
    BY DEF Readers!Repository
  <1> QED
    BY <1>4, <1>5, <1>6 DEF Readers!Init, Lasting, Held, NameOf

(* The writes that requests meet in this module keep what Repositories     *)
(* promises the readers, as those of SourceSync do.                        *)
THEOREM RepositoriesKept == Spec => RepositoriesSpec
  <1>1. TypeOK /\ CatalogueInv /\ [Next]_vars => [Readers!Next]_(Readers!vars)
    BY ReadersStep DEF CatalogueInv
  <1> QED
    BY <1>1, ReadersInit, Catalogued, PTL DEF Spec, RepositoriesSpec, Readers!Spec

-----------------------------------------------------------------------------
(* The properties of the definition.                                       *)

(* A supported version is never installed without its options:             *)
(* SupportedHasOptions, for any number of repositories.                    *)
THEOREM OptionsNotMissed == Spec => []SupportedHasOptions
  <1>1. ReadingInv /\ CatalogueInv => SupportedHasOptions
    <2>1. ASSUME ReadingInv, CatalogueInv, pc = "done", ~failed, ~blank,
                 NEW k \in supported, k[2] = release
          PROVE  def[MantlJson] # Absent
      BY <2>1 DEF ReadingInv, CatalogueInv, CompleteInv, ToCome, HasData
    <2> QED
      BY <2>1 DEF SupportedHasOptions
  <1> QED
    BY <1>1, Catalogued, PTL

(* What the catalogue lists is complete up to its package.json:            *)
(* ListedIsComplete, for any number of synchronisations, overlapping or    *)
(* cut short.                                                              *)
THEOREM ListingIsComplete == Spec => []ListedIsComplete
  <1>1. TypeOK /\ ReadingInv /\ CatalogueInv => ListedIsComplete
    <2> SUFFICES ASSUME TypeOK, ReadingInv, CatalogueInv, pc = "done", ~failed, ~blank
                 PROVE  ListedIsComplete!2
      BY DEF ListedIsComplete
    <2>1. PICK r \in Repos :
             /\ kv[r][release][PackageJson] # Absent
             /\ \A f \in Files : f < PackageJson /\ <<r, release, f>> \in tree
                                     => ToCome(r, f)
      BY DEF CatalogueInv, CompleteInv
    <2>2. <<r, release, PackageJson>> \in tree
      BY <2>1, FilesAssumption DEF CatalogueInv, StoreInv, TypeOK
    <2> QED
      BY <2>1, <2>2 DEF ReadingInv, ToCome, HasData
  <1> QED
    BY <1>1, Catalogued, PTL

-----------------------------------------------------------------------------
(* Which version is chosen.                                                *)

\* A key with the version wanted is looked at, unless it has been, or its
\* package.json has.
HonourInv ==
    /\ offered # {} => wanted \in Versions
    /\ pc \in {"exists", "meta"} => \A k \in offered : Has(kv, k, wanted)
    /\ pc \in {"exists", "meta"} /\ ~failed =>
         \A k \in offered : k \in keys \/ versions[wanted] # None
    /\ pc \in {"repos", "read", "done"} /\ ~failed /\ offered # {} => version = wanted

LEMMA HonourStep == TypeOK /\ HonourInv /\ [Next]_vars => HonourInv'
  <1> SUFFICES ASSUME TypeOK, HonourInv, [Next]_vars PROVE HonourInv'
    OBVIOUS
  <1> USE DEF sync, index, chosen, reading
  <1>1. CASE ListKeys
    <2>1. /\ keys' = {k \in Key : \E f \in Files : kv[k[1]][k[2]][f] # Absent}
          /\ offered' = {k \in Key : Has(kv, k, wanted)}
          /\ pc' = "exists" /\ UNCHANGED <<kv, wanted>>
      BY <1>1 DEF ListKeys
    <2>2. ASSUME NEW k \in offered' PROVE wanted \in Versions /\ k \in keys' /\ Has(kv, k, wanted)
      <3>0. k \in Key /\ kv[k[1]][k[2]][PackageJson] = wanted
        BY <2>1 DEF Has
      <3>1. k[1] \in Repos /\ k[2] \in Indexes /\ k \in Key /\ Has(kv, k, wanted)
        BY <3>0 DEF Key, Has
      <3>2. kv[k[1]][k[2]][PackageJson] \in Content /\ None \notin Content
        <4>1. None \notin Content
          BY ContentAssumption DEF Content
        <4>2. PackageJson \in Files
          BY FilesAssumption
        <4>3. kv \in [Repos -> [Indexes -> [Files -> Content]]]
          BY DEF TypeOK
        <4> QED
          BY <3>1, <4>1, <4>2, <4>3
      <3>3. wanted \in Versions
        BY <3>1, <3>2 DEF Has, TypeOK
      <3>4. kv[k[1]][k[2]][PackageJson] # Absent
        BY <3>1, <3>3, ContentAssumption DEF Has
      <3> QED
        BY <2>1, <3>1, <3>3, <3>4, FilesAssumption
    <2> QED
      BY <2>1, <2>2 DEF HonourInv, Has
  <1>2. CASE LookForMantlJson
    BY <1>2 DEF LookForMantlJson, HonourInv
  <1>3. CASE ReadMeta
    <2>1. pc = "meta" /\ pc' = "exists" /\ UNCHANGED <<kv, wanted, offered>>
      BY <1>3 DEF ReadMeta
    <2>2. ASSUME ~failed', NEW l \in offered PROVE l \in keys' \/ versions'[wanted] # None
      <3>1. PICK k \in keys :
              /\ versions' = [v \in Versions |->
                     IF v = kv[k[1]][k[2]][PackageJson] THEN k[2] ELSE versions[v]]
              /\ keys' = keys \ {k} /\ ~failed
        BY <1>3, <2>2 DEF ReadMeta
      <3>2. wanted \in Versions /\ Has(kv, l, wanted) /\ k[2] # None
        BY <2>1, ContentAssumption DEF HonourInv, TypeOK, Key
      <3>3. l \in keys \/ versions[wanted] # None
        BY <2>1, <3>1 DEF HonourInv
      <3> QED
        BY <3>1, <3>2, <3>3 DEF Has
    <2> QED
      BY <2>1, <2>2 DEF HonourInv, Has
  <1>4. CASE Choose
    <2>1. pc = "exists" /\ keys = {} /\ pc' = "repos" /\ UNCHANGED <<wanted, failed, offered>>
      BY <1>4 DEF Choose
    <2>2. ASSUME ~failed, offered # {} PROVE version' = wanted
      <3>1. wanted \in Listed
        BY <2>1, <2>2 DEF HonourInv, Listed
      <3> QED
        BY <1>4, <3>1 DEF Choose, FindPackageVersion
    <2> QED
      BY <2>1, <2>2 DEF HonourInv
  <1>5. CASE Ends
    BY <1>5, EndsUnchanged DEF HonourInv
  <1>6. CASE Return \/ ReadFile
    BY <1>6 DEF Return, ReadFile, HonourInv
  <1>7. CASE UNCHANGED vars
    BY <1>7 DEF vars, HonourInv
  <1>8. ASSUME NEW rs \in SUBSET Repos, Starts(rs), failed' \/ UNCHANGED failed PROVE HonourInv'
    BY <1>8 DEF Starts, StartReading, HonourInv
  <1>9. ASSUME NEW s \in Syncs, Quiet(s) PROVE HonourInv'
    BY <1>9, QuietUnchanged DEF HonourInv
  <1>10. ASSUME NEW s \in Syncs, addSourceArtifact(s) PROVE HonourInv'
    <2>1. offered' = {k \in offered : pc \in {"exists", "meta"} => Has(kv', k, wanted)}
      BY <1>10 DEF addSourceArtifact
    <2>2. UNCHANGED <<pc, wanted, keys, versions, version, failed>>
      BY <1>10, WriteUnchanged
    <2>3. pc \in {"exists", "meta"} => \A k \in offered' : Has(kv', k, wanted)
      BY <2>1
    <2> QED
      BY <2>1, <2>2, <2>3 DEF HonourInv, Has
  <1> QED
    BY <1>1, <1>2, <1>3, <1>4, <1>5, <1>6, <1>7, <1>8, <1>9, <1>10, NextCases DEF Early

(* A request for a version that the repositories have gets that version:   *)
(* RequestHonoured, whatever is written while the catalogue is put         *)
(* together, empty and malformed files included.                           *)
THEOREM RequestIsHonoured == Spec => []RequestHonoured
  <1>1. Init => HonourInv
    BY DEF Init, HonourInv
  <1>2. HonourInv => RequestHonoured
    BY DEF HonourInv, RequestHonoured
  <1> QED
    BY <1>1, <1>2, HonourStep, TypeCorrect, PTL DEF Spec

\* While the catalogue is put together: the mantl.json of k has been looked for.
LookedAt(k) == k \notin keys \/ (pc = "meta" /\ NextKey(k))

\* As long as nobody writes, the catalogue knows what is in Consul.
NewestInv ==
    /\ pc = "list" => versions = [v \in Versions |-> None]
    /\ pc \in {"exists", "meta"} /\ ~moved /\ ~failed =>
         /\ \A k \in Key : LookedAt(k) /\ kv[k[1]][k[2]][MantlJson] # Absent => k \in supported
         /\ \A v \in Versions : versions[v] # None =>
              \E r \in Repos : Has(kv, <<r, versions[v]>>, v)
         /\ \A k \in Key \ keys, v \in Versions : Has(kv, k, v) => versions[v] # None
         /\ \A k \in Key : Has(kv, k, wanted) => k \in offered
    /\ NewestChosen

\* Numbers whose strings sort as they do: all of one digit, say, or all of two.
SameOrder == \A a, b \in Repos \cup Indexes : a <= b <=> Rank(a) <= Rank(b)

LEMMA UptoSame ==
    ASSUME SameOrder, NEW k \in Key, NEW l \in Key
    PROVE  /\ Upto(KeyRank(k), KeyRank(l)) <=> Upto(k, l)
           /\ Upto(k, l) /\ Upto(l, k) => k = l
  <1>1. /\ k[1] \in Nat /\ k[2] \in Nat /\ l[1] \in Nat /\ l[2] \in Nat
        /\ Rank(k[1]) \in Nat /\ Rank(k[2]) \in Nat /\ Rank(l[1]) \in Nat /\ Rank(l[2]) \in Nat
    BY Numbers, RankType DEF Key
  <1>2. /\ k[1] <= l[1] <=> Rank(k[1]) <= Rank(l[1])
        /\ l[1] <= k[1] <=> Rank(l[1]) <= Rank(k[1])
        /\ k[2] <= l[2] <=> Rank(k[2]) <= Rank(l[2])
    BY DEF SameOrder, Key
  <1>3. k = <<k[1], k[2]>> /\ l = <<l[1], l[2]>>
    BY DEF Key
  <1>4. Upto(k, l) /\ Upto(l, k) => k[1] = l[1] /\ k[2] = l[2]
    BY <1>1 DEF Upto
  <1>5. Upto(KeyRank(k), KeyRank(l)) <=>
          Rank(k[1]) < Rank(l[1]) \/ (Rank(k[1]) = Rank(l[1]) /\ Rank(k[2]) <= Rank(l[2]))
    BY DEF Upto, KeyRank
  <1>6. Upto(k, l) <=> k[1] < l[1] \/ (k[1] = l[1] /\ k[2] <= l[2])
    BY DEF Upto
  <1> QED
    BY <1>1, <1>2, <1>3, <1>4, <1>5, <1>6

\* The order of the natural numbers as a relation, and the least of a set.
LessThan == OpToRel(<, Nat)

LEMMA LessThanWellFounded == IsWellFoundedOn(LessThan, Nat)
  BY NatLessThanWellFounded DEF LessThan

LEMMA LeastNatural ==
    ASSUME NEW S \in SUBSET Nat, S # {}
    PROVE  \E m \in S : \A x \in S : m <= x
  <1>1. PICK m \in S : \A x \in S : <<x, m>> \notin LessThan
    BY LessThanWellFounded, WFMin
  <1>2. \A x, y \in Nat : x < y => <<x, y>> \in LessThan
    BY DEF LessThan, OpToRel
  <1>3. \A x \in S : x \in Nat /\ m \in Nat /\ ~(x < m)
    BY <1>1, <1>2
  <1>4. \A x \in S : m <= x
    BY <1>3
  <1> QED
    BY <1>4

\* Pairs of numbers of at most two digits, counted from the highest.
Below(a, b) == 9999 - (100 * a + b)

LEMMA BelowType ==
    ASSUME NEW a \in 0 .. 99, NEW b \in 0 .. 99
    PROVE  Below(a, b) \in Nat
  BY DEF Below

LEMMA BelowOrder ==
    ASSUME NEW a \in 0 .. 99, NEW b \in 0 .. 99, NEW c \in 0 .. 99, NEW d \in 0 .. 99,
           Below(a, b) <= Below(c, d)
    PROVE  Upto(<<c, d>>, <<a, b>>)
  BY DEF Below, Upto

\* Among keys there is a highest one.
LEMMA HighestKey ==
    ASSUME NEW M \in SUBSET Key, M # {}
    PROVE  \E k \in M : \A l \in M : Upto(l, k)
  <1> DEFINE S == {Below(k[1], k[2]) : k \in M}
  <1>1. \A k \in M : k[1] \in 0 .. 99 /\ k[2] \in 0 .. 99
    BY NumbersAssumption DEF Key
  <1>2. \A k \in M : Below(k[1], k[2]) \in Nat
    BY <1>1, BelowType
  <1>3. S \in SUBSET Nat /\ S # {}
    BY <1>2
  <1>4. PICK m \in S : \A x \in S : m <= x
    <2> HIDE DEF S
    <2> QED
      BY <1>3, LeastNatural
  <1>5. PICK k \in M : \A l \in M : Below(k[1], k[2]) <= Below(l[1], l[2])
    BY <1>4
  <1>6. ASSUME NEW l \in M PROVE Upto(l, k)
    <2>1. /\ k[1] \in 0 .. 99 /\ k[2] \in 0 .. 99
          /\ l[1] \in 0 .. 99 /\ l[2] \in 0 .. 99
      BY <1>1
    <2>2. Below(k[1], k[2]) <= Below(l[1], l[2])
      BY <1>5
    <2>3. Upto(<<l[1], l[2]>>, <<k[1], k[2]>>)
      BY <2>1, <2>2, BelowOrder
    <2> QED
      BY <2>3 DEF Upto
  <1> QED
    BY <1>6

\* The catalogue as it is when the choice is made, if nobody has written.
Complete ==
    /\ supported = {k \in Key : kv[k[1]][k[2]][MantlJson] # Absent}
    /\ \A v \in Versions : versions[v] # None => \E r \in Repos : Has(kv, <<r, versions[v]>>, v)
    /\ \A k \in Key, v \in Versions : Has(kv, k, v) => versions[v] # None
    /\ wanted \notin Listed

\* The directories of the versions listed are those that offer one.
LEMMA ListedIsOffered ==
    ASSUME TypeOK, Complete, OwnNames, NEW i \in Indexes
    PROVE  Offers(i) <=> \E v \in Listed : versions[v] = i
  <1>1. ASSUME Offers(i) PROVE \E v \in Listed : versions[v] = i
    <2>1. PICK r \in Repos, v \in Versions : Has(kv, <<r, i>>, v)
      BY <1>1 DEF Offers, Has
    <2>2. versions[v] # None /\ versions[v] \in Indexes
      BY <2>1 DEF Complete, TypeOK, Key
    <2>3. PICK q \in Repos : Has(kv, <<q, versions[v]>>, v)
      BY <2>2 DEF Complete
    <2>4. versions[v] = i
      BY <2>1, <2>2, <2>3 DEF OwnNames, Key
    <2> QED
      BY <2>2, <2>4 DEF Listed
  <1>2. ASSUME NEW v \in Listed, versions[v] = i PROVE Offers(i)
    <2>1. PICK r \in Repos : Has(kv, <<r, i>>, v)
      BY <1>2 DEF Complete, Listed
    <2> QED
      BY <2>1 DEF Offers, Has, Listed
  <1> QED
    BY <1>1, <1>2

LEMMA ChoiceIsNewest ==
    ASSUME SameOrder, TypeOK, Complete, OwnNames, NEW v \in FindPackageVersion(wanted)
    PROVE  IF Marked = {} THEN \A i \in Indexes : Offers(i) => i <= versions[v]
           ELSE \E k \in Marked : k[2] = versions[v] /\ \A l \in Marked : Upto(l, k)
  <1> DEFINE marked == {k \in supported : \E w \in Listed : versions[w] = k[2]}
             last(k) == \A l \in marked : Upto(KeyRank(l), KeyRank(k))
  <1>1. marked = Marked
    <2>1. \A k \in Key : k[2] \in Indexes
      BY DEF Key
    <2> QED
      BY <2>1, ListedIsOffered DEF Complete, Marked
  <1>2. Marked \in SUBSET Key
    BY DEF Marked
  <1>3. v \in Listed /\ versions[v] \in Indexes
    <2>1. v \in Listed
      BY FindIsListed
    <2> QED
      BY <2>1 DEF Listed, TypeOK
  <1>4. CASE Marked = {}
    <2>1. CurrentVersion = MostRecent(Listed)
      BY <1>1, <1>4 DEF CurrentVersion
    <2>2. SupportedListed = {}
      BY <1>1, <1>4 DEF SupportedListed
    <2>3. v \in MostRecent(Listed)
      BY <2>1, <2>2 DEF FindPackageVersion, Complete
    <2>4. ASSUME NEW i \in Indexes, Offers(i) PROVE i <= versions[v]
      <3>1. PICK w \in Listed : versions[w] = i
        BY <2>4, ListedIsOffered
      <3>2. Rank(i) <= Rank(versions[v])
        BY <2>3, <3>1 DEF MostRecent
      <3> QED
        BY <1>3, <3>2 DEF SameOrder
    <2> QED
      BY <1>4, <2>4
  <1>5. CASE Marked # {}
    <2>1. PICK h \in Marked : \A l \in Marked : Upto(l, h)
      BY <1>2, <1>5, HighestKey
    <2>2. \A k \in Marked : last(k) <=> \A l \in Marked : Upto(l, k)
      <3>1. \A k, l \in Marked : Upto(KeyRank(l), KeyRank(k)) <=> Upto(l, k)
        BY <1>2, UptoSame
      <3> QED
        BY <1>1, <3>1
    <2>3. CurrentVersion = {w \in Listed : \E k \in marked : last(k) /\ versions[w] = k[2]}
      BY <1>1, <1>5 DEF CurrentVersion
    <2> HIDE DEF last
    <2>4. CurrentVersion # {}
      <3>1. h \in marked /\ last(h)
        BY <1>1, <2>1, <2>2
      <3>2. PICK w \in Listed : versions[w] = h[2]
        BY <3>1
      <3> QED
        BY <2>3, <3>1, <3>2
    <2>5. v \in CurrentVersion
      BY <2>4 DEF FindPackageVersion, Complete
    <2>6. PICK k \in marked : last(k) /\ versions[v] = k[2]
      BY <2>3, <2>5
    <2> QED
      BY <1>1, <1>5, <2>2, <2>6
  <1> QED
    BY <1>4, <1>5

LEMMA NewestStep ==
    SameOrder /\ TypeOK /\ CatalogInv /\ NewestInv /\ [Next]_vars => NewestInv'
  <1> SUFFICES ASSUME SameOrder, TypeOK, CatalogInv, NewestInv, [Next]_vars
               PROVE  NewestInv'
    OBVIOUS
  <1> USE DEF sync, index, chosen, reading
  <1>1. CASE ListKeys
    <2>1. /\ pc = "list" /\ pc' = "exists" /\ UNCHANGED <<kv, versions, wanted>>
          /\ keys' = {k \in Key : \E f \in Files : kv[k[1]][k[2]][f] # Absent}
          /\ offered' = {k \in Key : Has(kv, k, wanted)}
      BY <1>1 DEF ListKeys
    <2>2. \A k \in Key : (\E f \in Files : kv[k[1]][k[2]][f] # Absent) => k \in keys'
      BY <2>1
    <2>3. \A k \in Key : LookedAt(k)' => kv[k[1]][k[2]][MantlJson] = Absent
      BY <2>1, <2>2, FilesAssumption DEF LookedAt
    <2>4. \A v \in Versions : versions'[v] = None
      BY <2>1 DEF NewestInv
    <2>5. \A k \in Key \ keys', v \in Versions : ~Has(kv, k, v)
      BY <2>2, FilesAssumption, ContentAssumption DEF Has
    <2> QED
      BY <2>1, <2>3, <2>4, <2>5 DEF NewestInv, NewestChosen, Has
  <1>2. CASE LookForMantlJson
    <2>1. /\ pc = "exists" /\ pc' = "meta"
          /\ UNCHANGED <<kv, keys, versions, wanted, moved, offered>>
          /\ ~failed' => ~failed
      BY <1>2 DEF LookForMantlJson
    <2>2. ASSUME ~moved', ~failed', NEW l \in Key, LookedAt(l)',
                 kv[l[1]][l[2]][MantlJson] # Absent
          PROVE  l \in supported'
      <3>1. PICK k \in keys :
               /\ NextKey(k) /\ ~failed
               /\ supported' = IF kv[k[1]][k[2]][MantlJson] # Absent
                               THEN supported \cup {k} ELSE supported
        BY <1>2, <2>2 DEF LookForMantlJson
      <3>2. CASE l \notin keys
        BY <2>1, <2>2, <3>1, <3>2 DEF NewestInv, LookedAt
      <3>3. CASE l \in keys
        <4>1. NextKey(l)
          BY <2>1, <2>2, <3>3 DEF LookedAt, NextKey
        <4>2. Upto(KeyRank(k), KeyRank(l)) /\ Upto(KeyRank(l), KeyRank(k))
          BY <3>1, <4>1 DEF NextKey
        <4>3. l = k
          BY <3>1, <4>2, UptoSame DEF TypeOK
        <4> QED
          BY <2>2, <3>1, <4>3
      <3> QED
        BY <3>2, <3>3
    <2> QED
      BY <2>1, <2>2 DEF NewestInv, NewestChosen, Has
  <1>3. CASE ReadMeta
    <2> SUFFICES ASSUME ~moved', ~failed' PROVE NewestInv!2!2'
      BY <1>3 DEF ReadMeta, NewestInv, NewestChosen
    <2>1. PICK k \in keys :
            /\ NextKey(k)
            /\ versions' = [v \in Versions |->
                     IF v = kv[k[1]][k[2]][PackageJson] THEN k[2] ELSE versions[v]]
            /\ keys' = keys \ {k}
      BY <1>3 DEF ReadMeta
    <2>2. /\ pc = "meta" /\ pc' = "exists" /\ ~moved /\ ~failed
          /\ UNCHANGED <<kv, supported, wanted, offered>>
      BY <1>3 DEF ReadMeta
    <2>3. k[1] \in Repos /\ k[2] \in Indexes /\ k = <<k[1], k[2]>> /\ k[2] # None
      BY ContentAssumption DEF TypeOK, Key
    <2>4. \A l \in Key : LookedAt(l)' /\ kv[l[1]][l[2]][MantlJson] # Absent => l \in supported
      BY <2>1, <2>2 DEF NewestInv, LookedAt
    <2>5. ASSUME NEW v \in Versions, versions'[v] # None
          PROVE  \E r \in Repos : Has(kv, <<r, versions'[v]>>, v)
      <3>1. CASE v = kv[k[1]][k[2]][PackageJson]
        BY <2>1, <2>3, <3>1 DEF Has
      <3>2. CASE v # kv[k[1]][k[2]][PackageJson]
        BY <2>1, <2>2, <2>5, <3>2 DEF NewestInv
      <3> QED
        BY <3>1, <3>2
    <2>6. ASSUME NEW l \in Key \ keys', NEW v \in Versions, Has(kv, l, v)
          PROVE  versions'[v] # None
      <3>1. CASE l = k
        BY <2>1, <2>3, <2>6, <3>1 DEF Has
      <3>2. CASE l # k
        <4>1. versions[v] # None
          BY <2>1, <2>2, <2>6, <3>2 DEF NewestInv
        <4> QED
          BY <2>1, <2>3, <4>1
      <3> QED
        BY <3>1, <3>2
    <2>7. \A l \in Key : Has(kv, l, wanted) => l \in offered
      BY <2>2 DEF NewestInv
    <2> QED
      BY <2>2, <2>4, <2>5, <2>6, <2>7 DEF Has
  <1>4. CASE Choose
    <2>1. pc = "exists" /\ pc' = "repos" /\ keys = {}
          /\ UNCHANGED <<kv, versions, moved, failed, offered>>
      BY <1>4 DEF Choose
    <2>2. ASSUME ~moved, ~failed, offered = {}, OwnNames
          PROVE  IF Marked = {} THEN \A i \in Indexes : Offers(i) => i <= release'
                 ELSE \E k \in Marked : k[2] = release' /\ \A l \in Marked : Upto(l, k)
      <3>1. supported = {k \in Key : kv[k[1]][k[2]][MantlJson] # Absent}
        BY <2>1, <2>2 DEF NewestInv, LookedAt, CatalogInv, TypeOK
      <3>2. wanted \notin Listed
        <4> SUFFICES ASSUME wanted \in Listed PROVE FALSE
          OBVIOUS
        <4>1. PICK r \in Repos : Has(kv, <<r, versions[wanted]>>, wanted)
          BY <2>1, <2>2 DEF NewestInv, Listed
        <4>2. <<r, versions[wanted]>> \in Key
          BY DEF Listed, TypeOK, Key
        <4> QED
          BY <2>1, <2>2, <4>1, <4>2 DEF NewestInv
      <3>3. Complete
        BY <2>1, <2>2, <3>1, <3>2 DEF Complete, NewestInv
      <3>4. PICK v \in FindPackageVersion(wanted) : release' = versions[v]
        BY <1>4 DEF Choose
      <3> QED
        BY <2>2, <3>3, <3>4, ChoiceIsNewest
    <2>3. NewestChosen'
      BY <2>1, <2>2 DEF NewestChosen, Marked, Offers, OwnNames, Has
    <2> QED
      BY <2>1, <2>3 DEF NewestInv
  <1>5. CASE Ends
    BY <1>5, EndsUnchanged DEF NewestInv, NewestChosen
  <1>6. CASE Return \/ ReadFile
    BY <1>6 DEF Return, ReadFile, NewestInv, NewestChosen
  \* Nothing that matters here has changed.
  <1>7. ASSUME UNCHANGED <<kv, pc, wanted, keys, supported, versions, release, failed, moved,
                           offered>>
        PROVE  NewestInv'
    <2>1. NewestChosen'
      BY <1>7 DEF NewestInv, NewestChosen, Marked, Offers, OwnNames, Has
    <2>2. NewestInv!1' /\ NewestInv!2'
      BY <1>7 DEF NewestInv, LookedAt, NextKey, Has
    <2> QED
      BY <2>1, <2>2 DEF NewestInv
  <1>8. ASSUME NEW rs \in SUBSET Repos, Starts(rs) PROVE NewestInv'
    BY <1>8 DEF Starts, StartReading, NewestInv, NewestChosen
  <1>9. ASSUME NEW s \in Syncs, Quiet(s) PROVE NewestInv'
    BY <1>7, <1>9, QuietUnchanged
  <1>10. ASSUME NEW s \in Syncs, addSourceArtifact(s) PROVE NewestInv'
    BY <1>10 DEF addSourceArtifact, NewestInv, NewestChosen
  <1>11. CASE UNCHANGED vars
    BY <1>7, <1>11 DEF vars
  <1> QED
    BY <1>1, <1>2, <1>3, <1>4, <1>5, <1>6, <1>8, <1>9, <1>10, <1>11, NextCases DEF Early

(* Where names and numbers sort alike, the newest supported version is     *)
(* chosen: NewestChosen, for any number of repositories and versions.      *)
THEOREM NewestIsChosen == SameOrder => (Spec => []NewestChosen)
  <1> SUFFICES ASSUME SameOrder PROVE Spec => []NewestChosen
    OBVIOUS
  <1>1. Init => NewestInv
    BY DEF Init, NewestInv, NewestChosen
  <1>2. TypeOK /\ CatalogueInv /\ NewestInv /\ [Next]_vars => NewestInv'
    BY NewestStep DEF CatalogueInv
  <1>3. NewestInv => NewestChosen
    BY DEF NewestInv
  <1> QED
    BY <1>1, <1>2, <1>3, Catalogued, PTL DEF Spec
=============================================================================
