---------------------------- MODULE Definition -----------------------------
(***************************************************************************)
(* Building a package definition (GetPackageDefinition in                  *)
(* src/install/package.go, with src/install/catalog.go and                 *)
(* src/install/repository.go) from layered repositories in Consul, while   *)
(* synchronisations write them (sync in src/install/source.go).  The       *)
(* definition is put together by one Get for each file: first the          *)
(* catalogue looks at every version of the package in every repository and *)
(* a version is chosen, then the six files of that version are read from   *)
(* each repository in turn.  Nothing keeps the two apart.                  *)
(*                                                                         *)
(* The model has one package and one request for it; requests write        *)
(* nothing and do not see each other.  Repositories and version            *)
(* directories bear numbers, which the catalogue sorts as strings and      *)
(* getRepositories as integers.  Version names are taken up to case, as    *)
(* strings.EqualFold does.  failed, blank, moved, offered and seen are     *)
(* history variables.                                                      *)
(***************************************************************************)
EXTENDS Naturals

CONSTANTS
    Repos,     \* the indexes of the configured repositories
    Indexes,   \* the numbers of the version directories of the package
    Files,     \* the files of a version that this instance looks at
    Versions,  \* version names
    Names,     \* Names[i]: what a package.json of directory i may hold
    Texts,     \* what another file may hold
    Trees,     \* the possible contents of the sources, sets of paths
    Wanted,    \* the versions a request may ask for, None for no version
    Syncs,     \* the synchronisations that may run at a time
    MaxSyncs,  \* bound on the synchronisations
    Absent, Empty, Malformed, None

\* The files are numbered in the order in which filepath.Walk meets them:
\* command.json, config.json, mantl.json, marathon.json, package.json and
\* uninstall.json.  GetPackageDefinition takes mantl.json after package.json.
MantlJson == 3
PackageJson == 5
Turn == <<1, 2, 5, 3, 4, 6>>

ASSUME NumbersAssumption ==
    Repos \subseteq 0 .. 99 /\ Indexes \subseteq 0 .. 99 /\ MaxSyncs \in Nat
ASSUME FilesAssumption ==
    Files \subseteq 1 .. 6 /\ {MantlJson, PackageJson} \subseteq Files
ASSUME ContentAssumption ==
    /\ Names \in [Indexes -> SUBSET (Versions \cup {Empty, Malformed})]
    /\ Absent \notin Texts \cup Versions \cup {Empty, Malformed}
    /\ Empty \notin Versions /\ Malformed \notin Versions
    /\ None \notin Repos \cup Indexes \cup Versions \cup Texts \cup {Absent, Empty, Malformed}
    /\ Wanted \subseteq Versions \cup {None}
    /\ Trees \subseteq SUBSET (Repos \X Indexes \X Files)

Key == Repos \X Indexes
Path == Repos \X Indexes \X Files
Content == Versions \cup Texts \cup {Absent, Empty, Malformed}
Contents(x) == IF x[3] = PackageJson THEN Names[x[2]] ELSE Texts

\* len(data) > 0
HasData(c) == c \notin {Absent, Empty}

\* The package.json of key k is that of version v.
Has(store, k, v) == store[k[1]][k[2]][PackageJson] = v

VARIABLES
    tree,      \* the paths of the files in the sources
    kv,        \* kv[r][i][f]: the file in Consul
    named,     \* the repositories that have a name in Consul
    at,        \* at[s]: the repository that s synchronises
    walk,      \* walk[s]: the paths s has still to write
    syncs,     \* synchronisations so far
    pc,        \* where the request stands
    wanted,    \* the version it asks for
    keys,      \* the keys of the catalogue not looked at yet
    supported, \* those found to have a mantl.json
    versions,  \* pkg.Versions: the directory of each version name
    version,   \* pkgDef.version
    release,   \* pkgDef.release, the directory of that version
    repos,     \* what getRepositories returned
    left,      \* the files of repositories not read yet
    def,       \* the files of pkgDef
    failed,    \* a Get of the request has failed
    blank,     \* an empty file has been in the repositories
    moved,     \* a file has been written since the catalogue was listed
    offered,   \* the keys that had the version wanted from then until the choice
    seen       \* seen[f]: what layering would have given, since repos was listed

sync == <<named, at, walk, syncs>>
index == <<keys, supported, versions>>
chosen == <<version, release>>
reading == <<repos, left, def, seen>>
vars == <<tree, kv, sync, pc, wanted, index, chosen, reading,
          failed, blank, moved, offered>>

TypeOK ==
    /\ tree \in SUBSET Path
    /\ kv \in [Repos -> [Indexes -> [Files -> Content]]]
    /\ named \in SUBSET Repos
    /\ at \in [Syncs -> Repos \cup {None}] /\ walk \in [Syncs -> SUBSET Path]
    /\ syncs \in 0 .. MaxSyncs
    /\ pc \in {"list", "exists", "meta", "repos", "read", "done", "error", "panic"}
    /\ wanted \in Versions \cup {None}
    /\ keys \in SUBSET Key /\ supported \in SUBSET Key
    /\ versions \in [Versions -> Indexes \cup {None}]
    /\ version \in Versions \cup {None} /\ release \in Indexes \cup {None}
    /\ pc \in {"repos", "read", "done"} => release \in Indexes
    /\ repos \in SUBSET Repos /\ left \in SUBSET (Repos \X Files)
    /\ def \in [Files -> Content] /\ seen \in [Files -> SUBSET Content]
    /\ failed \in BOOLEAN /\ blank \in BOOLEAN
    /\ moved \in BOOLEAN /\ offered \in SUBSET Key

\* Some repositories have been synchronised, the others have yet to be.
Init ==
    /\ tree \in Trees
    /\ named \in SUBSET Repos
    /\ \E text \in Texts, name \in [Indexes -> Versions \cup {Empty, Malformed}] :
         /\ \A i \in Indexes : name[i] \in Names[i]
         /\ kv = [r \in Repos |-> [i \in Indexes |-> [f \in Files |->
                     IF r \notin named \/ <<r, i, f>> \notin tree THEN Absent
                     ELSE IF f = PackageJson THEN name[i] ELSE text]]]
    /\ at = [s \in Syncs |-> None] /\ walk = [s \in Syncs |-> {}]
    /\ syncs = 0
    /\ pc = "list" /\ wanted \in Wanted
    /\ keys = {} /\ supported = {}
    /\ versions = [v \in Versions |-> None]
    /\ version = None /\ release = None
    /\ repos = {} /\ left = {}
    /\ def = [f \in Files |-> Absent] /\ seen = [f \in Files |-> {}]
    /\ failed = FALSE /\ moved = FALSE /\ offered = {}
    /\ blank = \E r \in Repos, i \in Indexes, f \in Files : kv[r][i][f] = Empty

-----------------------------------------------------------------------------
(* Orders.                                                                 *)

\* The place of a number of at most two digits among such numbers sorted as
\* strings: 0, 1, 10, 11, ..., 19, 2, 20, ...
Rank(n) == IF n < 10 THEN 11 * n ELSE 11 * (n \div 10) + (n % 10) + 1

Upto(a, b) == a[1] < b[1] \/ (a[1] = b[1] /\ a[2] <= b[2])

KeyRank(k) == <<Rank(k[1]), Rank(k[2])>>

\* packageKeys: by repository, then by version directory, both as strings.
NextKey(k) ==
    k \in keys /\ \A l \in keys : Upto(KeyRank(k), KeyRank(l))

\* NOT THE CODE: repositories from the highest to the lowest.
DescendingFile(x) ==
    x \in left /\ \A y \in left : Upto(<<y[1], Turn[x[2]]>>, <<x[1], Turn[y[2]]>>)

\* GetPackageDefinition: by repository, as integers, then file by file.
NextFile(x) ==
    x \in left /\ \A y \in left : Upto(<<x[1], Turn[x[2]]>>, <<y[1], Turn[y[2]]>>)

\* What the layering of repositories rs gives for file f of directory i: the
\* content in the highest repository that has one.
Holding(store, rs, i, f) == {r \in rs : HasData(store[r][i][f])}
Layered(store, rs, i, f) ==
    IF Holding(store, rs, i, f) = {} THEN {Absent}
    ELSE {store[r][i][f] : r \in {h \in Holding(store, rs, i, f) :
                                    \A q \in Holding(store, rs, i, f) : q <= h}}

-----------------------------------------------------------------------------
(* A synchronisation, as far as a reader of Consul can tell: it writes the *)
(* files of one repository in the order of the walk, and never removes one.*)

Begin(s) ==
    /\ at[s] = None /\ syncs < MaxSyncs
    /\ \E r \in Repos :
         /\ at' = [at EXCEPT ![s] = r]
         /\ walk' = [walk EXCEPT ![s] = {x \in tree : x[1] = r}]
    /\ syncs' = syncs + 1
    /\ UNCHANGED <<tree, kv, named, pc, wanted, index, chosen, reading,
                   failed, blank, moved, offered>>

\* NOT THE CODE: the files are written in no particular order.
AnyOrder(s, x) == x \in walk[s]

InHand(s, x) ==
    x \in walk[s] /\ \A y \in walk[s] : Upto(<<Rank(x[2]), x[3]>>, <<Rank(y[2]), y[3]>>)

addSourceArtifact(s) ==
    /\ \E x \in walk[s] : \E c \in Contents(x) :
         /\ InHand(s, x)
         /\ walk' = [walk EXCEPT ![s] = @ \ {x}]
         /\ kv' = [kv EXCEPT ![x[1]][x[2]][x[3]] = c]
         /\ blank' = (blank \/ c = Empty)
    /\ moved' = TRUE
    /\ offered' = {k \in offered : pc \in {"exists", "meta"} => Has(kv', k, wanted)}
    /\ seen' = IF pc = "read"
               THEN [f \in Files |-> seen[f] \cup Layered(kv', repos, release, f)]
               ELSE seen
    /\ UNCHANGED <<tree, named, at, syncs, pc, wanted, index, chosen,
                   repos, left, def, failed>>

\* NOT THE CODE: the name is written as soon as the synchronisation begins.
NameAtOnce(s) ==
    /\ at[s] # None
    /\ named' = named \cup {at[s]}
    /\ UNCHANGED <<tree, kv, at, walk, syncs, pc, wanted, index, chosen, reading,
                   failed, blank, moved, offered>>

setName(s) ==
    /\ at[s] # None /\ walk[s] = {}
    /\ named' = named \cup {at[s]}
    /\ at' = [at EXCEPT ![s] = None]
    /\ UNCHANGED <<tree, kv, walk, syncs, pc, wanted, index, chosen, reading,
                   failed, blank, moved, offered>>

\* An error or a kill ends the process.
Die(s) ==
    /\ at[s] # None
    /\ at' = [at EXCEPT ![s] = None]
    /\ walk' = [walk EXCEPT ![s] = {}]
    /\ UNCHANGED <<tree, kv, named, syncs, pc, wanted, index, chosen, reading,
                   failed, blank, moved, offered>>

Sync(s) == Begin(s) \/ addSourceArtifact(s) \/ setName(s) \/ Die(s)

-----------------------------------------------------------------------------
(* The catalogue: getPackageByName.                                        *)

\* NewPackageCatalog: every directory that holds a file makes a key.
ListKeys ==
    /\ pc = "list"
    /\ keys' = {k \in Key : \E f \in Files : kv[k[1]][k[2]][f] # Absent}
    /\ offered' = {k \in Key : Has(kv, k, wanted)}
    /\ moved' = FALSE
    /\ pc' = "exists"
    /\ UNCHANGED <<tree, kv, sync, wanted, supported, versions, chosen, reading,
                   failed, blank>>

\* keyExists of mantl.json; a failed Get counts as a missing key.
LookForMantlJson ==
    /\ pc = "exists"
    /\ \E k \in keys :
         /\ NextKey(k)
         /\ \/ /\ supported' = IF kv[k[1]][k[2]][MantlJson] # Absent
                               THEN supported \cup {k} ELSE supported
               /\ UNCHANGED failed
            \/ UNCHANGED supported /\ failed' = TRUE
    /\ pc' = "meta"
    /\ UNCHANGED <<tree, kv, sync, wanted, keys, versions, chosen, reading,
                   blank, moved, offered>>

\* packageMeta: a version without a readable package.json is left out, and
\* so is one whose Get fails.  A later key replaces the version of that name.
ReadMeta ==
    /\ pc = "meta"
    /\ \E k \in keys :
         /\ NextKey(k)
         /\ \/ /\ kv[k[1]][k[2]][PackageJson] # Malformed
               /\ versions' = [v \in Versions |->
                     IF v = kv[k[1]][k[2]][PackageJson] THEN k[2] ELSE versions[v]]
               /\ UNCHANGED failed
            \/ UNCHANGED versions /\ failed' = TRUE
         /\ keys' = keys \ {k}
    /\ pc' = "exists"
    /\ UNCHANGED <<tree, kv, sync, wanted, supported, chosen, reading,
                   blank, moved, offered>>

\* A field of package.json has another type than the code asserts.
MetaPanics ==
    /\ pc = "meta"
    /\ \E k \in keys : NextKey(k) /\ kv[k[1]][k[2]][PackageJson] = Malformed
    /\ pc' = "panic"
    /\ UNCHANGED <<tree, kv, sync, wanted, index, chosen, reading,
                   failed, blank, moved, offered>>

Listed == {v \in Versions : versions[v] # None}
SupportedListed == {v \in Listed : \E k \in supported : k[2] = versions[v]}

\* NOT THE CODE: the order of packageVersionByMostRecent the other way round.
LeastRecent(vs) ==
    {v \in vs : \A w \in vs : Rank(versions[v]) <= Rank(versions[w])}

\* The first of vs by packageVersionByMostRecent, which compares strings.
MostRecent(vs) ==
    {v \in vs : \A w \in vs : Rank(versions[w]) <= Rank(versions[v])}

\* pkg.CurrentVersion: of the last supported key that has a version.
CurrentVersion ==
    LET marked == {k \in supported : \E v \in Listed : versions[v] = k[2]}
        last(k) == \A l \in marked : Upto(KeyRank(l), KeyRank(k))
    IN  IF marked = {} THEN MostRecent(Listed)
        ELSE {v \in Listed : \E k \in marked : last(k) /\ versions[v] = k[2]}

\* NOT THE CODE: the current version goes before the one asked for.
FindCurrentVersion(v) ==
    IF CurrentVersion # {} THEN CurrentVersion ELSE Listed \cap {v}

FindPackageVersion(v) ==
    IF v \in Listed THEN {v}
    ELSE IF CurrentVersion # {} THEN CurrentVersion
    ELSE IF SupportedListed # {} THEN MostRecent(SupportedListed)
    ELSE MostRecent(Listed)

\* NOT THE CODE: a package of which no version is known is gone on with.
ChooseUnchecked ==
    /\ pc = "exists" /\ keys = {}
    /\ IF FindPackageVersion(wanted) = {} THEN UNCHANGED chosen
       ELSE \E v \in FindPackageVersion(wanted) :
              version' = v /\ release' = versions[v]
    /\ pc' = "repos"
    /\ UNCHANGED <<tree, kv, sync, wanted, index, reading,
                   failed, blank, moved, offered>>

Choose ==
    /\ pc = "exists" /\ keys = {}
    /\ \E v \in FindPackageVersion(wanted) :
         version' = v /\ release' = versions[v]
    /\ pc' = "repos"
    /\ UNCHANGED <<tree, kv, sync, wanted, index, reading,
                   failed, blank, moved, offered>>

\* No such package, or no installable version of it.
NotFound ==
    /\ pc = "exists" /\ keys = {} /\ FindPackageVersion(wanted) = {}
    /\ pc' = "error"
    /\ UNCHANGED <<tree, kv, sync, wanted, index, chosen, reading,
                   failed, blank, moved, offered>>

-----------------------------------------------------------------------------
(* The files: the rest of GetPackageDefinition.                            *)

\* Repositories that hold a file of the package; others have further ones.
Present == {r \in Repos : \E i \in Indexes, f \in Files : kv[r][i][f] # Absent}

StartReading(rs) ==
    /\ pc = "repos"
    /\ repos' = rs
    /\ left' = rs \X Files
    /\ seen' = [f \in Files |-> Layered(kv, rs, release, f)]
    /\ pc' = "read"

\* NOT THE CODE: a repository without a name is skipped.
SkipNameless ==
    /\ StartReading(named)
    /\ UNCHANGED <<tree, kv, sync, wanted, index, chosen, def,
                   failed, blank, moved, offered>>

\* A repository whose name is missing is kept, with an empty name.
getRepositories ==
    /\ \E rs \in SUBSET Repos : Present \subseteq rs /\ StartReading(rs)
    /\ UNCHANGED <<tree, kv, sync, wanted, index, chosen, def,
                   failed, blank, moved, offered>>

\* The Get of a name fails, and the repository is skipped.
NameFails ==
    /\ \E rs \in SUBSET Repos : rs # Repos /\ StartReading(rs)
    /\ failed' = TRUE
    /\ UNCHANGED <<tree, kv, sync, wanted, index, chosen, def,
                   blank, moved, offered>>

\* A file without data leaves what a lower repository gave.
Override(f, c) == IF HasData(c) THEN c ELSE def[f]

\* getPackageDefinitionFile: a failed Get counts as an absent file.
ReadFile ==
    /\ pc = "read"
    /\ \E x \in left :
         /\ NextFile(x)
         /\ left' = left \ {x}
         /\ \/ /\ def' = [def EXCEPT ![x[2]] =
                              Override(x[2], kv[x[1]][release][x[2]])]
               /\ UNCHANGED failed
            \/ UNCHANGED def /\ failed' = TRUE
    /\ UNCHANGED <<tree, kv, sync, pc, wanted, index, chosen, repos, seen,
                   blank, moved, offered>>

Return ==
    /\ pc = "read" /\ left = {}
    /\ pc' = "done"
    /\ UNCHANGED <<tree, kv, sync, wanted, index, chosen, reading,
                   failed, blank, moved, offered>>

\* MergedConfig returns an error, or panics when mantl.json is null.
MergeFails ==
    /\ pc = "read" /\ left = {}
    /\ pc' \in {"error", "panic"}
    /\ UNCHANGED <<tree, kv, sync, wanted, index, chosen, reading,
                   failed, blank, moved, offered>>

\* The keys of the catalogue, or of the repositories, cannot be listed.
KeysFail ==
    /\ pc \in {"list", "repos"}
    /\ pc' = "error"
    /\ UNCHANGED <<tree, kv, sync, wanted, index, chosen, reading,
                   failed, blank, moved, offered>>

GetPackageDefinition ==
    \/ ListKeys \/ LookForMantlJson \/ ReadMeta \/ MetaPanics \/ Choose \/ NotFound
    \/ getRepositories \/ NameFails \/ ReadFile \/ Return \/ MergeFails \/ KeysFail

Next == GetPackageDefinition \/ \E s \in Syncs : Sync(s)

Spec == Init /\ [][Next]_vars

-----------------------------------------------------------------------------
(* Each file of a definition is the one that the layering of the listed    *)
(* repositories (higher indexes first) gave at some moment while they were *)
(* read, although they are read one after another and written meanwhile;   *)
(* unless a Get failed or an empty file was about.                         *)
FilesWereCurrent ==
    pc = "done" /\ ~failed /\ ~blank => \A f \in Files : def[f] \in seen[f]

(* A definition of a version that the catalogue calls supported comes with *)
(* a mantl.json, without which the user's configuration is ignored: the    *)
(* repository seen by the catalogue is not missed by the second reading.   *)
SupportedHasOptions ==
    pc = "done" /\ ~failed /\ ~blank /\ (\E k \in supported : k[2] = release)
        => def[MantlJson] # Absent

(* A version can be installed as soon as the catalogue lists it: with its  *)
(* package.json, the files that the walk of a synchronisation meets before *)
(* it are in Consul too.  (uninstall.json comes after it, and a definition *)
(* read during the first synchronisation may lack it.)                     *)
ListedIsComplete ==
    pc = "done" /\ ~failed /\ ~blank =>
        \E r \in Repos :
            /\ <<r, release, PackageJson>> \in tree
            /\ \A f \in Files : f < PackageJson /\ <<r, release, f>> \in tree
                                    => def[f] # Absent

(* A request for a version that was in the repositories when the catalogue *)
(* was listed, and was not renamed before the choice, gets that version,   *)
(* whatever else is written meanwhile.                                     *)
RequestHonoured ==
    pc = "done" /\ ~failed /\ offered # {} => version = wanted

Offers(i) == \E r \in Repos : kv[r][i][PackageJson] \in Versions
Marked == {k \in Key : kv[k[1]][k[2]][MantlJson] # Absent /\ Offers(k[2])}
OwnNames == \A v \in Versions : \A k, l \in Key : Has(kv, k, v) /\ Has(kv, l, v) => k[2] = l[2]

(* A request that names no known version gets the newest one that the      *)
(* highest repository with a mantl.json marks as supported, or, where none *)
(* is marked, the newest of all; newest by number.  For repositories that  *)
(* nobody writes meanwhile, where no two directories are of one version.   *)
NewestChosen ==
    pc = "repos" /\ ~moved /\ ~failed /\ offered = {} /\ OwnNames =>
        IF Marked = {} THEN \A i \in Indexes : Offers(i) => i <= release
        ELSE \E k \in Marked : k[2] = release /\ \A l \in Marked : Upto(l, k)

\* The order in which a walk meets the files of a repository.
File == Indexes \X Files
WalkOrder ==
    {x \in File \X File : /\ x[1] # x[2]
                          /\ Upto(<<Rank(x[1][1]), x[1][2]>>, <<Rank(x[2][1]), x[2][2]>>)}

Readers == INSTANCE Repositories WITH
    Sources <- Repos, Index <- [r \in Repos |-> r], Files <- File, Before <- WalkOrder,
    lasting <- [r \in Repos |-> {x \in File : <<r, x[1], x[2]>> \in tree}],
    held <- [r \in Repos |-> {x \in File : kv[r][x[1]][x[2]] # Absent}],
    name <- [r \in Repos |-> IF r \in named THEN r ELSE None],
    stamped <- {}

(* What the request reads are repositories as synchronisations leave them: *)
(* the writes of this module keep the promise that those of SourceSync     *)
(* keep, file by file and name after files, through crashes and overlaps.  *)
RepositoriesSpec == Readers!Spec
=============================================================================
