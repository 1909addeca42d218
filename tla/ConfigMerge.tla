---------------------------- MODULE ConfigMerge ----------------------------
(***************************************************************************)
(* The configuration a package is rendered with (MergedConfig, Options and *)
(* mergeConfig in src/install/package.go): the defaults of config.json,    *)
(* over them mantl.json, over it what the client asks for and over all of  *)
(* it apiConfig, a global of the process.  mergeConfig overwrites a map in *)
(* place and copies references, so a part of one layer may come to hang in *)
(* another, and one installation merges four times.  Requests are served   *)
(* concurrently and nothing locks the global.                              *)
(*                                                                         *)
(* A map is named by the layer it came from and the field it stands at.    *)
(* Of the fields the model has those apiConfig bears upon, and one it does *)
(* not.  given and merged are history variables.                           *)
(***************************************************************************)
EXTENDS Naturals

CONSTANTS
    Requests,  \* the installations under way
    Shapes,    \* Shapes[o]: what the file or client behind layer o may say
    Api,       \* the layer of apiConfig
    Nobody     \* no layer

Fields == {"mantl", "balancer", "zookeeper", "hosts"}
Levels == {"root", "mantl", "zookeeper"}
Parent == [mantl |-> "root", balancer |-> "mantl", zookeeper |-> "mantl",
           hosts |-> "zookeeper"]
Depth == [mantl |-> 1, balancer |-> 2, zookeeper |-> 2, hosts |-> 3]
Path == [mantl |-> {"mantl"}, balancer |-> {"mantl", "balancer"},
         zookeeper |-> {"mantl", "zookeeper"},
         hosts |-> {"mantl", "zookeeper", "hosts"}]

Layer == {"user", "mantl.json", "config.json"}
User(r) == <<r, "user">>
MantlJson(r) == <<r, "mantl.json">>
ConfigJson(r) == <<r, "config.json">>
Owner == {Api} \cup (Requests \X Layer)

\* A document: what stands at each field, below maps only.
Shape == {s \in [Fields -> {"absent", "value", "map"}] :
            /\ s["balancer"] # "map" /\ s["hosts"] # "map"
            /\ \A k \in Fields \ {"mantl"} :
                 s[Parent[k]] # "map" => s[k] = "absent"}

ApiShape == [mantl |-> "map", balancer |-> "absent", zookeeper |-> "map",
             hosts |-> "value"]

ASSUME ShapesAssumption == Shapes \in [Requests \X Layer -> SUBSET Shape]
ASSUME ApiAssumption == Api \notin Requests \X Layer /\ Nobody \notin Owner

\* The calls of MergedConfig in one InstallPackage: GetPackageDefinition,
\* MarathonAppJson, UninstallJson, LoadBalancer.
Passes == 4

VARIABLES
    given,      \* given[o]: the fields of layer o as they were first read
    supported,  \* supported[r]: whether the package of r has a mantl.json
    maps,       \* maps[o]: the fields of the maps of layer o
    pc,         \* pc[r]: the layer that r is merging, or "idle"
    round,      \* round[r]: the passes r has done
    keys,       \* keys[r]: the keys the running calls of mergeConfig have left
    into,       \* into[r][l]: the map at level l that is overwritten ...
    over,       \* over[r][l]: ... and the one it is overwritten with
    merged,     \* merged[r]: the configurations r has been given
    crashed     \* whether the runtime has ended the process

calls == <<pc, round, keys, into, over>>
vars == <<given, supported, maps, calls, merged, crashed>>

Value == [from : Owner \cup {Nobody}, map : BOOLEAN]
Absent == [from |-> Nobody, map |-> FALSE]

TypeOK ==
    /\ given \in [Owner -> [Fields -> Value]]
    /\ maps \in [Owner -> [Fields -> Value]]
    /\ supported \in [Requests -> BOOLEAN]
    /\ pc \in [Requests -> {"idle", "user", "api", "config"}]
    /\ round \in [Requests -> 0 .. Passes]
    /\ keys \in [Requests -> SUBSET Fields]
    /\ into \in [Requests -> [Levels -> Owner]]
    /\ over \in [Requests -> [Levels -> Owner]]
    /\ merged \in [Requests -> SUBSET [Fields -> Value]]
    /\ crashed \in BOOLEAN

Says(o, s) ==
    [k \in Fields |-> IF s[k] = "absent" THEN Absent
                      ELSE [from |-> o, map |-> s[k] = "map"]]

Init ==
    /\ \E shape \in [Requests \X Layer -> Shape] :
         /\ \A o \in Requests \X Layer : shape[o] \in Shapes[o]
         /\ given = [o \in Owner |-> Says(o, IF o = Api THEN ApiShape ELSE shape[o])]
    /\ supported \in [Requests -> BOOLEAN]
    /\ maps = given
    /\ pc = [r \in Requests |-> "idle"]
    /\ round = [r \in Requests |-> 0]
    /\ keys = [r \in Requests |-> {}]
    /\ into = [r \in Requests |-> [l \in Levels |-> MantlJson(r)]]
    /\ over = [r \in Requests |-> [l \in Levels |-> User(r)]]
    /\ merged = [r \in Requests |-> {}]
    /\ crashed = FALSE

\* The keys of the map of layer o at level l.
Keys(o, l) == {k \in Fields : Parent[k] = l /\ maps[o][k] # Absent}

\* NOT THE CODE: the API has its say before the user.
MergeSwapped(r, phase, a, b) ==
    LET first == IF phase = "user" THEN Api
                 ELSE IF phase = "api" THEN User(r) ELSE b
    IN /\ pc' = [pc EXCEPT ![r] = phase]
       /\ keys' = [keys EXCEPT ![r] = Keys(first, "root")]
       /\ into' = [into EXCEPT ![r]["root"] = a]
       /\ over' = [over EXCEPT ![r]["root"] = first]

\* mergeConfig(a, b, schema) is called for the layer that phase names.
Merge(r, phase, a, b) ==
    /\ pc' = [pc EXCEPT ![r] = phase]
    /\ keys' = [keys EXCEPT ![r] = Keys(b, "root")]
    /\ into' = [into EXCEPT ![r]["root"] = a]
    /\ over' = [over EXCEPT ![r]["root"] = b]

-----------------------------------------------------------------------------
\* NOT THE CODE: mantl.json is decoded once for all passes.
DecodeOnce(r) ==
    IF round[r] = 0
    THEN maps' = [maps EXCEPT ![MantlJson(r)] = given[MantlJson(r)],
                              ![ConfigJson(r)] = given[ConfigJson(r)]]
    ELSE maps' = [maps EXCEPT ![ConfigJson(r)] = given[ConfigJson(r)]]

\* Every pass decodes the two files anew.
Decode(r) ==
    maps' = [maps EXCEPT ![MantlJson(r)] = given[MantlJson(r)],
                         ![ConfigJson(r)] = given[ConfigJson(r)]]

\* Without a mantl.json neither the user nor the API has a say.
MergedConfig(r) ==
    /\ ~crashed /\ pc[r] = "idle" /\ round[r] < Passes
    /\ Decode(r)
    /\ IF supported[r] THEN Merge(r, "user", MantlJson(r), User(r))
       ELSE /\ pc' = [pc EXCEPT ![r] = "config"]
            /\ UNCHANGED <<keys, into, over>>
    /\ UNCHANGED <<given, supported, round, merged, crashed>>

\* The next key of the innermost call: a Go map has no order.
IsNext(r, k) == k \in keys[r] /\ \A j \in keys[r] : Depth[j] <= Depth[k]

\* NOT THE CODE: the type of the configured value is not looked at.
BothMapsUnchecked(c, v) == v.map

\* NOT THE CODE: a map replaces a map.
NeverBoth(c, v) == FALSE

BothMaps(c, v) == c.map /\ v.map

\* mergeConfig with its next key, where both sides have a map: a call for
\* these maps begins.
Descend(r) ==
    /\ ~crashed
    /\ \E k \in Fields :
         LET c == maps[into[r][Parent[k]]][k]
             v == maps[over[r][Parent[k]]][k]
         IN /\ IsNext(r, k)
            /\ BothMaps(c, v)
            /\ keys' = [keys EXCEPT ![r] = (@ \ {k}) \cup Keys(v.from, k)]
            /\ into' = [into EXCEPT ![r][k] = c.from]
            /\ over' = [over EXCEPT ![r][k] = v.from]
    /\ UNCHANGED <<given, supported, maps, pc, round, merged, crashed>>

\* And where they do not: a map is not copied, but shared from now on.
Assign(r) ==
    /\ ~crashed
    /\ \E k \in Fields :
         LET c == maps[into[r][Parent[k]]][k]
             v == maps[over[r][Parent[k]]][k]
         IN /\ IsNext(r, k)
            /\ ~BothMaps(c, v)
            /\ maps' = [maps EXCEPT ![into[r][Parent[k]]][k] = v]
            /\ keys' = [keys EXCEPT ![r] = @ \ {k}]
    /\ UNCHANGED <<given, supported, pc, round, into, over, merged, crashed>>

-----------------------------------------------------------------------------
\* Options returns, and MergedConfig after it.
Options(r) ==
    /\ ~crashed /\ keys[r] = {}
    /\ \/ pc[r] = "user" /\ Merge(r, "api", MantlJson(r), Api)
       \/ pc[r] = "api" /\ Merge(r, "config", ConfigJson(r), MantlJson(r))
    /\ UNCHANGED <<given, supported, maps, round, merged, crashed>>

\* What a template finds: the layer of a value, and no more than that it is
\* one of a map.
Seen(o) ==
    LET m == maps[o]["mantl"]
        z == maps[m.from]["zookeeper"]
        Plain(v) == IF v.map THEN [from |-> Nobody, map |-> TRUE] ELSE v
        Below(v, k) == IF v.map THEN Plain(maps[v.from][k]) ELSE Absent
    IN [k \in Fields |->
          IF k = "mantl" THEN Plain(m)
          ELSE IF k # "hosts" THEN Below(m, k)
          ELSE IF m.map THEN Below(z, k) ELSE Absent]

Return(r) ==
    /\ ~crashed /\ pc[r] = "config" /\ keys[r] = {}
    /\ merged' = [merged EXCEPT ![r] = @ \cup {Seen(ConfigJson(r))}]
    /\ pc' = [pc EXCEPT ![r] = "idle"]
    /\ round' = [round EXCEPT ![r] = @ + 1]
    /\ UNCHANGED <<given, supported, maps, keys, into, over, crashed>>

\* r is about to write a map of apiConfig.
WritesShared(r) == \E k \in Fields : IsNext(r, k) /\ into[r][Parent[k]] = Api

\* Every pass reads apiConfig, for the templates and for zookeeperHosts; the
\* Go runtime ends a process in which it finds one goroutine writing a map
\* that another is using.
Collide(r) ==
    /\ ~crashed
    /\ WritesShared(r)
    /\ \E q \in Requests \ {r} : pc[q] # "idle"
    /\ crashed' = TRUE
    /\ UNCHANGED <<given, supported, maps, calls, merged>>

-----------------------------------------------------------------------------
mergeConfig(r) == Descend(r) \/ Assign(r)

Next ==
    \E r \in Requests :
        MergedConfig(r) \/ mergeConfig(r) \/ Options(r) \/ Return(r) \/ Collide(r)

Spec == Init /\ [][Next]_vars

-----------------------------------------------------------------------------
\* One document over another, as values: where both have maps all the way
\* they are merged, else what is above replaces what is below.
Over(below, above) ==
    [k \in Fields |->
       LET Apart == {a \in Path[k] : ~(below[a].map /\ above[a].map)}
       IN IF Apart = {} THEN [from |-> Nobody, map |-> TRUE]
          ELSE IF \E a \in Apart : /\ \A b \in Apart : Depth[a] <= Depth[b]
                                   /\ above[a] = Absent
               THEN below[k] ELSE above[k]]

Asked(r) ==
    Over(Over(given[MantlJson(r)], given[User(r)]), given[Api])

(* All four passes of an installation yield the same configuration, that   *)
(* of the layers laid over each other as documents: what the earlier       *)
(* passes have left hanging in the client's maps and in apiConfig changes  *)
(* nothing for the templates, the labels and the load balancer.            *)
MergedAsLayered ==
    \A r \in Requests : \A m \in merged[r] :
        \A k \in Fields :
            LET l == IF supported[r] THEN Over(given[ConfigJson(r)], Asked(r))
                     ELSE given[ConfigJson(r)]
            IN /\ m[k].map = l[k].map
               /\ ~m[k].map => m[k] = l[k]

(* No installation leaves anything of its client's or its package's in the *)
(* configuration that all later ones share.                                *)
ApiIntact == maps[Api] = given[Api]

\* The client gives mantl as a map, and mantl.json does not.
Overlays(r) ==
    supported[r] /\ given[User(r)]["mantl"].map
                 /\ ~given[MantlJson(r)]["mantl"].map

(* apiConfig is written, with what it holds already, for such a client     *)
(* alone, and not before the second pass: only then can installations that *)
(* run at the same time bring the process down.                            *)
SharedWrites ==
    /\ \A r \in Requests : WritesShared(r) => Overlays(r) /\ round[r] > 0
    /\ crashed => \E r \in Requests : Overlays(r)
=============================================================================
