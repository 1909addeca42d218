------------------------- MODULE ConfigMergeProofs -------------------------
(***************************************************************************)
(* Proofs about ConfigMerge for any number of concurrent installations.    *)
(*                                                                         *)
(* What has to be known is where a map may hang.  A key that a call of     *)
(* mergeConfig has not come to, or that lies below one it has not come to, *)
(* is pending, and at pending keys the freshly decoded files still hold    *)
(* nothing but their own maps: so the user and the defaults are merged     *)
(* into fresh maps only, and a call that writes apiConfig also reads from  *)
(* it.                                                                     *)
(*                                                                         *)
(* The second part is about what the merges yield: the values that the     *)
(* maps hold at each moment of a pass, and those of the documents laid     *)
(* over each other.                                                        *)
(***************************************************************************)
EXTENDS ConfigMerge, TLAPS

\* Somewhere on the way to k is a key that r has not come to.
Pending(r, k) == \E a \in Path[k] : a \in keys[r]

ApiRef(v) == v.map /\ v.from = Api

\* A client that overlays, in a later pass than the first.
Tainted(r) == Overlays(r) /\ round[r] > 0

GivenInv ==
    /\ given \in [Owner -> [Fields -> Value]]
    /\ \A o \in Owner : \A k \in Fields : given[o][k].map => given[o][k].from = o
    /\ ~given[Api]["hosts"].map /\ ~given[Api]["balancer"].map

\* Where the maps of the layers of r may lead.
Refs(r) ==
    \A k \in Fields :
        /\ maps[User(r)][k].map => maps[User(r)][k].from \in {User(r), Api}
        /\ maps[MantlJson(r)][k].map
             => maps[MantlJson(r)][k].from \in {MantlJson(r), User(r), Api}
        /\ maps[ConfigJson(r)][k].map => maps[ConfigJson(r)][k].from \in Owner

Nest(r) == \A a, b \in keys[r] : a \in Path[b] => a = b

UserPhase(r) ==
    pc[r] = "user" =>
        /\ supported[r]
        /\ maps[ConfigJson(r)] = given[ConfigJson(r)]
        /\ \A k \in keys[r] : /\ into[r][Parent[k]] = MantlJson(r)
                              /\ over[r][Parent[k]] \in {User(r), Api}
                              /\ over[r][Parent[k]] = Api => Tainted(r)
        /\ "mantl" \in keys[r] => over[r]["root"] = User(r)
        /\ \A k \in Fields : Pending(r, k) =>
             maps[MantlJson(r)][k] = given[MantlJson(r)][k]
        /\ \A k \in Fields : ApiRef(maps[MantlJson(r)][k]) => Tainted(r)

ApiPhase(r) ==
    pc[r] = "api" =>
        /\ supported[r]
        /\ maps[ConfigJson(r)] = given[ConfigJson(r)]
        /\ \A k \in keys[r] : /\ over[r][Parent[k]] = Api
                              /\ into[r][Parent[k]] \in {MantlJson(r), User(r), Api}
                              /\ into[r][Parent[k]] = Api => Tainted(r)
        /\ "mantl" \in keys[r] => into[r]["root"] = MantlJson(r)
        /\ "zookeeper" \in keys[r] /\ into[r]["mantl"] = User(r) => Overlays(r)
        /\ \A k \in Fields : Pending(r, k) =>
             /\ ApiRef(maps[MantlJson(r)][k]) => Tainted(r)
             /\ ApiRef(maps[User(r)][k]) => Tainted(r)

ConfigPhase(r) ==
    pc[r] = "config" =>
        /\ \A k \in keys[r] : into[r][Parent[k]] = ConfigJson(r)
        /\ \A k \in Fields : Pending(r, k) =>
             maps[ConfigJson(r)][k] = given[ConfigJson(r)][k]

\* How apiConfig comes to hang in a client's maps.
UserMaps(r) ==
    /\ maps[User(r)]["mantl"] = given[User(r)]["mantl"]
    /\ \A k \in Fields : ApiRef(maps[User(r)][k]) =>
         Overlays(r) /\ (round[r] > 0 \/ pc[r] \in {"api", "config"})
    /\ pc[r] \in {"user", "api"} /\ maps[MantlJson(r)]["mantl"].map
         /\ maps[MantlJson(r)]["mantl"].from = User(r) => Overlays(r)

Local(r) ==
    /\ Refs(r) /\ Nest(r)
    /\ IF pc[r] = "idle" THEN keys[r] = {} ELSE round[r] < Passes
    /\ UserPhase(r) /\ ApiPhase(r) /\ ConfigPhase(r) /\ UserMaps(r)

IInv ==
    /\ TypeOK /\ GivenInv /\ ApiIntact
    /\ \A r \in Requests : Local(r)
    /\ crashed => \E r \in Requests : Overlays(r)

-----------------------------------------------------------------------------
(* The layers of an installation are its own, and none is apiConfig.       *)
LEMMA Names ==
    ASSUME NEW r \in Requests
    PROVE  /\ User(r) \in Owner /\ MantlJson(r) \in Owner /\ ConfigJson(r) \in Owner
           /\ User(r) # Api /\ MantlJson(r) # Api /\ ConfigJson(r) # Api
           /\ User(r) # MantlJson(r) /\ User(r) # ConfigJson(r)
           /\ MantlJson(r) # ConfigJson(r)
BY ApiAssumption DEF Owner, Layer, User, MantlJson, ConfigJson

(* Two installations share no layer but apiConfig.                         *)
LEMMA Apart ==
    ASSUME NEW r \in Requests, NEW q \in Requests \ {r}
    PROVE  {User(q), MantlJson(q), ConfigJson(q)} \cap
           {User(r), MantlJson(r), ConfigJson(r), Api} = {}
BY ApiAssumption DEF Owner, Layer, User, MantlJson, ConfigJson

(* Every layer is apiConfig or one of an installation.                     *)
LEMMA Owners ==
    ASSUME NEW o \in Owner, o # Api
    PROVE  \E r \in Requests : o \in {User(r), MantlJson(r), ConfigJson(r)}
BY DEF Owner, Layer, User, MantlJson, ConfigJson

(* The shape of the documents.                                             *)
LEMMA FieldFacts ==
    /\ \A k \in Fields : /\ Parent[k] \in Levels /\ Depth[k] \in Nat
                         /\ Path[k] \subseteq Fields /\ k \in Path[k]
                         /\ Parent[k] = "root" <=> k = "mantl"
                         /\ Parent[k] # k
    /\ \A j, k \in Fields : Parent[j] = k =>
         Depth[k] < Depth[j] /\ Path[j] = Path[k] \cup {j}
    /\ \A a, k \in Fields : a \in Path[k] =>
         /\ a = k \/ Depth[a] < Depth[k]
         /\ Path[a] \subseteq Path[k]
    /\ \A k \in Fields : "mantl" \in Path[k]
BY DEF Fields, Levels, Parent, Depth, Path

LEMMA ApiInOwner == Api \in Owner
BY DEF Owner

(* The initial states are well typed and satisfy the invariant.            *)
LEMMA InitInv == Init => IInv
<1> SUFFICES ASSUME Init PROVE IInv
  OBVIOUS
<1>1. PICK shape \in [Requests \X Layer -> Shape] :
        given = [o \in Owner |-> Says(o, IF o = Api THEN ApiShape ELSE shape[o])]
  BY DEF Init
<1>2. \A o \in Owner : \A k \in Fields :
        /\ given[o][k] \in Value
        /\ given[o][k].map => given[o][k].from = o
  BY <1>1 DEF Says, Value, Absent
<1>3. given \in [Owner -> [Fields -> Value]]
  <2>1. ASSUME NEW o \in Owner
        PROVE  given[o] \in [Fields -> Value]
    <3>1. given[o] = Says(o, IF o = Api THEN ApiShape ELSE shape[o])
      BY <1>1
    <3>2. given[o] = [k \in Fields |-> given[o][k]]
      BY <3>1 DEF Says
    <3> QED BY <1>2, <3>2
  <2>2. given = [o \in Owner |-> given[o]]
    BY <1>1
  <2> QED BY <2>1, <2>2
<1>4. ~given[Api]["hosts"].map /\ ~given[Api]["balancer"].map
  BY <1>1, ApiInOwner DEF Says, ApiShape, Absent, Fields
<1>5. GivenInv
  BY <1>2, <1>3, <1>4 DEF GivenInv
<1>6. TypeOK
  <2>1. /\ into \in [Requests -> [Levels -> Owner]]
        /\ over \in [Requests -> [Levels -> Owner]]
    BY Names DEF Init
  <2>2. round \in [Requests -> 0 .. Passes]
    BY DEF Init, Passes
  <2>3. /\ keys \in [Requests -> SUBSET Fields]
        /\ pc \in [Requests -> {"idle", "user", "api", "config"}]
    BY DEF Init
  <2>4. merged \in [Requests -> SUBSET [Fields -> Value]]
    BY Zenon DEF Init
  <2> QED BY <1>3, <2>1, <2>2, <2>3, <2>4 DEF TypeOK, Init
<1>7. ASSUME NEW r \in Requests
      PROVE  Local(r)
  <2>1. Refs(r)
    BY <1>2, Names DEF Init, Refs
  <2>2. UserMaps(r)
    BY <1>2, Names DEF Init, UserMaps, ApiRef, Fields
  <2> QED
    BY <2>1, <2>2 DEF Init, Local, Nest, UserPhase, ApiPhase, ConfigPhase
<1> QED
  BY <1>5, <1>6, <1>7 DEF Init, IInv, ApiIntact

-----------------------------------------------------------------------------
(* Every step keeps the types.                                             *)
LEMMA Typed ==
    ASSUME IInv
    PROVE  \A o \in Owner : \A k \in Fields :
             /\ maps[o][k] \in Value
             /\ maps[o][k].map => maps[o][k].from \in Owner
<1> SUFFICES ASSUME NEW o \in Owner, NEW k \in Fields
             PROVE  /\ maps[o][k] \in Value
                    /\ maps[o][k].map => maps[o][k].from \in Owner
  OBVIOUS
<1>1. maps[o][k] \in Value
  BY DEF IInv, TypeOK
<1>2. CASE o = Api
  BY <1>1, <1>2 DEF IInv, GivenInv, ApiIntact
<1>3. CASE o # Api
  <2>1. PICK r \in Requests : o \in {User(r), MantlJson(r), ConfigJson(r)}
    BY <1>3, Owners
  <2>2. Refs(r)
    BY DEF IInv, Local
  <2> QED BY <1>1, <2>1, <2>2, Names, ApiInOwner DEF Refs
<1> QED BY <1>2, <1>3

LEMMA SeenType ==
    ASSUME IInv, NEW o \in Owner
    PROVE  Seen(o) \in [Fields -> Value]
<1> DEFINE m == maps[o]["mantl"]
           z == maps[m.from]["zookeeper"]
           Plain(v) == IF v.map THEN [from |-> Nobody, map |-> TRUE] ELSE v
           Below(v, k) == IF v.map THEN Plain(maps[v.from][k]) ELSE Absent
<1>1. \A v \in Value : Plain(v) \in Value
  BY DEF Value
<1>2. Absent \in Value
  BY DEF Absent, Value
<1>3. m \in Value /\ (m.map => m.from \in Owner)
  BY Typed DEF Fields
<1>4. \A k \in Fields : Below(m, k) \in Value
  BY <1>1, <1>2, <1>3, Typed
<1>5. m.map => z \in Value /\ (z.map => z.from \in Owner)
  BY <1>3, Typed DEF Fields
<1>6. \A k \in Fields : m.map => Below(z, k) \in Value
  BY <1>1, <1>2, <1>5, Typed
<1>7. Plain(m) \in Value
  BY <1>1, <1>3
<1> HIDE DEF m, z, Plain, Below
<1>8. Seen(o) = [k \in Fields |->
          IF k = "mantl" THEN Plain(m)
          ELSE IF k # "hosts" THEN Below(m, k)
          ELSE IF m.map THEN Below(z, k) ELSE Absent]
  BY Zenon DEF Seen, m, z, Plain, Below
<1> QED BY <1>2, <1>4, <1>6, <1>7, <1>8

(* A call of mergeConfig begins.                                           *)
LEMMA MergeType ==
    ASSUME TypeOK, NEW r \in Requests, NEW a \in Owner, NEW b \in Owner,
           NEW phase \in {"idle", "user", "api", "config"}, Merge(r, phase, a, b)
    PROVE  /\ pc' \in [Requests -> {"idle", "user", "api", "config"}]
           /\ keys' \in [Requests -> SUBSET Fields]
           /\ into' \in [Requests -> [Levels -> Owner]]
           /\ over' \in [Requests -> [Levels -> Owner]]
<1>1. Keys(b, "root") \subseteq Fields
  BY DEF Keys
<1>2. pc' \in [Requests -> {"idle", "user", "api", "config"}]
  BY DEF Merge, TypeOK
<1>3. keys' \in [Requests -> SUBSET Fields]
  BY <1>1 DEF Merge, TypeOK
<1>4. /\ into' \in [Requests -> [Levels -> Owner]]
      /\ over' \in [Requests -> [Levels -> Owner]]
  BY DEF Merge, TypeOK
<1> QED BY <1>2, <1>3, <1>4

LEMMA TypeStep == IInv /\ [Next]_vars => TypeOK'
<1> SUFFICES ASSUME IInv, [Next]_vars PROVE TypeOK'
  OBVIOUS
<1> USE FieldFacts, ApiInOwner
<1>0. TypeOK /\ GivenInv
  BY DEF IInv
<1>k. ASSUME NEW o \in Owner, NEW l PROVE Keys(o, l) \subseteq Fields
  BY DEF Keys
<1>1. ASSUME NEW r \in Requests, MergedConfig(r)
      PROVE  TypeOK'
  <2>1. maps' \in [Owner -> [Fields -> Value]]
    BY <1>0, <1>1, Names DEF MergedConfig, Decode, TypeOK
  <2>2. pc' \in [Requests -> {"idle", "user", "api", "config"}]
    <3>1. \/ pc' = [pc EXCEPT ![r] = "user"]
          \/ pc' = [pc EXCEPT ![r] = "config"]
      BY ONLY <1>1 DEF MergedConfig, Merge
    <3>2. pc \in [Requests -> {"idle", "user", "api", "config"}]
      BY ONLY <1>0 DEF TypeOK
    <3> QED BY ONLY <3>1, <3>2
  <2>3. /\ keys' \in [Requests -> SUBSET Fields]
        /\ into' \in [Requests -> [Levels -> Owner]]
        /\ over' \in [Requests -> [Levels -> Owner]]
    <3>1. CASE supported[r]
      BY <1>0, <1>1, <3>1, MergeType, Names DEF MergedConfig
    <3>2. CASE ~supported[r]
      BY <1>0, <1>1, <3>2 DEF MergedConfig, TypeOK
    <3> QED BY <3>1, <3>2
  <2> QED BY <1>0, <1>1, <2>1, <2>2, <2>3 DEF MergedConfig, TypeOK
<1>2. ASSUME NEW r \in Requests, Descend(r)
      PROVE  TypeOK'
  <2>1. PICK k \in Fields :
          LET c == maps[into[r][Parent[k]]][k]
              v == maps[over[r][Parent[k]]][k]
          IN /\ BothMaps(c, v)
             /\ keys' = [keys EXCEPT ![r] = (@ \ {k}) \cup Keys(v.from, k)]
             /\ into' = [into EXCEPT ![r][k] = c.from]
             /\ over' = [over EXCEPT ![r][k] = v.from]
    BY <1>2 DEF Descend
  <2>2. into[r][Parent[k]] \in Owner /\ over[r][Parent[k]] \in Owner
    BY <1>0 DEF TypeOK
  <2>3. /\ maps[into[r][Parent[k]]][k].from \in Owner
        /\ maps[over[r][Parent[k]]][k].from \in Owner
    BY <2>1, <2>2, Typed DEF BothMaps
  <2> QED BY <1>0, <1>2, <1>k, <2>1, <2>3 DEF Descend, TypeOK
<1>3. ASSUME NEW r \in Requests, Assign(r)
      PROVE  TypeOK'
  <2>1. PICK k \in Fields :
          /\ maps' = [maps EXCEPT ![into[r][Parent[k]]][k] = maps[over[r][Parent[k]]][k]]
          /\ keys' = [keys EXCEPT ![r] = @ \ {k}]
    BY <1>3 DEF Assign
  <2>2. into[r][Parent[k]] \in Owner /\ over[r][Parent[k]] \in Owner
    BY <1>0 DEF TypeOK
  <2> QED BY <1>0, <1>3, <2>1, <2>2 DEF Assign, TypeOK
<1>4. ASSUME NEW r \in Requests, Options(r)
      PROVE  TypeOK'
  <2>1. /\ keys' \in [Requests -> SUBSET Fields]
        /\ into' \in [Requests -> [Levels -> Owner]]
        /\ over' \in [Requests -> [Levels -> Owner]]
        /\ pc' \in [Requests -> {"idle", "user", "api", "config"}]
    BY <1>0, <1>4, MergeType, Names DEF Options
  <2> QED BY <1>0, <1>4, <2>1 DEF Options, TypeOK
<1>5. ASSUME NEW r \in Requests, Return(r)
      PROVE  TypeOK'
  <2>1. Seen(ConfigJson(r)) \in [Fields -> Value]
    BY SeenType, Names
  <2>2. merged' \in [Requests -> SUBSET [Fields -> Value]]
    <3> DEFINE seen == Seen(ConfigJson(r))
    <3>1. seen \in [Fields -> Value]
      BY <2>1
    <3>2. merged' = [merged EXCEPT ![r] = @ \cup {seen}]
      BY <1>5 DEF Return
    <3>3. merged \in [Requests -> SUBSET [Fields -> Value]]
      BY <1>0 DEF TypeOK
    <3>4. merged[r] \cup {seen} \in SUBSET [Fields -> Value]
      BY <3>1, <3>3, Zenon
    <3> HIDE DEF seen
    <3> QED BY <3>2, <3>3, <3>4, Zenon
  <2>3. round' \in [Requests -> 0 .. Passes]
    <3>1. Local(r)
      BY DEF IInv
    <3>2. round[r] \in 0 .. Passes /\ round[r] < Passes
      BY <1>0, <1>5, <3>1 DEF Local, Return, TypeOK
    <3>3. round[r] + 1 \in 0 .. Passes
      BY <3>2 DEF Passes
    <3> QED BY <1>0, <1>5, <3>3 DEF Return, TypeOK
  <2> QED BY <1>0, <1>5, <2>2, <2>3 DEF Return, TypeOK
<1>6. ASSUME NEW r \in Requests, Collide(r)
      PROVE  TypeOK'
  BY <1>0, <1>6 DEF Collide, calls, TypeOK
<1>7. CASE UNCHANGED vars
  BY <1>0, <1>7 DEF vars, calls, TypeOK
<1> QED
  BY <1>1, <1>2, <1>3, <1>4, <1>5, <1>6, <1>7 DEF Next, mergeConfig

-----------------------------------------------------------------------------
\* A step in which nothing changes but what belongs to r.
OnlyBy(r) ==
    /\ given' = given /\ supported' = supported /\ crashed' = crashed
    /\ \A q \in Requests \ {r} :
         /\ pc'[q] = pc[q] /\ round'[q] = round[q] /\ keys'[q] = keys[q]
         /\ into'[q] = into[q] /\ over'[q] = over[q]
    /\ \A o \in Owner \ {User(r), MantlJson(r), ConfigJson(r)} : maps'[o] = maps[o]

(* Such a step concerns no other installation.                             *)
LEMMA Others ==
    ASSUME IInv, NEW r \in Requests, OnlyBy(r), NEW q \in Requests \ {r}
    PROVE  Local(q)'
<1>1. Local(q)
  BY DEF IInv
<1>2. /\ maps'[User(q)] = maps[User(q)]
      /\ maps'[MantlJson(q)] = maps[MantlJson(q)]
      /\ maps'[ConfigJson(q)] = maps[ConfigJson(q)]
  BY Apart, Names DEF OnlyBy
<1>3. /\ pc'[q] = pc[q] /\ round'[q] = round[q] /\ keys'[q] = keys[q]
      /\ into'[q] = into[q] /\ over'[q] = over[q]
      /\ given' = given /\ supported' = supported
  BY DEF OnlyBy
<1>4. Refs(q)' /\ Nest(q)'
  BY <1>1, <1>2, <1>3 DEF Local, Refs, Nest
<1>5. (Overlays(q)' <=> Overlays(q)) /\ (Tainted(q)' <=> Tainted(q))
  BY <1>3 DEF Overlays, Tainted
<1>6. \A k \in Fields : Pending(q, k)' <=> Pending(q, k)
  BY <1>3 DEF Pending
<1>7. UserPhase(q)'
  BY <1>1, <1>2, <1>3, <1>5, <1>6 DEF Local, UserPhase, ApiRef
<1>8. ApiPhase(q)'
  BY <1>1, <1>2, <1>3, <1>5, <1>6 DEF Local, ApiPhase, ApiRef
<1>9. ConfigPhase(q)' /\ UserMaps(q)'
  BY <1>1, <1>2, <1>3, <1>5, <1>6 DEF Local, ConfigPhase, UserMaps, ApiRef
<1> QED
  BY <1>1, <1>3, <1>4, <1>7, <1>8, <1>9 DEF Local

LEMMA Combine ==
    ASSUME IInv, TypeOK', NEW r \in Requests, OnlyBy(r), Local(r)'
    PROVE  IInv'
<1>1. \A q \in Requests : Local(q)'
  BY Others
<1>2. ApiIntact' /\ GivenInv'
  BY Names, ApiInOwner DEF IInv, OnlyBy, ApiIntact, GivenInv
<1>3. \A q \in Requests : Overlays(q) <=> Overlays(q)'
  BY DEF OnlyBy, Overlays
<1> QED
  BY <1>1, <1>2, <1>3 DEF IInv, OnlyBy

-----------------------------------------------------------------------------
(* A pass begins with fresh maps.                                          *)
LEMMA MergedConfigStep ==
    ASSUME IInv, NEW r \in Requests, MergedConfig(r)
    PROVE  OnlyBy(r) /\ Local(r)'
<1> USE FieldFacts
<1>1. TypeOK /\ GivenInv /\ Local(r)
  BY DEF IInv
<1>2. /\ maps'[MantlJson(r)] = given[MantlJson(r)]
      /\ maps'[ConfigJson(r)] = given[ConfigJson(r)]
      /\ \A o \in Owner \ {MantlJson(r), ConfigJson(r)} : maps'[o] = maps[o]
  BY <1>1, Names DEF MergedConfig, Decode, TypeOK
<1>3. pc[r] = "idle" /\ keys[r] = {} /\ round[r] < Passes
  BY <1>1 DEF MergedConfig, Local
<1>4. /\ given' = given /\ supported' = supported /\ crashed' = crashed
      /\ round' = round
  BY DEF MergedConfig
<1>5. OnlyBy(r)
  BY <1>1, <1>2 DEF MergedConfig, OnlyBy, Merge, TypeOK
<1>6. Refs(r)'
  BY <1>1, <1>2, Names DEF Local, Refs, GivenInv
<1>7. \/ /\ supported[r] /\ pc'[r] = "user"
         /\ keys'[r] = {k \in Fields : Parent[k] = "root" /\ maps[User(r)][k] # Absent}
         /\ into'[r]["root"] = MantlJson(r) /\ over'[r]["root"] = User(r)
      \/ pc'[r] = "config" /\ keys'[r] = {}
  BY <1>1, <1>3 DEF MergedConfig, Merge, Keys, TypeOK, Levels
<1>8. \A k \in Fields : ~ApiRef(maps'[MantlJson(r)][k])
  BY <1>1, <1>2, Names DEF GivenInv, ApiRef
<1>9. UserPhase(r)'
  BY <1>2, <1>4, <1>7, <1>8, Names DEF UserPhase, Pending, ApiRef
<1>10. UserMaps(r)'
  <2>1. maps'[User(r)] = maps[User(r)]
    BY <1>2, Names
  <2>2. maps'[MantlJson(r)]["mantl"].map => maps'[MantlJson(r)]["mantl"].from # User(r)
    BY <1>1, <1>2, Names DEF GivenInv, Fields
  <2>3. Overlays(r) <=> Overlays(r)'
    BY <1>4 DEF Overlays
  <2> QED BY <1>1, <1>3, <1>4, <2>1, <2>2, <2>3 DEF Local, UserMaps, ApiRef
<1>11. Nest(r)' /\ ApiPhase(r)' /\ ConfigPhase(r)'
  BY <1>7 DEF Nest, ApiPhase, ConfigPhase, Pending
<1>12. pc'[r] # "idle" /\ round'[r] < Passes
  BY <1>3, <1>4, <1>7
<1> QED
  BY <1>5, <1>6, <1>9, <1>10, <1>11, <1>12 DEF Local

(* The next layer is merged.                                               *)
LEMMA OptionsStep ==
    ASSUME IInv, NEW r \in Requests, Options(r)
    PROVE  OnlyBy(r) /\ Local(r)'
<1> USE FieldFacts
<1>1. TypeOK /\ GivenInv /\ Local(r) /\ keys[r] = {}
  BY DEF IInv, Options
<1>2. /\ given' = given /\ supported' = supported /\ crashed' = crashed
      /\ round' = round /\ maps' = maps
  BY DEF Options
<1>3. OnlyBy(r)
  BY <1>1, <1>2 DEF Options, OnlyBy, Merge, TypeOK
<1>4. \/ /\ pc[r] = "user" /\ pc'[r] = "api"
         /\ keys'[r] \subseteq {k \in Fields : Parent[k] = "root"}
         /\ into'[r]["root"] = MantlJson(r) /\ over'[r]["root"] = Api
      \/ /\ pc[r] = "api" /\ pc'[r] = "config"
         /\ keys'[r] \subseteq {k \in Fields : Parent[k] = "root"}
         /\ into'[r]["root"] = ConfigJson(r)
  BY <1>1 DEF Options, Merge, Keys, TypeOK, Levels
<1>5. Refs(r)' /\ Nest(r)' /\ UserPhase(r)'
  BY <1>1, <1>2, <1>4 DEF Local, Refs, Nest, UserPhase
<1>6. (Overlays(r)' <=> Overlays(r)) /\ (Tainted(r)' <=> Tainted(r))
  BY <1>2 DEF Overlays, Tainted
<1>7. UserMaps(r)'
  BY <1>1, <1>2, <1>4, <1>6 DEF Local, UserMaps, ApiRef
<1>8. ApiPhase(r)'
  <2>1. CASE pc[r] = "user"
    <3>1. \A k \in Fields : /\ ApiRef(maps[MantlJson(r)][k]) => Tainted(r)
                           /\ ApiRef(maps[User(r)][k]) => Tainted(r)
      BY <1>1, <2>1 DEF Local, UserPhase, UserMaps, Tainted
    <3>2. "zookeeper" \notin keys'[r]
      BY <1>4 DEF Fields
    <3>3. \A k \in keys'[r] : k \in Fields /\ Parent[k] = "root"
      BY <1>4, <2>1
    <3> QED
      BY <1>1, <1>2, <1>4, <1>6, <2>1, <3>1, <3>2, <3>3, Names
      DEF Local, UserPhase, ApiPhase, ApiRef
  <2>2. CASE pc[r] # "user"
    BY <1>4, <2>2 DEF ApiPhase
  <2> QED BY <2>1, <2>2
<1>9. ConfigPhase(r)'
  BY <1>1, <1>2, <1>4 DEF Local, ApiPhase, ConfigPhase
<1>10. pc'[r] # "idle" /\ round'[r] < Passes
  BY <1>1, <1>2, <1>4 DEF Local
<1> QED
  BY <1>3, <1>5, <1>7, <1>8, <1>9, <1>10 DEF Local

(* A pass ends.                                                            *)
LEMMA ReturnStep ==
    ASSUME IInv, NEW r \in Requests, Return(r)
    PROVE  OnlyBy(r) /\ Local(r)'
<1>1. TypeOK /\ Local(r)
  BY DEF IInv
<1>2. /\ given' = given /\ supported' = supported /\ maps' = maps
      /\ keys' = keys /\ keys[r] = {} /\ pc'[r] = "idle" /\ pc[r] = "config"
  BY <1>1 DEF Return, TypeOK
<1>3. OnlyBy(r)
  BY <1>1 DEF Return, OnlyBy, TypeOK
<1>4. round'[r] > 0
  <2>1. round[r] \in 0 .. Passes /\ round'[r] = round[r] + 1
    BY <1>1 DEF Return, TypeOK
  <2> QED BY <2>1 DEF Passes
<1>5. Refs(r)' /\ Nest(r)' /\ UserPhase(r)' /\ ApiPhase(r)' /\ ConfigPhase(r)'
  BY <1>1, <1>2 DEF Local, Refs, Nest, UserPhase, ApiPhase, ConfigPhase
<1>6. UserMaps(r)'
  BY <1>1, <1>2, <1>4 DEF Local, UserMaps, ApiRef, Overlays
<1> QED
  BY <1>2, <1>3, <1>5, <1>6 DEF Local

-----------------------------------------------------------------------------
(* Where both sides have a map the maps below the key are merged next; no  *)
(* map changes.                                                            *)
LEMMA DescendStep ==
    ASSUME IInv, NEW r \in Requests, Descend(r)
    PROVE  OnlyBy(r) /\ Local(r)'
<1>1. TypeOK /\ GivenInv /\ Local(r) /\ ApiIntact
  BY DEF IInv
<1>2. PICK k \in Fields :
        LET c == maps[into[r][Parent[k]]][k]
            v == maps[over[r][Parent[k]]][k]
        IN /\ IsNext(r, k)
           /\ BothMaps(c, v)
           /\ keys' = [keys EXCEPT ![r] = (@ \ {k}) \cup Keys(v.from, k)]
           /\ into' = [into EXCEPT ![r][k] = c.from]
           /\ over' = [over EXCEPT ![r][k] = v.from]
  BY DEF Descend
<1> DEFINE c == maps[into[r][Parent[k]]][k]
           v == maps[over[r][Parent[k]]][k]
<1>3. /\ given' = given /\ supported' = supported /\ crashed' = crashed
      /\ round' = round /\ maps' = maps /\ pc' = pc
  BY DEF Descend
<1>4. OnlyBy(r)
  BY <1>1, <1>2, <1>3 DEF OnlyBy, TypeOK
<1>5. /\ k \in keys[r] /\ \A j \in keys[r] : j \in Fields /\ Depth[j] <= Depth[k]
      /\ c.map /\ v.map
  BY <1>1, <1>2 DEF IsNext, BothMaps, TypeOK
<1>6. /\ keys'[r] = (keys[r] \ {k}) \cup Keys(v.from, k)
      /\ \A l \in Levels : l # k => into'[r][l] = into[r][l] /\ over'[r][l] = over[r][l]
      /\ k \in Levels => into'[r][k] = c.from /\ over'[r][k] = v.from
  BY <1>1, <1>2 DEF TypeOK
<1> USE FieldFacts
<1>7. \A j \in keys[r] : Parent[j] # k
  BY <1>5
<1>8. ASSUME NEW j \in keys'[r]
      PROVE  \/ /\ j \in keys[r] /\ j # k
                /\ into'[r][Parent[j]] = into[r][Parent[j]]
                /\ over'[r][Parent[j]] = over[r][Parent[j]]
             \/ /\ j \in Fields /\ Parent[j] = k
                /\ into'[r][Parent[j]] = c.from
                /\ over'[r][Parent[j]] = v.from
  <2>1. CASE j \in keys[r] /\ j # k
    <3>1. Parent[j] \in Levels /\ Parent[j] # k
      BY <1>5, <1>7, <2>1
    <3> QED BY <1>6, <2>1, <3>1
  <2>2. CASE j \in Keys(v.from, k)
    <3>1. j \in Fields /\ Parent[j] = k
      BY <2>2 DEF Keys
    <3>2. k \in Levels
      BY <3>1
    <3> QED BY <1>6, <3>1, <3>2
  <2> QED BY <1>6, <2>1, <2>2
<1>9. ASSUME NEW j \in Fields, Pending(r, j)'
      PROVE  Pending(r, j)
  <2>1. PICK a \in Path[j] : a \in keys'[r]
    BY <1>9 DEF Pending
  <2>2. CASE a \in keys[r]
    BY <2>1, <2>2 DEF Pending
  <2>3. CASE a \in Fields /\ Parent[a] = k
    <3>1. k \in Path[a] /\ Path[a] \subseteq Path[j]
      BY <2>1, <2>3
    <3> QED BY <1>5, <3>1 DEF Pending
  <2> QED BY <1>8, <2>1, <2>2, <2>3
<1>10. Pending(r, k)
  BY <1>5 DEF Pending
<1>11. Nest(r)'
  <2> SUFFICES ASSUME NEW a \in keys'[r], NEW b \in keys'[r], a \in Path[b]
               PROVE  a = b
    BY DEF Nest
  <2>1. a \in Fields /\ b \in Fields
    BY <1>5, <1>6 DEF Keys
  <2>2. CASE a \in keys[r] /\ a # k /\ b \in keys[r]
    BY <1>1, <2>2 DEF Local, Nest
  <2>3. CASE Parent[b] = k
    <3>1. a = b \/ a \in Path[k]
      BY <2>1, <2>3
    <3>2. ASSUME a \in Path[k], a \in keys[r]
          PROVE  a = k
      BY <1>1, <1>5, <3>2 DEF Local, Nest
    <3>3. ASSUME a \in Path[k], Parent[a] = k
          PROVE  FALSE
      BY <2>1, <3>3
    <3> QED BY <1>5, <1>8, <3>1, <3>2, <3>3
  <2>4. CASE Parent[a] = k /\ b \in keys[r]
    <3>1. Depth[k] < Depth[a] /\ Depth[b] <= Depth[k]
      BY <1>5, <2>1, <2>4
    <3> QED BY <2>1, <3>1
  <2> QED BY <1>8, <2>2, <2>3, <2>4
<1>12. (Overlays(r)' <=> Overlays(r)) /\ (Tainted(r)' <=> Tainted(r))
  BY <1>3 DEF Overlays, Tainted
<1>13. Refs(r)' /\ UserMaps(r)'
  BY <1>1, <1>3, <1>12 DEF Local, Refs, UserMaps, ApiRef
<1>14. "mantl" \in keys'[r] => /\ "mantl" \in keys[r]
                              /\ into'[r]["root"] = into[r]["root"]
                              /\ over'[r]["root"] = over[r]["root"]
  <2>1. "root" \in Levels /\ "root" # k /\ Parent["mantl"] # k
    BY DEF Levels, Fields, Parent
  <2> QED BY <1>6, <2>1 DEF Keys
<1>15. UserPhase(r)'
  <2> SUFFICES ASSUME pc[r] = "user" PROVE UserPhase(r)'
    BY <1>3 DEF UserPhase
  <2>1. UserPhase(r) /\ Refs(r) /\ UserMaps(r)
    BY <1>1 DEF Local
  <2>2. c.from = MantlJson(r)
    BY <1>1, <1>5, <1>10, <2>1, Names DEF UserPhase, GivenInv
  <2>3. v.from \in {User(r), Api} /\ (v.from = Api => Tainted(r))
    <3>1. CASE over[r][Parent[k]] = User(r)
      BY <1>5, <2>1, <3>1 DEF Refs, UserMaps, ApiRef, Tainted
    <3>2. CASE over[r][Parent[k]] = Api
      BY <1>1, <1>5, <2>1, <3>2, ApiInOwner DEF UserPhase, GivenInv, ApiIntact
    <3> QED BY <1>5, <2>1, <3>1, <3>2 DEF UserPhase
  <2>4. \A j \in keys'[r] : /\ into'[r][Parent[j]] = MantlJson(r)
                            /\ over'[r][Parent[j]] \in {User(r), Api}
                            /\ over'[r][Parent[j]] = Api => Tainted(r)
    BY <1>8, <2>1, <2>2, <2>3 DEF UserPhase
  <2> QED
    BY <1>3, <1>9, <1>12, <1>14, <2>1, <2>4 DEF UserPhase, ApiRef
<1>16. ApiPhase(r)'
  <2> SUFFICES ASSUME pc[r] = "api" PROVE ApiPhase(r)'
    BY <1>3 DEF ApiPhase
  <2>1. ApiPhase(r) /\ Refs(r) /\ UserMaps(r)
    BY <1>1 DEF Local
  <2>2. v.from = Api
    BY <1>1, <1>5, <2>1, ApiInOwner DEF ApiPhase, GivenInv, ApiIntact
  <2>3. c.from \in {MantlJson(r), User(r), Api} /\ (c.from = Api => Tainted(r))
    <3>1. CASE into[r][Parent[k]] = Api
      BY <1>1, <1>5, <2>1, <3>1, ApiInOwner DEF ApiPhase, GivenInv, ApiIntact
    <3>2. CASE into[r][Parent[k]] # Api
      BY <1>5, <1>10, <2>1, <3>2 DEF ApiPhase, Refs, ApiRef
    <3> QED BY <3>1, <3>2
  <2>4. \A j \in keys'[r] : /\ over'[r][Parent[j]] = Api
                            /\ into'[r][Parent[j]] \in {MantlJson(r), User(r), Api}
                            /\ into'[r][Parent[j]] = Api => Tainted(r)
    BY <1>8, <2>1, <2>2, <2>3 DEF ApiPhase
  <2>5. ASSUME "zookeeper" \in keys'[r], into'[r]["mantl"] = User(r)
        PROVE  Overlays(r)
    <3>1. Parent["zookeeper"] = "mantl"
      BY DEF Parent
    <3>2. CASE "zookeeper" \in keys[r] /\ into'[r]["mantl"] = into[r]["mantl"]
      BY <2>1, <2>5, <3>2 DEF ApiPhase
    <3>3. CASE k = "mantl" /\ c.from = User(r)
      BY <1>5, <2>1, <3>3 DEF ApiPhase, UserMaps, Parent
    <3> QED BY <1>8, <2>5, <3>1, <3>2, <3>3
  <2> QED
    BY <1>3, <1>9, <1>12, <1>14, <2>1, <2>4, <2>5 DEF ApiPhase, ApiRef
<1>17. ConfigPhase(r)'
  <2> SUFFICES ASSUME pc[r] = "config" PROVE ConfigPhase(r)'
    BY <1>3 DEF ConfigPhase
  <2>1. ConfigPhase(r)
    BY <1>1 DEF Local
  <2>2. c.from = ConfigJson(r)
    BY <1>1, <1>5, <1>10, <2>1, Names DEF ConfigPhase, GivenInv
  <2> QED
    BY <1>3, <1>8, <1>9, <2>1, <2>2 DEF ConfigPhase
<1>18. pc'[r] # "idle" /\ round'[r] < Passes
  BY <1>1, <1>3, <1>5 DEF Local
<1> QED
  BY <1>4, <1>11, <1>13, <1>15, <1>16, <1>17, <1>18 DEF Local

(* Where they do not, one key of one map changes: of the fresh file, or,   *)
(* when the API is merged, of what the user has put in its place.          *)
LEMMA AssignStep ==
    ASSUME IInv, NEW r \in Requests, Assign(r)
    PROVE  OnlyBy(r) /\ Local(r)'
<1> USE FieldFacts
<1>1. TypeOK /\ GivenInv /\ Local(r) /\ ApiIntact
  BY DEF IInv
<1>2. PICK k \in Fields :
        /\ IsNext(r, k)
        /\ ~BothMaps(maps[into[r][Parent[k]]][k], maps[over[r][Parent[k]]][k])
        /\ maps' = [maps EXCEPT ![into[r][Parent[k]]][k] = maps[over[r][Parent[k]]][k]]
        /\ keys' = [keys EXCEPT ![r] = @ \ {k}]
  BY DEF Assign
<1> DEFINE a == into[r][Parent[k]]
           v == maps[over[r][Parent[k]]][k]
<1>3. /\ given' = given /\ supported' = supported /\ crashed' = crashed
      /\ round' = round /\ pc' = pc /\ into' = into /\ over' = over
  BY DEF Assign
<1>4. /\ k \in keys[r] /\ keys'[r] = keys[r] \ {k} /\ keys'[r] \subseteq Fields
      /\ a \in Owner /\ over[r][Parent[k]] \in Owner
  BY <1>1, <1>2 DEF IsNext, TypeOK
<1>5. /\ \A o \in Owner \ {a} : maps'[o] = maps[o]
      /\ maps'[a][k] = v
      /\ \A j \in Fields \ {k} : maps'[a][j] = maps[a][j]
  BY <1>1, <1>2, <1>4 DEF TypeOK
<1>6. \A o \in Owner : \A j \in Fields \ {k} : maps'[o][j] = maps[o][j]
  BY <1>5
<1>7. ASSUME NEW j \in Fields, Pending(r, j)'
      PROVE  j # k /\ Pending(r, j)
  <2>1. PICK b \in Path[j] : b \in keys[r] /\ b # k
    BY <1>4, <1>7 DEF Pending
  <2>2. j # k
    BY <1>1, <1>4, <2>1 DEF Local, Nest
  <2> QED BY <2>1, <2>2 DEF Pending
<1>8. Nest(r)'
  BY <1>1, <1>4 DEF Local, Nest
<1>9. Pending(r, k)
  BY <1>4 DEF Pending
<1>10. (Overlays(r)' <=> Overlays(r)) /\ (Tainted(r)' <=> Tainted(r))
  BY <1>3 DEF Overlays, Tainted
<1>11. pc[r] \in {"user", "api", "config"} /\ round[r] < Passes
  BY <1>1, <1>4 DEF Local, TypeOK
<1>12. \A q \in Requests \ {r} : keys'[q] = keys[q]
  BY <1>1, <1>2 DEF TypeOK
<1>13. UserPhase(r) /\ ApiPhase(r) /\ ConfigPhase(r) /\ Refs(r) /\ UserMaps(r)
  BY <1>1 DEF Local
<1>u. CASE pc[r] = "user"
  <2>1. a = MantlJson(r) /\ maps[MantlJson(r)][k] = given[MantlJson(r)][k]
    BY <1>4, <1>9, <1>13, <1>u DEF UserPhase
  <2>2. v.map => v.from \in {User(r), Api}
    BY <1>1, <1>4, <1>13, <1>u, ApiInOwner DEF UserPhase, Refs, GivenInv, ApiIntact
  <2>3. ApiRef(v) => Tainted(r)
    BY <1>4, <1>13, <1>u DEF UserPhase, UserMaps, Tainted, ApiRef
  <2>4. OnlyBy(r)
    BY <1>3, <1>5, <1>12, <2>1 DEF OnlyBy
  <2>5. /\ maps'[User(r)] = maps[User(r)]
        /\ maps'[ConfigJson(r)] = maps[ConfigJson(r)]
    BY <1>5, <2>1, Names
  <2>6. Refs(r)'
    BY <1>5, <1>13, <2>1, <2>2, <2>5, Names DEF Refs
  <2>7. UserPhase(r)'
    <3>1. \A j \in Fields : ApiRef(maps'[MantlJson(r)][j]) => Tainted(r)
      BY <1>5, <1>13, <1>u, <2>1, <2>3 DEF UserPhase
    <3>2. \A j \in Fields : Pending(r, j)' =>
            maps'[MantlJson(r)][j] = given[MantlJson(r)][j]
      BY <1>5, <1>7, <1>13, <1>u, <2>1 DEF UserPhase
    <3> QED
      BY <1>3, <1>4, <1>10, <1>13, <1>u, <2>5, <3>1, <3>2 DEF UserPhase, ApiRef
  <2>8. UserMaps(r)'
    <3>1. ASSUME maps'[MantlJson(r)]["mantl"].map,
                 maps'[MantlJson(r)]["mantl"].from = User(r)
          PROVE  Overlays(r)
      <4>1. CASE k = "mantl"
        <5>1. v = given[User(r)]["mantl"]
          BY <1>4, <1>13, <1>u, <4>1 DEF UserPhase, UserMaps
        <5>2. v.map
          BY <1>5, <2>1, <3>1, <4>1
        <5>3. ~given[MantlJson(r)]["mantl"].map
          BY <1>2, <2>1, <4>1, <5>2 DEF BothMaps
        <5> QED BY <1>13, <1>u, <5>1, <5>2, <5>3 DEF UserPhase, Overlays
      <4>2. CASE k # "mantl"
        BY <1>6, <1>13, <1>u, <3>1, <4>2, Names DEF UserMaps, Fields
      <4> QED BY <4>1, <4>2
    <3> QED
      BY <1>3, <1>10, <1>13, <1>u, <2>5, <3>1 DEF UserMaps, ApiRef
  <2> QED
    BY <1>3, <1>8, <1>11, <1>u, <2>4, <2>6, <2>7, <2>8
    DEF Local, ApiPhase, ConfigPhase
<1>a. CASE pc[r] = "api"
  <2>1. a \in {MantlJson(r), User(r), Api} /\ v = given[Api][k]
    BY <1>1, <1>4, <1>13, <1>a DEF ApiPhase, ApiIntact
  <2>2. v.map => v.from = Api /\ k \notin {"balancer", "hosts"}
    BY <1>1, <2>1, ApiInOwner DEF GivenInv
  <2>3. maps'[Api] = maps[Api]
    <3>1. CASE a # Api
      BY <1>5, <3>1, ApiInOwner
    <3>2. CASE a = Api
      <4>1. maps[Api][k] = v
        BY <1>1, <2>1 DEF ApiIntact
      <4>2. maps[Api] \in [Fields -> Value] /\ maps' = [maps EXCEPT ![Api][k] = maps[Api][k]]
        BY <1>1, <1>2, <3>2, <4>1, ApiInOwner DEF TypeOK
      <4> QED BY <1>1, <4>2, ApiInOwner DEF TypeOK
    <3> QED BY <3>1, <3>2
  <2>4. OnlyBy(r)
    BY <1>3, <1>5, <1>12, <2>1, <2>3 DEF OnlyBy
  <2>5. maps'[ConfigJson(r)] = maps[ConfigJson(r)]
    BY <1>5, <2>1, Names
  <2>6. Refs(r)'
    <3>1. \A o \in {User(r), MantlJson(r)} : \A j \in Fields :
            \/ maps'[o][j] = maps[o][j]
            \/ maps'[o][j].map => maps'[o][j].from = Api
      BY <1>5, <1>6, <2>2, Names
    <3> QED BY <1>13, <2>5, <3>1 DEF Refs
  <2>7. ApiPhase(r)'
    <3>1. \A j \in Fields : Pending(r, j)' =>
            /\ maps'[MantlJson(r)][j] = maps[MantlJson(r)][j]
            /\ maps'[User(r)][j] = maps[User(r)][j]
            /\ Pending(r, j)
      BY <1>6, <1>7, Names
    <3> QED
      BY <1>3, <1>4, <1>10, <1>13, <1>a, <2>5, <3>1 DEF ApiPhase, ApiRef
  <2>8. UserMaps(r)'
    <3>1. k = "mantl" => a = MantlJson(r)
      BY <1>4, <1>13, <1>a DEF ApiPhase
    <3>2. maps'[User(r)]["mantl"] = maps[User(r)]["mantl"]
      BY <1>5, <1>6, <3>1, Names DEF Fields
    <3>3. ASSUME NEW j \in Fields, ApiRef(maps'[User(r)][j])
          PROVE  Overlays(r)
      <4>1. CASE maps'[User(r)][j] = maps[User(r)][j]
        BY <1>13, <3>3, <4>1 DEF UserMaps
      <4>2. CASE a = User(r) /\ j = k
        <5>1. v.map
          BY <1>5, <3>3, <4>2 DEF ApiRef
        <5>2. k = "zookeeper"
          BY <2>2, <3>1, <4>2, <5>1, Names DEF Fields
        <5>3. Parent[k] = "mantl"
          BY <5>2 DEF Parent
        <5> QED BY <1>4, <1>13, <1>a, <4>2, <5>2, <5>3 DEF ApiPhase
      <4> QED BY <1>5, <1>6, <4>1, <4>2, Names
    <3>4. ASSUME maps'[MantlJson(r)]["mantl"].map,
                 maps'[MantlJson(r)]["mantl"].from = User(r)
          PROVE  Overlays(r)
      <4>1. CASE k = "mantl"
        BY <1>5, <2>2, <3>1, <3>4, <4>1, Names
      <4>2. CASE k # "mantl"
        BY <1>6, <1>13, <1>a, <3>4, <4>2, Names DEF UserMaps, Fields
      <4> QED BY <4>1, <4>2
    <3> QED
      BY <1>3, <1>10, <1>13, <1>a, <3>2, <3>3, <3>4 DEF UserMaps, ApiRef
  <2> QED
    BY <1>3, <1>8, <1>11, <1>a, <2>4, <2>6, <2>7, <2>8
    DEF Local, UserPhase, ConfigPhase
<1>c. CASE pc[r] = "config"
  <2>1. a = ConfigJson(r)
    BY <1>4, <1>13, <1>c DEF ConfigPhase
  <2>2. v.map => v.from \in Owner
    BY <1>4, Typed
  <2>3. OnlyBy(r)
    BY <1>3, <1>5, <1>12, <2>1 DEF OnlyBy
  <2>4. /\ maps'[User(r)] = maps[User(r)]
        /\ maps'[MantlJson(r)] = maps[MantlJson(r)]
    BY <1>5, <2>1, Names
  <2>5. Refs(r)'
    BY <1>5, <1>13, <2>1, <2>2, <2>4, Names DEF Refs
  <2>6. ConfigPhase(r)'
    BY <1>3, <1>4, <1>5, <1>7, <1>13, <1>c, <2>1 DEF ConfigPhase
  <2>7. UserMaps(r)'
    BY <1>3, <1>10, <1>13, <1>c, <2>4 DEF UserMaps, ApiRef
  <2> QED
    BY <1>3, <1>8, <1>11, <1>c, <2>3, <2>5, <2>6, <2>7
    DEF Local, UserPhase, ApiPhase
<1> QED BY <1>11, <1>u, <1>a, <1>c

-----------------------------------------------------------------------------
(* A map of apiConfig is written only for a client that overlays.          *)
LEMMA SharedByOverlay ==
    ASSUME IInv, NEW r \in Requests, WritesShared(r)
    PROVE  Tainted(r)
<1>1. PICK k \in Fields : IsNext(r, k) /\ into[r][Parent[k]] = Api
  BY DEF WritesShared
<1>2. k \in keys[r] /\ Local(r) /\ TypeOK
  BY <1>1 DEF IsNext, IInv
<1>3. pc[r] = "api"
  BY <1>1, <1>2, Names DEF Local, UserPhase, ConfigPhase, TypeOK
<1> QED BY <1>1, <1>2, <1>3 DEF Local, ApiPhase

(* The invariant is inductive.                                             *)
LEMMA InvStep == IInv /\ [Next]_vars => IInv'
<1> SUFFICES ASSUME IInv, [Next]_vars PROVE IInv'
  OBVIOUS
<1>0. TypeOK'
  BY TypeStep
<1>1. ASSUME NEW r \in Requests, MergedConfig(r) \/ mergeConfig(r) \/ Options(r) \/ Return(r)
      PROVE  IInv'
  <2>1. OnlyBy(r) /\ Local(r)'
    BY <1>1, MergedConfigStep, DescendStep, AssignStep, OptionsStep, ReturnStep
    DEF mergeConfig
  <2> QED BY <1>0, <2>1, Combine
<1>2. ASSUME NEW r \in Requests, Collide(r)
      PROVE  IInv'
  <2>1. Overlays(r)
    BY <1>2, SharedByOverlay DEF Collide, Tainted
  <2>2. UNCHANGED <<given, supported, maps, calls>>
    BY <1>2 DEF Collide
  <2>3. GivenInv' /\ ApiIntact' /\ Overlays(r)'
    BY <2>1, <2>2 DEF IInv, GivenInv, ApiIntact, Overlays
  <2>4. ASSUME NEW q \in Requests
        PROVE  Local(q)'
    BY <2>2 DEF calls, IInv, Local, Refs, Nest, UserPhase, ApiPhase, ConfigPhase,
                UserMaps, ApiRef, Pending, Tainted, Overlays
  <2> QED BY <1>0, <2>3, <2>4 DEF IInv
<1>3. CASE UNCHANGED vars
  <2>1. ASSUME NEW q \in Requests
        PROVE  Local(q)' /\ (Overlays(q)' <=> Overlays(q))
    BY <1>3 DEF vars, calls, IInv, Local, Refs, Nest, UserPhase, ApiPhase, ConfigPhase,
                UserMaps, ApiRef, Pending, Tainted, Overlays
  <2> QED BY <1>0, <1>3, <2>1 DEF vars, IInv, GivenInv, ApiIntact
<1> QED
  BY <1>1, <1>2, <1>3 DEF Next

LEMMA Invariant == Spec => []IInv
BY InitInv, InvStep, PTL DEF Spec

(* Every reachable state is well typed.                                    *)
THEOREM TypeCorrect == Spec => []TypeOK
<1>1. IInv => TypeOK
  BY DEF IInv
<1> QED BY <1>1, Invariant, PTL

(* No installation changes what apiConfig says (NewInstall made it, all    *)
(* installations share it).                                                *)
THEOREM ApiStaysIntact == Spec => []ApiIntact
<1>1. IInv => ApiIntact
  BY DEF IInv
<1> QED BY <1>1, Invariant, PTL

(* apiConfig is written, and the process can be brought down by it, only   *)
(* when a client gives mantl as a map and the package does not, and never  *)
(* in the first of the four passes.                                        *)
THEOREM SharedWritesHold == Spec => []SharedWrites
<1>1. IInv => SharedWrites
  BY SharedByOverlay DEF IInv, SharedWrites, Tainted
<1> QED BY <1>1, Invariant, PTL

-----------------------------------------------------------------------------
(* The values that a merge yields.  apiConfig has a map at mantl and at    *)
(* zookeeper and a value at hosts, so that all that is left of the other   *)
(* layers is the balancer.                                                 *)

\* Nothing stands below what is no map, and the lowest fields hold no maps.
Treelike(d) ==
    /\ ~d["balancer"].map /\ ~d["hosts"].map
    /\ ~d["mantl"].map => d["balancer"] = Absent /\ d["zookeeper"] = Absent
    /\ ~d["zookeeper"].map => d["hosts"] = Absent

\* mantl and the balancer when the user has had a say.
AskedMantl(r) ==
    IF given[User(r)]["mantl"] = Absent \/
         (given[User(r)]["mantl"].map /\ given[MantlJson(r)]["mantl"].map)
    THEN given[MantlJson(r)]["mantl"] ELSE given[User(r)]["mantl"]
AskedBalancer(r) ==
    IF ~AskedMantl(r).map THEN Absent
    ELSE IF given[User(r)]["balancer"] = Absent THEN given[MantlJson(r)]["balancer"]
    ELSE given[User(r)]["balancer"]

\* Where the maps of mantl.json lead by now.
MantlMap(r) == maps[MantlJson(r)]["mantl"]
ZookeeperMap(r) == maps[MantlMap(r).from]["zookeeper"]
Hosts == given[Api]["hosts"]

UserValues(r) ==
    pc[r] = "user" =>
        /\ "mantl" \in keys[r] => given[User(r)]["mantl"] # Absent
        /\ "mantl" \notin keys[r] => MantlMap(r) = AskedMantl(r)
        /\ IF "balancer" \in keys[r]
           THEN /\ over[r]["mantl"] = User(r) /\ given[User(r)]["balancer"] # Absent
                /\ MantlMap(r).map /\ MantlMap(r).from = MantlJson(r)
           ELSE "mantl" \notin keys[r] /\ MantlMap(r).map =>
                  maps[MantlMap(r).from]["balancer"] = AskedBalancer(r)

ApiValues(r) ==
    pc[r] = "api" =>
        /\ "balancer" \notin keys[r]
        /\ MantlMap(r).map => maps[MantlMap(r).from]["balancer"] = AskedBalancer(r)
        /\ IF "mantl" \in keys[r] THEN MantlMap(r) = AskedMantl(r)
           ELSE /\ MantlMap(r) = IF AskedMantl(r).map THEN AskedMantl(r)
                                 ELSE given[Api]["mantl"]
                /\ IF "zookeeper" \in keys[r] THEN into[r]["mantl"] = MantlMap(r).from
                   ELSE /\ ZookeeperMap(r).map
                        /\ IF "hosts" \in keys[r]
                           THEN into[r]["zookeeper"] = ZookeeperMap(r).from
                           ELSE maps[ZookeeperMap(r).from]["hosts"] = Hosts

\* The files and the user are merged, and apiConfig over them.
AskedValues(r) ==
    /\ MantlMap(r).map /\ maps[MantlMap(r).from]["balancer"] = AskedBalancer(r)
    /\ ZookeeperMap(r).map /\ maps[ZookeeperMap(r).from]["hosts"] = Hosts

DefaultValues(r) ==
    LET c == given[ConfigJson(r)]
        m == maps[ConfigJson(r)]
    IN  IF "mantl" \in keys[r] THEN over[r]["root"] = MantlJson(r)
        ELSE IF ~c["mantl"].map THEN keys[r] = {} /\ m["mantl"] = MantlMap(r)
        ELSE /\ m["mantl"] = c["mantl"]
             /\ IF "balancer" \in keys[r]
                THEN over[r]["mantl"] = MantlMap(r).from /\ AskedBalancer(r) # Absent
                ELSE m["balancer"] = IF AskedBalancer(r) = Absent THEN c["balancer"]
                                     ELSE AskedBalancer(r)
             /\ IF "zookeeper" \in keys[r] THEN over[r]["mantl"] = MantlMap(r).from
                ELSE /\ m["zookeeper"].map
                     /\ m["zookeeper"].from \in {ConfigJson(r), ZookeeperMap(r).from}
                     /\ IF "hosts" \in keys[r]
                        THEN /\ over[r]["zookeeper"] = ZookeeperMap(r).from
                             /\ m["zookeeper"].from = ConfigJson(r)
                        ELSE maps[m["zookeeper"].from]["hosts"] = Hosts

ConfigValues(r) ==
    pc[r] = "config" =>
        IF supported[r] THEN AskedValues(r) /\ DefaultValues(r)
        ELSE keys[r] = {} /\ maps[ConfigJson(r)] = given[ConfigJson(r)]

Values(r) ==
    /\ maps[User(r)]["balancer"] = given[User(r)]["balancer"]
    /\ UserValues(r) /\ ApiValues(r) /\ ConfigValues(r)

ValueInv ==
    /\ given[Api] = Says(Api, ApiShape)
    /\ \A o \in Owner : /\ Treelike(given[o])
                        /\ ~maps[o]["balancer"].map /\ ~maps[o]["hosts"].map
    /\ \A r \in Requests : Values(r)
    /\ MergedAsLayered

(* What apiConfig says.                                                    *)
LEMMA ApiSays ==
    ASSUME given[Api] = Says(Api, ApiShape)
    PROVE  /\ \A k \in {"mantl", "zookeeper"} :
                given[Api][k].map /\ given[Api][k].from = Api
           /\ given[Api]["balancer"] = Absent
           /\ Hosts # Absent /\ ~Hosts.map
<1>1. \A k \in Fields : given[Api][k] =
        IF ApiShape[k] = "absent" THEN Absent ELSE [from |-> Api, map |-> ApiShape[k] = "map"]
  BY DEF Says
<1>2. given[Api]["hosts"] = [from |-> Api, map |-> FALSE]
  BY <1>1 DEF ApiShape, Fields
<1>3. Api # Nobody
  BY ApiAssumption, ApiInOwner
<1>4. given[Api]["balancer"] = Absent
  BY <1>1 DEF ApiShape, Fields
<1>5. \A k \in {"mantl", "zookeeper"} : given[Api][k] = [from |-> Api, map |-> TRUE]
  BY <1>1 DEF ApiShape, Fields
<1> QED BY <1>2, <1>3, <1>4, <1>5 DEF Absent, Hosts

LEMMA AbsentFacts == ~Absent.map /\ Absent.from = Nobody
BY DEF Absent

(* What the maps of mantl.json lead to is the installation's or the API's. *)
LEMMA Leads ==
    ASSUME IInv, NEW r \in Requests
    PROVE  /\ MantlMap(r).map => MantlMap(r).from \in {MantlJson(r), User(r), Api}
           /\ MantlMap(r).map /\ ZookeeperMap(r).map
                => ZookeeperMap(r).from \in {MantlJson(r), User(r), Api}
<1>1. GivenInv /\ ApiIntact /\ Refs(r) /\ "mantl" \in Fields /\ "zookeeper" \in Fields
  BY DEF IInv, Local, Fields
<1>2. MantlMap(r).map => MantlMap(r).from \in {MantlJson(r), User(r), Api}
  BY <1>1 DEF Refs, MantlMap
<1>3. \A o \in {MantlJson(r), User(r), Api} :
        maps[o]["zookeeper"].map
          => maps[o]["zookeeper"].from \in {MantlJson(r), User(r), Api}
  BY <1>1, ApiInOwner DEF Refs, GivenInv, ApiIntact
<1> QED BY <1>2, <1>3 DEF ZookeeperMap

(* The values of an installation change by its own steps only.             *)
LEMMA OtherValues ==
    ASSUME IInv, NEW q \in Requests, Values(q), given[Api] = Says(Api, ApiShape),
           given' = given, supported' = supported,
           pc'[q] = pc[q], keys'[q] = keys[q], into'[q] = into[q], over'[q] = over[q],
           \A o \in {User(q), MantlJson(q), ConfigJson(q), Api} : maps'[o] = maps[o]
    PROVE  Values(q)'
<1>1. MantlMap(q)' = MantlMap(q)
  BY DEF MantlMap
<1>2. MantlMap(q).map => maps'[MantlMap(q).from] = maps[MantlMap(q).from]
  BY Leads
<1>3. MantlMap(q).map => ZookeeperMap(q)' = ZookeeperMap(q)
  BY <1>1, <1>2 DEF ZookeeperMap
<1>4. MantlMap(q).map /\ ZookeeperMap(q).map =>
        maps'[ZookeeperMap(q).from] = maps[ZookeeperMap(q).from]
  BY Leads
<1>5. /\ AskedMantl(q)' = AskedMantl(q) /\ AskedBalancer(q)' = AskedBalancer(q)
      /\ Hosts' = Hosts
  BY DEF AskedMantl, AskedBalancer, Hosts
<1>6. UserValues(q)'
  BY <1>1, <1>2, <1>5 DEF Values, UserValues
<1>7. ApiValues(q)'
  <2> SUFFICES ASSUME pc[q] = "api" PROVE ApiValues(q)'
    BY DEF ApiValues
  <2>1. ApiValues(q)
    BY DEF Values
  <2>2. CASE "mantl" \in keys[q]
    BY <1>1, <1>2, <1>5, <2>1, <2>2 DEF ApiValues
  <2>3. CASE "mantl" \notin keys[q] /\ ~MantlMap(q).map
    BY <2>1, <2>3, ApiSays DEF ApiValues
  <2>4. CASE "mantl" \notin keys[q] /\ MantlMap(q).map
    BY <1>1, <1>2, <1>3, <1>4, <1>5, <2>1, <2>4 DEF ApiValues
  <2> QED BY <2>2, <2>3, <2>4
<1>8. ConfigValues(q)'
  <2> SUFFICES ASSUME pc[q] = "config" PROVE ConfigValues(q)'
    BY DEF ConfigValues
  <2>1. CASE supported[q]
    <3>1. AskedValues(q) /\ DefaultValues(q)
      BY <2>1 DEF Values, ConfigValues
    <3>2. AskedValues(q)'
      BY <1>1, <1>2, <1>3, <1>4, <1>5, <3>1 DEF AskedValues
    <3>3. DefaultValues(q)'
      BY <1>1, <1>2, <1>3, <1>4, <1>5, <3>1 DEF AskedValues, DefaultValues
    <3> QED BY <2>1, <3>2, <3>3 DEF ConfigValues
  <2>2. CASE ~supported[q]
    BY <2>2 DEF Values, ConfigValues
  <2> QED BY <2>1, <2>2
<1> QED BY <1>6, <1>7, <1>8 DEF Values

-----------------------------------------------------------------------------
(* The values keep as a pass goes on.                                      *)

\* What a step of r starts from.
Before(r) ==
    /\ IInv /\ given[Api] = Says(Api, ApiShape) /\ Values(r)
    /\ \A o \in Owner : /\ Treelike(given[o])
                        /\ ~maps[o]["balancer"].map /\ ~maps[o]["hosts"].map

LEMMA MergedConfigValues ==
    ASSUME NEW r \in Requests, Before(r), MergedConfig(r)
    PROVE  Values(r)'
<1>1. TypeOK /\ GivenInv /\ Local(r) /\ Values(r)
  BY DEF Before, IInv
<1>2. /\ maps'[MantlJson(r)] = given[MantlJson(r)]
      /\ maps'[ConfigJson(r)] = given[ConfigJson(r)]
      /\ maps'[User(r)] = maps[User(r)]
      /\ given' = given /\ supported' = supported
  BY <1>1, Names DEF MergedConfig, Decode, TypeOK
<1>3. keys[r] = {}
  BY <1>1 DEF MergedConfig, Local
<1>4. \/ /\ supported[r] /\ pc'[r] = "user"
         /\ keys'[r] = {k \in Fields : Parent[k] = "root" /\ maps[User(r)][k] # Absent}
      \/ ~supported[r] /\ pc'[r] = "config" /\ keys'[r] = {}
  BY <1>1, <1>3 DEF MergedConfig, Merge, Keys, TypeOK
<1>5. maps'[User(r)]["balancer"] = given'[User(r)]["balancer"]
  BY <1>1, <1>2 DEF Values
<1>6. CASE supported[r] /\ pc'[r] = "user"
  <2>1. /\ "balancer" \notin keys'[r]
        /\ "mantl" \in keys'[r] <=> given[User(r)]["mantl"] # Absent
    BY <1>1, <1>4, <1>6 DEF Local, UserMaps, Parent, Fields
  <2>2. MantlMap(r)' = given[MantlJson(r)]["mantl"]
    BY <1>2 DEF MantlMap
  <2>3. ASSUME given[User(r)]["mantl"] = Absent
        PROVE  /\ AskedMantl(r) = given[MantlJson(r)]["mantl"]
               /\ MantlMap(r)'.map => MantlMap(r)'.from = MantlJson(r)
               /\ AskedMantl(r).map => AskedBalancer(r) = given[MantlJson(r)]["balancer"]
    <3>1. Treelike(given[User(r)]) /\ "mantl" \in Fields
      BY Names DEF Before, Fields
    <3>2. given[User(r)]["balancer"] = Absent
      BY <2>3, <3>1, AbsentFacts DEF Treelike
    <3> QED BY <1>1, <2>2, <2>3, <3>1, <3>2, Names DEF AskedMantl, AskedBalancer, GivenInv
  <2>4. AskedMantl(r)' = AskedMantl(r) /\ AskedBalancer(r)' = AskedBalancer(r)
    BY <1>2 DEF AskedMantl, AskedBalancer
  <2>5. UserValues(r)'
    BY <1>2, <2>1, <2>2, <2>3, <2>4 DEF UserValues
  <2> QED BY <1>5, <1>6, <2>5 DEF Values, ApiValues, ConfigValues
<1>7. CASE ~supported[r] /\ pc'[r] = "config" /\ keys'[r] = {}
  BY <1>2, <1>5, <1>7 DEF Values, UserValues, ApiValues, ConfigValues
<1> QED BY <1>4, <1>6, <1>7

LEMMA OptionsValues ==
    ASSUME NEW r \in Requests, Before(r), Options(r)
    PROVE  Values(r)'
<1>1. TypeOK /\ Local(r) /\ Values(r) /\ keys[r] = {} /\ ApiIntact
  BY DEF Before, IInv, Options
<1>2. given' = given /\ supported' = supported /\ maps' = maps
  BY DEF Options
<1>3. /\ AskedMantl(r)' = AskedMantl(r) /\ AskedBalancer(r)' = AskedBalancer(r)
      /\ MantlMap(r)' = MantlMap(r) /\ ZookeeperMap(r)' = ZookeeperMap(r)
      /\ Hosts' = Hosts
  BY <1>2 DEF AskedMantl, AskedBalancer, MantlMap, ZookeeperMap, Hosts
<1>4. CASE pc[r] = "user"
  <2>1. pc'[r] = "api" /\ keys'[r] = Keys(Api, "root")
    BY <1>1, <1>4 DEF Options, Merge, TypeOK
  <2>2. keys'[r] = {"mantl"}
    BY <1>1, <2>1, ApiSays, AbsentFacts DEF Before, Keys, ApiIntact, Fields, Parent
  <2>3. ApiValues(r)'
    BY <1>1, <1>2, <1>3, <1>4, <2>2 DEF Values, UserValues, ApiValues
  <2> QED BY <1>1, <1>2, <2>1, <2>3 DEF Values, UserValues, ConfigValues
<1>5. CASE pc[r] = "api"
  <2>1. /\ supported[r] /\ pc'[r] = "config" /\ keys'[r] = Keys(MantlJson(r), "root")
        /\ over'[r]["root"] = MantlJson(r)
    BY <1>1, <1>5 DEF Options, Merge, TypeOK, Levels, Local, ApiPhase
  <2>2. AskedValues(r)
    <3>1. MantlMap(r).map
      BY <1>1, <1>5, ApiSays DEF Before, Values, ApiValues
    <3> QED BY <1>1, <1>5, <3>1 DEF Values, ApiValues, AskedValues
  <2>3. "mantl" \in keys'[r]
    BY <2>1, <2>2, AbsentFacts DEF AskedValues, MantlMap, Keys, Fields, Parent
  <2>4. AskedValues(r)' /\ DefaultValues(r)'
    BY <1>2, <1>3, <2>1, <2>2, <2>3 DEF AskedValues, DefaultValues
  <2> QED BY <1>1, <1>2, <2>1, <2>4 DEF Values, UserValues, ApiValues, ConfigValues
<1> QED BY <1>4, <1>5 DEF Options

\* What is under way when a call goes on with key k.
LEMMA AtKey ==
    ASSUME NEW r \in Requests, Before(r), NEW k \in Fields, IsNext(r, k)
    PROVE  /\ k \in keys[r] /\ pc[r] \in {"user", "api", "config"}
           /\ "mantl" \in keys[r] => keys[r] = {"mantl"} /\ k = "mantl"
           /\ "zookeeper" \in keys[r] => "hosts" \notin keys[r]
           /\ \A j \in Fields : k \in Path[j] => Pending(r, j)
<1>1. TypeOK /\ Local(r) /\ k \in keys[r]
  BY DEF Before, IInv, IsNext
<1>2. pc[r] \in {"user", "api", "config"}
  BY <1>1 DEF Local, TypeOK
<1>3. \A a, b \in keys[r] : a \in Path[b] => a = b
  BY <1>1 DEF Local, Nest
<1>4. "mantl" \in keys[r] => keys[r] = {"mantl"} /\ k = "mantl"
  BY <1>1, <1>3, FieldFacts DEF TypeOK
<1>5. "zookeeper" \in keys[r] => "hosts" \notin keys[r]
  BY <1>3 DEF Path
<1>6. \A j \in Fields : k \in Path[j] => Pending(r, j)
  BY <1>1 DEF Pending
<1> QED BY <1>1, <1>2, <1>4, <1>5, <1>6

LEMMA DescendValues ==
    ASSUME NEW r \in Requests, Before(r), Descend(r)
    PROVE  Values(r)'
<1>1. TypeOK /\ GivenInv /\ Local(r) /\ Values(r) /\ ApiIntact
  BY DEF Before, IInv
<1>2. PICK k \in Fields :
        LET c == maps[into[r][Parent[k]]][k]
            v == maps[over[r][Parent[k]]][k]
        IN /\ IsNext(r, k)
           /\ BothMaps(c, v)
           /\ keys' = [keys EXCEPT ![r] = (@ \ {k}) \cup Keys(v.from, k)]
           /\ into' = [into EXCEPT ![r][k] = c.from]
           /\ over' = [over EXCEPT ![r][k] = v.from]
  BY DEF Descend
<1> DEFINE c == maps[into[r][Parent[k]]][k]
           v == maps[over[r][Parent[k]]][k]
<1>3. given' = given /\ supported' = supported /\ maps' = maps /\ pc' = pc
  BY DEF Descend
<1>4. /\ AskedMantl(r)' = AskedMantl(r) /\ AskedBalancer(r)' = AskedBalancer(r)
      /\ MantlMap(r)' = MantlMap(r) /\ ZookeeperMap(r)' = ZookeeperMap(r)
      /\ Hosts' = Hosts
  BY <1>3 DEF AskedMantl, AskedBalancer, MantlMap, ZookeeperMap, Hosts
<1>5. c.map /\ v.map /\ into[r][Parent[k]] \in Owner /\ over[r][Parent[k]] \in Owner
  BY <1>1, <1>2, FieldFacts DEF BothMaps, TypeOK
<1>6. k \in {"mantl", "zookeeper"}
  BY <1>5 DEF Before, Fields
<1>7. /\ keys'[r] = (keys[r] \ {k}) \cup Keys(v.from, k)
      /\ into'[r][k] = c.from /\ over'[r][k] = v.from
      /\ \A l \in Levels \ {k} : into'[r][l] = into[r][l] /\ over'[r][l] = over[r][l]
  <2>1. /\ keys \in [Requests -> SUBSET Fields] /\ into \in [Requests -> [Levels -> Owner]]
        /\ over \in [Requests -> [Levels -> Owner]] /\ k \in Levels
    BY <1>1, <1>6 DEF TypeOK, Levels
  <2>2. /\ keys' = [keys EXCEPT ![r] = (@ \ {k}) \cup Keys(v.from, k)]
        /\ into' = [into EXCEPT ![r][k] = c.from]
        /\ over' = [over EXCEPT ![r][k] = v.from]
    BY <1>2
  <2> HIDE DEF c, v
  <2> QED BY ONLY <2>1, <2>2, r \in Requests
<1>8. /\ k \in keys[r] /\ pc[r] \in {"user", "api", "config"}
      /\ "mantl" \in keys[r] => keys[r] = {"mantl"} /\ k = "mantl"
      /\ "zookeeper" \in keys[r] => "hosts" \notin keys[r]
      /\ \A j \in Fields : k \in Path[j] => Pending(r, j)
  BY <1>2, AtKey
<1>9. /\ Parent["mantl"] = "root" /\ Parent["zookeeper"] = "mantl"
      /\ Parent["balancer"] = "mantl" /\ Parent["hosts"] = "zookeeper"
      /\ Path["balancer"] = {"mantl", "balancer"}
      /\ Fields = {"mantl", "balancer", "zookeeper", "hosts"}
  BY DEF Parent, Path, Fields
<1>10. /\ \A j : j \in Keys(v.from, k) <=> j \in Fields /\ Parent[j] = k /\ maps[v.from][j] # Absent
       /\ maps'[User(r)]["balancer"] = given'[User(r)]["balancer"]
  BY <1>1, <1>3 DEF Keys, Values
<1>12. \A j \in Fields : j \in keys'[r] <=>
         \/ j \in keys[r] /\ j # k
         \/ Parent[j] = k /\ maps[v.from][j] # Absent
  <2> HIDE DEF c, v
  <2> QED BY ONLY <1>7, <1>10
<1>11. k = "mantl" => Pending(r, "mantl") /\ Pending(r, "balancer")
  <2>1. k \in Path[k] /\ "mantl" \in Path["balancer"]
    BY <1>9, FieldFacts
  <2> QED BY <1>8, <1>9, <2>1
<1>u. CASE pc[r] = "user"
  <2>1. UserPhase(r) /\ UserMaps(r) /\ UserValues(r)
    BY <1>1 DEF Local, Values
  <2>2. CASE k = "mantl"
    <3>1. keys[r] = {"mantl"} /\ over[r]["root"] = User(r) /\ into[r]["root"] = MantlJson(r)
      BY <1>8, <1>9, <1>u, <2>1, <2>2 DEF UserPhase
    <3>2. /\ c = given[MantlJson(r)]["mantl"] /\ v = given[User(r)]["mantl"]
          /\ maps[MantlJson(r)]["balancer"] = given[MantlJson(r)]["balancer"]
      BY <1>9, <1>11, <1>u, <2>1, <2>2, <3>1 DEF UserPhase, UserMaps
    <3>3. c.from = MantlJson(r) /\ v.from = User(r)
      BY <1>1, <1>5, <1>9, <3>2, Names DEF GivenInv
    <3>4. MantlMap(r) = c /\ AskedMantl(r) = c
      BY <1>5, <1>9, <2>2, <3>1, <3>2, AbsentFacts DEF MantlMap, AskedMantl
    <3>5. "mantl" \notin keys'[r]
      BY <1>7, <1>9, <1>10, <2>2, <3>1
    <3>6. "balancer" \in keys'[r] <=> given[User(r)]["balancer"] # Absent
      <4>1. maps[User(r)]["balancer"] = given[User(r)]["balancer"]
        BY <1>1 DEF Values
      <4>2. keys'[r] = Keys(User(r), "mantl")
        BY <1>7, <2>2, <3>1, <3>3
      <4> QED BY <1>9, <4>1, <4>2 DEF Keys
    <3>7. UserValues(r)'
      BY <1>3, <1>4, <1>5, <1>7, <2>2, <3>2, <3>3, <3>4, <3>5, <3>6
      DEF UserValues, AskedBalancer
    <3> QED BY <1>3, <1>10, <1>u, <3>7 DEF Values, ApiValues, ConfigValues
  <2>3. CASE k = "zookeeper"
    <3>1. "mantl" \notin keys[r] /\ "mantl" \notin keys'[r]
      BY <1>7, <1>8, <1>9, <1>10, <2>3
    <3>2. "balancer" \in keys'[r] <=> "balancer" \in keys[r]
      BY <1>7, <1>9, <1>10, <2>3
    <3>3. over'[r]["mantl"] = over[r]["mantl"]
      BY <1>7, <2>3 DEF Levels
    <3>4. UserValues(r)'
      BY <1>3, <1>4, <2>1, <3>1, <3>2, <3>3 DEF UserValues
    <3> QED BY <1>3, <1>10, <1>u, <3>4 DEF Values, ApiValues, ConfigValues
  <2> QED BY <1>6, <2>2, <2>3
<1>a. CASE pc[r] = "api"
  <2>1. ApiPhase(r) /\ ApiValues(r) /\ v = given[Api][k] /\ v.from = Api
    BY <1>1, <1>5, <1>8, <1>a, ApiInOwner DEF Local, Values, ApiPhase, ApiIntact, GivenInv
  <2>2. \A j : j \in Keys(v.from, k) <=> j \in Fields /\ Parent[j] = k /\ given[Api][j] # Absent
    BY <1>1, <1>10, <2>1 DEF ApiIntact
  <2>3. /\ "zookeeper" \in Keys(v.from, "mantl") /\ "hosts" \in Keys(v.from, "zookeeper")
        /\ "balancer" \notin Keys(v.from, k)
    BY <1>1, <1>9, <2>1, <2>2, ApiSays, AbsentFacts
    DEF Before, Keys, ApiIntact, Fields, Hosts
  <2>4. CASE k = "mantl"
    <3>1. keys[r] = {"mantl"} /\ c = MantlMap(r) /\ MantlMap(r) = AskedMantl(r)
      BY <1>8, <1>9, <1>a, <2>1, <2>4 DEF ApiPhase, ApiValues, MantlMap
    <3>2. "mantl" \notin keys'[r] /\ "zookeeper" \in keys'[r] /\ "balancer" \notin keys'[r]
      BY <1>7, <1>9, <1>10, <2>3, <2>4, <3>1
    <3>3. ApiValues(r)'
      BY <1>3, <1>4, <1>5, <1>7, <2>1, <2>4, <3>1, <3>2 DEF ApiValues
    <3> QED BY <1>3, <1>10, <1>a, <3>3 DEF Values, UserValues, ConfigValues
  <2>5. CASE k = "zookeeper"
    <3>1. "mantl" \notin keys[r] /\ c = ZookeeperMap(r)
      BY <1>8, <1>9, <1>a, <2>1, <2>5 DEF ApiValues, ZookeeperMap
    <3>2. /\ "mantl" \notin keys'[r] /\ "balancer" \notin keys'[r]
          /\ "zookeeper" \notin keys'[r] /\ "hosts" \in keys'[r]
      BY <1>7, <1>9, <1>10, <1>a, <2>1, <2>3, <2>5, <3>1 DEF ApiValues
    <3>3. ApiValues(r)'
      BY <1>3, <1>4, <1>5, <1>7, <2>1, <2>5, <3>1, <3>2 DEF ApiValues
    <3> QED BY <1>3, <1>10, <1>a, <3>3 DEF Values, UserValues, ConfigValues
  <2> QED BY <1>6, <2>4, <2>5
<1>c. CASE pc[r] = "config"
  <2>1. /\ ConfigPhase(r) /\ supported[r] /\ AskedValues(r) /\ DefaultValues(r)
        /\ into[r][Parent[k]] = ConfigJson(r)
    BY <1>1, <1>8, <1>c DEF Local, Values, ConfigValues, ConfigPhase
  <2>2. c = given[ConfigJson(r)][k] /\ c.from = ConfigJson(r)
    BY <1>1, <1>5, <1>8, <1>9, <1>c, <2>1, FieldFacts, Names DEF ConfigPhase, GivenInv
  <2>3. AskedValues(r)'
    BY <1>3, <1>4, <2>1 DEF AskedValues
  <2>4. CASE k = "mantl"
    <3>1. keys[r] = {"mantl"} /\ v = MantlMap(r)
      BY <1>8, <1>9, <2>1, <2>4 DEF DefaultValues, MantlMap
    <3>2. /\ maps[ConfigJson(r)]["mantl"] = given[ConfigJson(r)]["mantl"]
          /\ maps[ConfigJson(r)]["balancer"] = given[ConfigJson(r)]["balancer"]
      BY <1>9, <1>11, <1>c, <2>1, <2>4 DEF ConfigPhase
    <3>k. \A j \in Fields : j \in keys'[r] <=>
            Parent[j] = "mantl" /\ maps[MantlMap(r).from][j] # Absent
      <4>1. v.from = MantlMap(r).from
        BY <3>1
      <4> HIDE DEF c, v
      <4> QED BY ONLY <1>12, <2>4, <3>1, <4>1
    <3>3. "mantl" \notin keys'[r]
      BY ONLY <1>9, <3>k
    <3>4. "balancer" \in keys'[r] <=> AskedBalancer(r) # Absent
      <4>1. maps[MantlMap(r).from]["balancer"] = AskedBalancer(r)
        BY <2>1 DEF AskedValues
      <4> QED BY ONLY <1>9, <3>k, <4>1
    <3>5. "zookeeper" \in keys'[r]
      <4>1. maps[MantlMap(r).from]["zookeeper"] # Absent
        BY <2>1, AbsentFacts DEF AskedValues, ZookeeperMap
      <4> QED BY ONLY <1>9, <3>k, <4>1
    <3>6. DefaultValues(r)'
      BY <1>3, <1>4, <1>5, <1>7, <2>2, <2>4, <3>1, <3>2, <3>3, <3>4, <3>5
      DEF DefaultValues
    <3> QED
      BY <1>3, <1>10, <1>c, <2>1, <2>3, <3>6 DEF Values, UserValues, ApiValues, ConfigValues
  <2>5. CASE k = "zookeeper"
    <3>1. "mantl" \notin keys[r] /\ given[ConfigJson(r)]["mantl"].map
      BY <1>8, <2>1, <2>5 DEF DefaultValues
    <3>2. v = ZookeeperMap(r)
      BY <1>8, <1>9, <2>1, <2>5, <3>1 DEF DefaultValues, ZookeeperMap
    <3>3. maps[ConfigJson(r)]["zookeeper"] = c
      BY <1>9, <2>1, <2>5
    <3>k. \A j \in Fields : j \in keys'[r] <=>
            \/ j \in keys[r] /\ j # "zookeeper"
            \/ Parent[j] = "zookeeper" /\ maps[ZookeeperMap(r).from][j] # Absent
      <4>1. v.from = ZookeeperMap(r).from
        BY <3>2
      <4> HIDE DEF c, v
      <4> QED BY ONLY <1>12, <2>5, <4>1
    <3>4. /\ "mantl" \notin keys'[r] /\ "zookeeper" \notin keys'[r]
          /\ "hosts" \in keys'[r]
          /\ "balancer" \in keys'[r] <=> "balancer" \in keys[r]
      <4>1. maps[ZookeeperMap(r).from]["hosts"] # Absent
        BY <2>1, ApiSays DEF Before, AskedValues
      <4> QED BY ONLY <1>9, <3>1, <3>k, <4>1
    <3>5. over'[r]["mantl"] = over[r]["mantl"]
      BY <1>7, <2>5 DEF Levels
    <3>6. DefaultValues(r)'
      <4>1. IF "balancer" \in keys'[r]
            THEN over'[r]["mantl"] = MantlMap(r).from /\ AskedBalancer(r) # Absent
            ELSE maps[ConfigJson(r)]["balancer"] =
                   IF AskedBalancer(r) = Absent THEN given[ConfigJson(r)]["balancer"]
                   ELSE AskedBalancer(r)
        BY <2>1, <3>1, <3>4, <3>5 DEF DefaultValues
      <4>2. /\ maps[ConfigJson(r)]["mantl"] = given[ConfigJson(r)]["mantl"]
            /\ maps[ConfigJson(r)]["zookeeper"].map
            /\ maps[ConfigJson(r)]["zookeeper"].from = ConfigJson(r)
            /\ over'[r]["zookeeper"] = ZookeeperMap(r).from
        BY <1>5, <1>7, <2>1, <2>2, <2>5, <3>1, <3>2, <3>3 DEF DefaultValues
      <4> QED BY <1>3, <1>4, <3>1, <3>4, <4>1, <4>2 DEF DefaultValues
    <3> QED
      BY <1>3, <1>10, <1>c, <2>1, <2>3, <3>6 DEF Values, UserValues, ApiValues, ConfigValues
  <2> QED BY <1>6, <2>4, <2>5
<1> QED BY <1>8, <1>u, <1>a, <1>c

LEMMA AssignValues ==
    ASSUME NEW r \in Requests, Before(r), Assign(r)
    PROVE  Values(r)'
<1>1. TypeOK /\ GivenInv /\ Local(r) /\ Values(r) /\ ApiIntact
  BY DEF Before, IInv
<1>2. PICK k \in Fields :
        /\ IsNext(r, k)
        /\ ~BothMaps(maps[into[r][Parent[k]]][k], maps[over[r][Parent[k]]][k])
        /\ maps' = [maps EXCEPT ![into[r][Parent[k]]][k] = maps[over[r][Parent[k]]][k]]
        /\ keys' = [keys EXCEPT ![r] = @ \ {k}]
  BY DEF Assign
<1> DEFINE a == into[r][Parent[k]]
           v == maps[over[r][Parent[k]]][k]
<1>3. /\ given' = given /\ supported' = supported /\ pc' = pc
      /\ into' = into /\ over' = over
  BY DEF Assign
<1>4. /\ AskedMantl(r)' = AskedMantl(r) /\ AskedBalancer(r)' = AskedBalancer(r)
      /\ Hosts' = Hosts
  BY <1>3 DEF AskedMantl, AskedBalancer, Hosts
<1>5. /\ keys'[r] = keys[r] \ {k} /\ a \in Owner /\ ~(maps[a][k].map /\ v.map)
  BY <1>1, <1>2, FieldFacts DEF BothMaps, TypeOK
<1>6. \A o \in Owner, j \in Fields :
        maps'[o][j] = IF o = a /\ j = k THEN v ELSE maps[o][j]
  BY <1>1, <1>2, <1>5 DEF TypeOK
<1>7. /\ k \in keys[r] /\ pc[r] \in {"user", "api", "config"}
      /\ "mantl" \in keys[r] => keys[r] = {"mantl"} /\ k = "mantl"
      /\ "zookeeper" \in keys[r] => "hosts" \notin keys[r]
      /\ \A j \in Fields : k \in Path[j] => Pending(r, j)
  BY <1>2, AtKey
<1>8. /\ Parent["mantl"] = "root" /\ Parent["zookeeper"] = "mantl"
      /\ Parent["balancer"] = "mantl" /\ Parent["hosts"] = "zookeeper"
      /\ Fields = {"mantl", "balancer", "zookeeper", "hosts"}
      /\ Pending(r, k)
  BY <1>7, FieldFacts DEF Parent, Fields
<1>9. User(r) \in Owner /\ MantlJson(r) \in Owner /\ ConfigJson(r) \in Owner /\ Api \in Owner
  BY Names, ApiInOwner
<1>u. CASE pc[r] = "user"
  <2>1. /\ UserPhase(r) /\ UserMaps(r) /\ UserValues(r) /\ a = MantlJson(r)
        /\ maps[MantlJson(r)][k] = given[MantlJson(r)][k]
    BY <1>1, <1>7, <1>8, <1>u DEF Local, Values, UserPhase
  <2>2. maps'[User(r)]["balancer"] = given'[User(r)]["balancer"]
    BY <1>1, <1>3, <1>6, <1>8, <1>9, <2>1, Names DEF Values
  <2>3. CASE k = "mantl"
    <3>1. keys[r] = {"mantl"} /\ keys'[r] = {}
      BY <1>5, <1>7, <2>3
    <3>2. v = given[User(r)]["mantl"]
      BY <1>8, <1>u, <2>1, <2>3, <3>1 DEF UserPhase, UserMaps
    <3>3. MantlMap(r)' = v /\ AskedMantl(r) = v
      <4>1. MantlMap(r)' = v
        BY <1>6, <1>8, <1>9, <2>1, <2>3 DEF MantlMap
      <4>2. v # Absent /\ ~(given[MantlJson(r)]["mantl"].map /\ v.map)
        BY <1>5, <1>u, <2>1, <2>3, <3>1, <3>2 DEF UserValues
      <4> QED BY <3>2, <4>1, <4>2 DEF AskedMantl
    <3>4. ASSUME v.map
          PROVE  v.from = User(r) /\ AskedBalancer(r) = given[User(r)]["balancer"]
      <4>1. v.from = User(r)
        BY <1>1, <1>8, <1>9, <3>2, <3>4 DEF GivenInv
      <4>2. ~given[MantlJson(r)]["mantl"].map
        BY <1>5, <2>1, <2>3, <3>4
      <4>3. given[MantlJson(r)]["balancer"] = Absent
        BY <1>9, <4>2 DEF Before, Treelike
      <4> QED BY <3>3, <3>4, <4>1, <4>3 DEF AskedBalancer
    <3>5. UserValues(r)'
      BY <1>3, <1>4, <2>2, <3>1, <3>3, <3>4 DEF UserValues
    <3> QED BY <1>3, <1>u, <2>2, <3>5 DEF Values, ApiValues, ConfigValues
  <2>4. CASE k # "mantl"
    <3>1. "mantl" \notin keys[r] /\ "mantl" \notin keys'[r] /\ MantlMap(r)' = MantlMap(r)
      BY <1>5, <1>6, <1>7, <1>8, <1>9, <2>4 DEF MantlMap
    <3>2. MantlMap(r) = AskedMantl(r)
      BY <1>u, <2>1, <3>1 DEF UserValues
    <3>3. CASE k = "balancer"
      <4>1. /\ v = given[User(r)]["balancer"] /\ v # Absent
            /\ MantlMap(r).map /\ MantlMap(r).from = MantlJson(r)
        BY <1>1, <1>7, <1>8, <1>u, <2>1, <3>3 DEF UserValues, Values
      <4>2. AskedBalancer(r) = v /\ maps'[MantlJson(r)]["balancer"] = v
        BY <1>6, <1>8, <1>9, <2>1, <3>2, <3>3, <4>1 DEF AskedBalancer
      <4>3. UserValues(r)'
        BY <1>3, <1>4, <1>5, <3>1, <3>2, <3>3, <4>1, <4>2 DEF UserValues
      <4> QED BY <1>3, <1>u, <2>2, <4>3 DEF Values, ApiValues, ConfigValues
    <3>4. CASE k # "balancer"
      <4>1. MantlMap(r).map => MantlMap(r).from \in Owner
        BY <1>8, <1>9, Typed DEF MantlMap, Before
      <4>2. MantlMap(r).map =>
              maps'[MantlMap(r).from]["balancer"] = maps[MantlMap(r).from]["balancer"]
        BY <1>6, <1>8, <3>4, <4>1
      <4>3. UserValues(r)'
        BY <1>3, <1>4, <1>5, <1>u, <2>1, <3>1, <3>2, <3>4, <4>2 DEF UserValues
      <4> QED BY <1>3, <1>u, <2>2, <4>3 DEF Values, ApiValues, ConfigValues
    <3> QED BY <3>3, <3>4
  <2> QED BY <2>3, <2>4
<1>a. CASE pc[r] = "api"
  <2>1. /\ ApiPhase(r) /\ ApiValues(r) /\ v = given[Api][k]
        /\ maps'[Api] = given[Api]
    <3>1. v = given[Api][k] /\ ApiPhase(r) /\ ApiValues(r)
      BY <1>1, <1>7, <1>a DEF Local, Values, ApiPhase, ApiIntact
    <3>2. \A j \in Fields : maps'[Api][j] = given[Api][j]
      BY <1>1, <1>6, <1>9, <3>1 DEF ApiIntact
    <3>3. maps'[Api] \in [Fields -> Value] /\ given[Api] \in [Fields -> Value]
      BY <1>1, <1>9, TypeStep DEF Before, Next, mergeConfig, IInv, TypeOK
    <3> QED BY <3>1, <3>2, <3>3
  <2>2. k # "balancer"
    BY <1>7, <1>a, <2>1 DEF ApiValues
  <2>3. \A o \in Owner : maps'[o]["balancer"] = maps[o]["balancer"]
    BY <1>6, <1>8, <2>2
  <2>4. maps'[User(r)]["balancer"] = given'[User(r)]["balancer"]
    BY <1>1, <1>3, <1>9, <2>3 DEF Values
  <2>5. ApiValues(r)'
    <3>1. CASE k = "mantl"
      <4>1. keys[r] = {"mantl"} /\ keys'[r] = {} /\ a = MantlJson(r)
        BY <1>5, <1>7, <1>8, <1>a, <2>1, <3>1 DEF ApiPhase
      <4>2. v.map /\ v.from = Api
        BY <2>1, <3>1, ApiSays DEF Before
      <4>3. MantlMap(r)' = v /\ ~AskedMantl(r).map
        BY <1>5, <1>6, <1>8, <1>9, <1>a, <2>1, <3>1, <4>1, <4>2 DEF ApiValues, MantlMap
      <4>4. maps'[Api]["balancer"] = AskedBalancer(r)
        BY <2>1, <4>3, ApiSays DEF AskedBalancer, Before
      <4>5. ZookeeperMap(r)' = given[Api]["zookeeper"] /\ given[Api]["zookeeper"].map
            /\ given[Api]["zookeeper"].from = Api
        BY <2>1, <4>2, <4>3, ApiSays DEF ZookeeperMap, Before
      <4>6. maps'[Api]["hosts"] = Hosts
        BY <2>1 DEF Hosts
      <4> QED
        BY <1>3, <1>4, <2>1, <3>1, <4>1, <4>2, <4>3, <4>4, <4>5, <4>6 DEF ApiValues
    <3>2. CASE k # "mantl"
      <4>1. "mantl" \notin keys[r] /\ "mantl" \notin keys'[r] /\ MantlMap(r)' = MantlMap(r)
        BY <1>5, <1>6, <1>7, <1>8, <1>9, <3>2 DEF MantlMap
      <4>2. MantlMap(r).map /\ MantlMap(r).from \in Owner
        <5>1. MantlMap(r).map
          BY <1>a, <2>1, <4>1, ApiSays DEF ApiValues, Before
        <5> QED BY <1>8, <1>9, <5>1, Typed DEF MantlMap, Before
      <4>3. maps'[MantlMap(r).from]["balancer"] = AskedBalancer(r)
        BY <1>a, <2>1, <2>3, <4>2 DEF ApiValues
      <4>4. CASE k = "zookeeper"
        <5>1. a = MantlMap(r).from /\ "hosts" \notin keys'[r]
          BY <1>5, <1>7, <1>8, <1>a, <2>1, <4>1, <4>4 DEF ApiValues
        <5>2. ZookeeperMap(r)' = v /\ v.map /\ v.from = Api
          BY <1>6, <1>8, <2>1, <4>1, <4>2, <4>4, <5>1, ApiSays DEF ZookeeperMap, Before
        <5>3. maps'[Api]["hosts"] = Hosts
          BY <2>1 DEF Hosts
        <5> QED
          BY <1>3, <1>4, <1>5, <1>a, <2>1, <4>1, <4>3, <4>4, <5>1, <5>2, <5>3 DEF ApiValues
      <4>5. CASE k = "hosts"
        <5>1. /\ "zookeeper" \notin keys[r] /\ ZookeeperMap(r).map
              /\ a = ZookeeperMap(r).from
          BY <1>7, <1>8, <1>a, <2>1, <4>1, <4>5 DEF ApiValues
        <5>2. ZookeeperMap(r)' = ZookeeperMap(r)
          BY <1>6, <1>8, <4>1, <4>2, <4>5 DEF ZookeeperMap
        <5>3. maps'[a]["hosts"] = Hosts
          BY <1>5, <1>6, <1>8, <2>1, <4>5 DEF Hosts
        <5> QED
          BY <1>3, <1>4, <1>5, <1>a, <2>1, <4>1, <4>3, <4>5, <5>1, <5>2, <5>3 DEF ApiValues
      <4> QED BY <1>8, <2>2, <3>2, <4>4, <4>5
    <3> QED BY <3>1, <3>2
  <2> QED BY <1>3, <1>a, <2>4, <2>5 DEF Values, UserValues, ConfigValues
<1>c. CASE pc[r] = "config"
  <2>1. /\ ConfigPhase(r) /\ supported[r] /\ AskedValues(r) /\ DefaultValues(r)
        /\ a = ConfigJson(r) /\ maps[ConfigJson(r)][k] = given[ConfigJson(r)][k]
    BY <1>1, <1>7, <1>8, <1>c DEF Local, Values, ConfigValues, ConfigPhase
  <2>2. \A o \in {MantlJson(r), User(r), Api}, j \in Fields : maps'[o][j] = maps[o][j]
    BY <1>6, <1>9, <2>1, Names
  <2>3. maps'[User(r)]["balancer"] = given'[User(r)]["balancer"]
    BY <1>1, <1>3, <1>8, <2>2 DEF Values
  <2>4. /\ MantlMap(r).from \in {MantlJson(r), User(r), Api}
        /\ ZookeeperMap(r).from \in {MantlJson(r), User(r), Api}
    BY <2>1, Leads DEF AskedValues, Before
  <2>5. MantlMap(r)' = MantlMap(r)
    BY <1>8, <2>2 DEF MantlMap
  <2>6. ZookeeperMap(r)' = ZookeeperMap(r)
    BY <1>8, <2>2, <2>4, <2>5 DEF ZookeeperMap
  <2>7. AskedValues(r)'
    BY <1>4, <1>8, <2>1, <2>2, <2>4, <2>5, <2>6 DEF AskedValues
  <2>8. \A j \in Fields :
          maps'[ConfigJson(r)][j] = IF j = k THEN v ELSE maps[ConfigJson(r)][j]
    BY <1>6, <1>9, <2>1
  <2>9. DefaultValues(r)'
    <3>1. CASE k = "mantl"
      <4>1. keys[r] = {"mantl"} /\ keys'[r] = {} /\ v = MantlMap(r)
        BY <1>5, <1>7, <1>8, <2>1, <3>1 DEF DefaultValues, MantlMap
      <4>2. ~given[ConfigJson(r)]["mantl"].map
        BY <1>5, <2>1, <3>1, <4>1 DEF AskedValues
      <4> QED BY <1>3, <1>8, <2>5, <2>8, <3>1, <4>1, <4>2 DEF DefaultValues
    <3>2. CASE k # "mantl"
      <4>1. /\ "mantl" \notin keys[r] /\ "mantl" \notin keys'[r]
            /\ given[ConfigJson(r)]["mantl"].map
            /\ maps'[ConfigJson(r)]["mantl"] = given[ConfigJson(r)]["mantl"]
        BY <1>5, <1>7, <1>8, <2>1, <2>8, <3>2 DEF DefaultValues
      <4>2. CASE k = "balancer"
        <5>1. v = AskedBalancer(r) /\ AskedBalancer(r) # Absent
          BY <1>7, <1>8, <2>1, <4>1, <4>2 DEF DefaultValues, AskedValues
        <5>2. maps[ConfigJson(r)]["zookeeper"].map =>
                 maps[ConfigJson(r)]["zookeeper"].from \in Owner
          BY <1>8, <1>9, Typed DEF Before
        <5>3. maps'[ConfigJson(r)]["zookeeper"] = maps[ConfigJson(r)]["zookeeper"]
          BY <1>8, <2>8, <4>2
        <5>4. maps[ConfigJson(r)]["zookeeper"].map =>
                 maps'[maps[ConfigJson(r)]["zookeeper"].from]["hosts"]
                   = maps[maps[ConfigJson(r)]["zookeeper"].from]["hosts"]
          BY <1>6, <1>8, <4>2, <5>2
        <5>5. maps'[ConfigJson(r)]["balancer"] = AskedBalancer(r)
          BY <1>8, <2>8, <4>2, <5>1
        <5> QED
          BY <1>3, <1>4, <1>5, <2>1, <2>5, <2>6, <4>1, <4>2, <5>1, <5>3, <5>4, <5>5
          DEF DefaultValues
      <4>3. CASE k = "zookeeper"
        <5>1. v = ZookeeperMap(r) /\ "hosts" \notin keys'[r]
          BY <1>5, <1>7, <1>8, <2>1, <4>1, <4>3 DEF DefaultValues, ZookeeperMap
        <5>2. maps'[ConfigJson(r)]["zookeeper"] = ZookeeperMap(r)
          BY <1>8, <2>8, <4>3, <5>1
        <5>3. maps'[ConfigJson(r)]["balancer"] = maps[ConfigJson(r)]["balancer"]
          BY <1>8, <2>8, <4>3
        <5>4. ZookeeperMap(r).map /\ maps'[ZookeeperMap(r).from]["hosts"] = Hosts
          BY <1>4, <2>6, <2>7 DEF AskedValues
        <5> QED
          BY <1>3, <1>4, <1>5, <2>1, <2>5, <2>6, <4>1, <4>3, <5>1, <5>2, <5>3, <5>4
          DEF DefaultValues
      <4>4. CASE k = "hosts"
        <5>1. /\ "zookeeper" \notin keys[r] /\ over[r]["zookeeper"] = ZookeeperMap(r).from
              /\ maps[ConfigJson(r)]["zookeeper"].from = ConfigJson(r)
          BY <1>7, <2>1, <4>1, <4>4 DEF DefaultValues
        <5>2. v = Hosts
          BY <1>8, <2>1, <4>4, <5>1 DEF AskedValues
        <5>3. /\ maps'[ConfigJson(r)]["zookeeper"] = maps[ConfigJson(r)]["zookeeper"]
              /\ maps'[ConfigJson(r)]["balancer"] = maps[ConfigJson(r)]["balancer"]
              /\ maps'[ConfigJson(r)]["hosts"] = Hosts
          BY <1>8, <2>8, <4>4, <5>2
        <5> QED
          BY <1>3, <1>4, <1>5, <2>1, <2>5, <2>6, <4>1, <4>4, <5>1, <5>3 DEF DefaultValues
      <4> QED BY <1>8, <3>2, <4>2, <4>3, <4>4
    <3> QED BY <3>1, <3>2
  <2> QED
    BY <1>3, <1>c, <2>1, <2>3, <2>7, <2>9 DEF Values, UserValues, ApiValues, ConfigValues
<1> QED BY <1>7, <1>u, <1>a, <1>c

-----------------------------------------------------------------------------
(* What comes out of a pass.                                               *)

\* Where both documents have a map at k, and which of them counts where not.
Meet(below, above, k) == below[k].map /\ above[k].map
Upper(below, above, k) == IF above[k] = Absent THEN below ELSE above

(* One document over another, field by field.                              *)
LEMMA OverFields ==
    ASSUME NEW below, NEW above
    PROVE  LET o == Over(below, above)
           IN /\ IF Meet(below, above, "mantl") THEN o["mantl"].map
                 ELSE \A k \in Fields : o[k] = Upper(below, above, "mantl")[k]
              /\ Meet(below, above, "mantl") =>
                   /\ ~Meet(below, above, "balancer") =>
                        o["balancer"] = Upper(below, above, "balancer")["balancer"]
                   /\ IF Meet(below, above, "zookeeper") THEN o["zookeeper"].map
                      ELSE \A k \in {"zookeeper", "hosts"} :
                             o[k] = Upper(below, above, "zookeeper")[k]
                   /\ Meet(below, above, "zookeeper") /\ ~Meet(below, above, "hosts") =>
                        o["hosts"] = Upper(below, above, "hosts")["hosts"]
<1> DEFINE o == Over(below, above)
           Parting(k) == {a \in Path[k] : ~(below[a].map /\ above[a].map)}
<1>1. \A k \in Fields :
        o[k] = IF Parting(k) = {} THEN [from |-> Nobody, map |-> TRUE]
               ELSE IF \E a \in Parting(k) :
                         (\A b \in Parting(k) : Depth[a] <= Depth[b]) /\ above[a] = Absent
               THEN below[k] ELSE above[k]
  BY DEF Over
<1>2. /\ Path["mantl"] = {"mantl"} /\ Path["balancer"] = {"mantl", "balancer"}
      /\ Path["zookeeper"] = {"mantl", "zookeeper"}
      /\ Path["hosts"] = {"mantl", "zookeeper", "hosts"}
      /\ Depth["mantl"] = 1 /\ Depth["balancer"] = 2 /\ Depth["zookeeper"] = 2
      /\ Depth["hosts"] = 3
      /\ Fields = {"mantl", "balancer", "zookeeper", "hosts"}
  BY DEF Path, Depth, Fields
<1>3. \A k \in Fields : \A a : a \in Parting(k) <=> a \in Path[k] /\ ~Meet(below, above, a)
  BY DEF Meet
<1> HIDE DEF o, Parting
\* The uppermost key at which the documents are apart decides.
<1>4. ASSUME NEW k \in Fields, NEW a \in Path[k], ~Meet(below, above, a),
             \A b \in Path[k] : b # a /\ ~Meet(below, above, b) => Depth[a] < Depth[b]
      PROVE  o[k] = Upper(below, above, a)[k]
  <2>1. a \in Parting(k) /\ \A b \in Parting(k) : b # a => Depth[a] < Depth[b]
    BY <1>3, <1>4
  <2>2. \A b \in Fields : Depth[b] \in Nat
    BY FieldFacts
  <2>3. \A b \in Parting(k) : b \in Fields
    BY <1>3, FieldFacts
  <2>4. \A b \in Parting(k) : (\A d \in Parting(k) : Depth[b] <= Depth[d]) <=> b = a
    BY <2>1, <2>2, <2>3
  <2>5. o[k] = IF above[a] = Absent THEN below[k] ELSE above[k]
    BY <1>1, <2>1, <2>4
  <2> QED BY <2>5 DEF Upper
<1>5. CASE ~Meet(below, above, "mantl")
  <2>1. ASSUME NEW k \in Fields
        PROVE  o[k] = Upper(below, above, "mantl")[k]
    <3>1. "mantl" \in Path[k] /\ \A b \in Path[k] : b # "mantl" => Depth["mantl"] < Depth[b]
      BY <1>2
    <3> QED BY <1>4, <1>5, <3>1
  <2> QED BY <1>5, <2>1 DEF o
<1>6. CASE Meet(below, above, "mantl")
  <2>1. o["mantl"].map
    <3>1. Parting("mantl") = {}
      BY <1>2, <1>3, <1>6
    <3> QED BY <1>1, <1>2, <3>1
  <2>2. ~Meet(below, above, "balancer") =>
           o["balancer"] = Upper(below, above, "balancer")["balancer"]
    BY <1>2, <1>4, <1>6
  <2>3. ASSUME Meet(below, above, "zookeeper") PROVE o["zookeeper"].map
    <3>1. Parting("zookeeper") = {}
      BY <1>2, <1>3, <1>6, <2>3
    <3> QED BY <1>1, <1>2, <3>1
  <2>4. ASSUME ~Meet(below, above, "zookeeper"), NEW k \in {"zookeeper", "hosts"}
        PROVE  o[k] = Upper(below, above, "zookeeper")[k]
    BY <1>2, <1>4, <1>6, <2>4
  <2>5. Meet(below, above, "zookeeper") /\ ~Meet(below, above, "hosts") =>
           o["hosts"] = Upper(below, above, "hosts")["hosts"]
    BY <1>2, <1>4, <1>6
  <2> QED BY <1>6, <2>1, <2>2, <2>3, <2>4, <2>5 DEF o
<1> QED BY <1>5, <1>6

(* The files and the user with apiConfig over them: nothing but the        *)
(* balancer is left of what they say.                                      *)
LEMMA AskedFields ==
    ASSUME NEW r \in Requests, Before(r)
    PROVE  /\ Asked(r)["mantl"].map /\ Asked(r)["zookeeper"].map
           /\ Asked(r)["hosts"] = Hosts
           /\ Asked(r)["balancer"] = AskedBalancer(r) /\ ~AskedBalancer(r).map
<1> DEFINE m == given[MantlJson(r)]
           u == given[User(r)]
           s == given[Api]
           b == Over(m, u)
<1>1. /\ Treelike(m) /\ Treelike(u)
      /\ s["mantl"].map /\ s["zookeeper"].map /\ s["balancer"] = Absent
      /\ s["hosts"] = Hosts /\ Hosts # Absent /\ ~Hosts.map /\ ~Absent.map
      /\ Fields = {"mantl", "balancer", "zookeeper", "hosts"}
  BY Names, ApiSays, AbsentFacts DEF Before, Hosts, Fields
<1>2. ~AskedBalancer(r).map
  BY <1>1 DEF AskedBalancer, Treelike
<1>3. b["mantl"].map <=> AskedMantl(r).map
  BY <1>1, OverFields DEF AskedMantl, Meet, Upper
<1>4. AskedMantl(r).map => b["balancer"] = AskedBalancer(r)
  <2> SUFFICES ASSUME AskedMantl(r).map PROVE b["balancer"] = AskedBalancer(r)
    OBVIOUS
  <2>1. CASE Meet(m, u, "mantl")
    <3>1. b["balancer"] = Upper(m, u, "balancer")["balancer"]
      BY <1>1, <2>1, OverFields DEF Meet, Treelike
    <3> QED BY <3>1 DEF AskedBalancer, Upper
  <2>2. CASE ~Meet(m, u, "mantl")
    <3>1. b["balancer"] = Upper(m, u, "mantl")["balancer"]
      BY <1>1, <2>2, OverFields
    <3>2. CASE u["mantl"] = Absent
      <4>1. u["balancer"] = Absent
        BY <1>1, <3>2 DEF Treelike
      <4> QED BY <3>1, <3>2, <4>1 DEF AskedBalancer, Upper
    <3>3. CASE u["mantl"] # Absent
      <4>1. AskedMantl(r) = u["mantl"] /\ ~m["mantl"].map
        BY <2>2, <3>3 DEF AskedMantl, Meet
      <4>2. m["balancer"] = Absent
        BY <1>1, <4>1 DEF Treelike
      <4> QED BY <3>1, <3>3, <4>2 DEF AskedBalancer, Upper
    <3> QED BY <3>2, <3>3
  <2> QED BY <2>1, <2>2
<1> HIDE DEF m, u, s, b
<1>5. Asked(r) = Over(b, s)
  BY DEF Asked, b, m, u, s
<1>6. CASE ~AskedMantl(r).map
  <2>1. \A k \in Fields : Over(b, s)[k] = s[k]
    BY <1>1, <1>3, <1>6, OverFields DEF Meet, Upper
  <2>2. AskedBalancer(r) = Absent
    BY <1>6 DEF AskedBalancer
  <2> QED BY <1>1, <1>2, <1>5, <2>1, <2>2
<1>7. CASE AskedMantl(r).map
  <2>1. Meet(b, s, "mantl") /\ ~Meet(b, s, "balancer") /\ ~Meet(b, s, "hosts")
    BY <1>1, <1>3, <1>7 DEF Meet
  <2>2. Over(b, s)["mantl"].map /\ Over(b, s)["balancer"] = AskedBalancer(r)
    BY <1>1, <1>4, <1>7, <2>1, OverFields DEF Upper
  <2>3. Over(b, s)["zookeeper"].map /\ Over(b, s)["hosts"] = Hosts
    BY <1>1, <2>1, OverFields DEF Upper, Meet
  <2> QED BY <1>2, <1>5, <2>2, <2>3
<1> QED BY <1>6, <1>7

\* A configuration that is that of the layers laid over each other.
AsLayered(r, m) ==
    \A k \in Fields :
        LET l == IF supported[r] THEN Over(given[ConfigJson(r)], Asked(r))
                 ELSE given[ConfigJson(r)]
        IN /\ m[k].map = l[k].map
           /\ ~m[k].map => m[k] = l[k]

LEMMA OverType ==
    ASSUME NEW below \in [Fields -> Value], NEW above \in [Fields -> Value]
    PROVE  Over(below, above) \in [Fields -> Value]
<1>1. [from |-> Nobody, map |-> TRUE] \in Value
  BY DEF Value
<1> QED BY <1>1 DEF Over

(* Configurations that agree as formulas are equal.                        *)
LEMMA Equal ==
    ASSUME NEW r \in Requests, NEW m \in [Fields -> Value], IInv,
           \A k \in Fields :
             LET l == IF supported[r] THEN Over(given[ConfigJson(r)], Asked(r))
                      ELSE given[ConfigJson(r)]
             IN /\ m[k].map <=> l[k].map
                /\ ~m[k].map => m[k] = l[k]
    PROVE  AsLayered(r, m)
<1> DEFINE l == IF supported[r] THEN Over(given[ConfigJson(r)], Asked(r))
                ELSE given[ConfigJson(r)]
<1>1. \A o \in {User(r), MantlJson(r), ConfigJson(r), Api} : given[o] \in [Fields -> Value]
  BY Names, ApiInOwner DEF IInv, GivenInv
<1>2. Asked(r) \in [Fields -> Value]
  BY <1>1, OverType DEF Asked
<1>3. l \in [Fields -> Value]
  BY <1>1, <1>2, OverType
<1>4. \A k \in Fields : m[k].map \in BOOLEAN /\ l[k].map \in BOOLEAN
  BY <1>3 DEF Value
<1> HIDE DEF l
<1>5. \A k \in Fields : (m[k].map <=> l[k].map) /\ (~m[k].map => m[k] = l[k])
  BY DEF l
<1>6. \A k \in Fields : m[k].map = l[k].map /\ (~m[k].map => m[k] = l[k])
  BY <1>4, <1>5
<1> QED BY <1>6 DEF AsLayered, l

(* What a template finds at a value or a map.                              *)
LEMMA SeenFields ==
    ASSUME NEW o
    PROVE  LET m == maps[o]["mantl"]
               z == maps[m.from]["zookeeper"]
               Agrees(k, v) == /\ Seen(o)[k].map <=> v.map
                               /\ ~Seen(o)[k].map => Seen(o)[k] = v
           IN /\ Agrees("mantl", m)
              /\ Agrees("balancer", IF m.map THEN maps[m.from]["balancer"] ELSE Absent)
              /\ Agrees("zookeeper", IF m.map THEN z ELSE Absent)
              /\ Agrees("hosts", IF m.map /\ z.map THEN maps[z.from]["hosts"] ELSE Absent)
<1> DEFINE m == maps[o]["mantl"]
           z == maps[m.from]["zookeeper"]
           Plain(v) == IF v.map THEN [from |-> Nobody, map |-> TRUE] ELSE v
           Below(v, k) == IF v.map THEN Plain(maps[v.from][k]) ELSE Absent
<1>1. \A v : (Plain(v).map <=> v.map) /\ (~Plain(v).map => Plain(v) = v)
  OBVIOUS
<1> HIDE DEF Plain
<1>2. Fields = {"mantl", "balancer", "zookeeper", "hosts"} /\ ~Absent.map
  BY AbsentFacts DEF Fields
<1>3. Seen(o) = [k \in Fields |->
          IF k = "mantl" THEN Plain(m)
          ELSE IF k # "hosts" THEN Below(m, k)
          ELSE IF m.map THEN Below(z, k) ELSE Absent]
  BY Zenon DEF Seen, Plain
<1> HIDE DEF m, z
<1>4. /\ Seen(o)["mantl"] = Plain(m)
      /\ Seen(o)["balancer"] = IF m.map THEN Plain(maps[m.from]["balancer"]) ELSE Absent
      /\ Seen(o)["zookeeper"] = IF m.map THEN Plain(maps[m.from]["zookeeper"]) ELSE Absent
      /\ Seen(o)["hosts"] = IF m.map /\ z.map THEN Plain(maps[z.from]["hosts"]) ELSE Absent
  BY <1>2, <1>3
<1> DEFINE Agrees(k, v) == /\ Seen(o)[k].map <=> v.map
                           /\ ~Seen(o)[k].map => Seen(o)[k] = v
<1>5. Agrees("mantl", m)
  BY <1>1, <1>4
<1>6. Agrees("balancer", IF m.map THEN maps[m.from]["balancer"] ELSE Absent)
  BY <1>1, <1>2, <1>4
<1>7. Agrees("zookeeper", IF m.map THEN maps[m.from]["zookeeper"] ELSE Absent)
  BY <1>1, <1>2, <1>4
<1>8. Agrees("hosts", IF m.map /\ z.map THEN maps[z.from]["hosts"] ELSE Absent)
  BY <1>1, <1>2, <1>4
<1> QED BY <1>5, <1>6, <1>7, <1>8 DEF z, m

LEMMA ReturnValues ==
    ASSUME NEW r \in Requests, Before(r), Return(r)
    PROVE  Values(r)' /\ AsLayered(r, Seen(ConfigJson(r)))
<1>1. TypeOK /\ GivenInv /\ Values(r) /\ ConfigValues(r) /\ keys[r] = {} /\ pc[r] = "config"
  BY DEF Before, IInv, Values, Return
<1>2. given' = given /\ maps' = maps /\ pc'[r] = "idle"
  BY <1>1 DEF Return, TypeOK
<1>3. Values(r)'
  BY <1>1, <1>2 DEF Values, UserValues, ApiValues, ConfigValues
<1> DEFINE g == given[ConfigJson(r)]
           w == maps[ConfigJson(r)]
           m == w["mantl"]
           z == maps[m.from]["zookeeper"]
<1>4. /\ Treelike(g) /\ ~Absent.map /\ Hosts # Absent /\ ~Hosts.map
      /\ Fields = {"mantl", "balancer", "zookeeper", "hosts"}
      /\ \A k \in Fields : g[k].map => g[k].from = ConfigJson(r)
  BY <1>1, Names, ApiSays, AbsentFacts DEF Before, Fields, GivenInv
<1>t. Seen(ConfigJson(r)) \in [Fields -> Value] /\ IInv
  BY SeenType, Names DEF Before
<1>5. CASE ~supported[r]
  <2>1. w = g
    BY <1>1, <1>5 DEF ConfigValues
  <2>2. /\ (IF m.map THEN maps[m.from]["balancer"] ELSE Absent) = g["balancer"]
        /\ (IF m.map THEN z ELSE Absent) = g["zookeeper"]
        /\ (IF m.map /\ z.map THEN maps[z.from]["hosts"] ELSE Absent) = g["hosts"]
    BY <1>4, <2>1 DEF Treelike
  <2>3. \A k \in Fields : /\ Seen(ConfigJson(r))[k].map <=> g[k].map
                          /\ ~Seen(ConfigJson(r))[k].map => Seen(ConfigJson(r))[k] = g[k]
    <3> DEFINE t == Seen(ConfigJson(r))
               Agrees(k) == /\ t[k].map <=> g[k].map
                            /\ ~t[k].map => t[k] = g[k]
    <3>1. Agrees("mantl")
      BY <2>1, SeenFields
    <3>2. Agrees("balancer")
      BY <2>2, SeenFields
    <3>3. Agrees("zookeeper")
      BY <2>2, SeenFields
    <3>4. Agrees("hosts")
      BY <2>2, SeenFields
    <3> HIDE DEF t, g
    <3>5. \A k \in Fields : Agrees(k)
      BY <1>4, <3>1, <3>2, <3>3, <3>4
    <3> QED BY <3>5 DEF t, g
  <2>4. AsLayered(r, Seen(ConfigJson(r)))
    BY <1>5, <1>t, <2>3, Equal
  <2> QED BY <1>3, <2>4
<1>6. CASE supported[r]
  <2> DEFINE q == Asked(r)
             l == Over(g, q)
  <2>1. /\ q["mantl"].map /\ q["zookeeper"].map /\ q["hosts"] = Hosts
        /\ q["balancer"] = AskedBalancer(r) /\ ~AskedBalancer(r).map
    BY AskedFields
  <2>2. AskedValues(r) /\ DefaultValues(r)
    BY <1>1, <1>6 DEF ConfigValues
  <2> HIDE DEF q
  <2>3. /\ l["mantl"].map /\ l["zookeeper"].map /\ l["hosts"] = Hosts
        /\ l["balancer"] = IF g["mantl"].map /\ AskedBalancer(r) = Absent THEN g["balancer"]
                           ELSE AskedBalancer(r)
    <3>1. CASE ~g["mantl"].map
      <4>1. \A k \in Fields : l[k] = q[k]
        BY <1>4, <2>1, <3>1, OverFields DEF Meet, Upper
      <4> QED BY <1>4, <2>1, <3>1, <4>1
    <3>2. CASE g["mantl"].map
      <4>1. Meet(g, q, "mantl") /\ ~Meet(g, q, "balancer") /\ ~Meet(g, q, "hosts")
        BY <1>4, <2>1, <3>2 DEF Meet
      <4>2. l["mantl"].map /\ l["balancer"] = Upper(g, q, "balancer")["balancer"]
        BY <4>1, OverFields
      <4>3. l["zookeeper"].map /\ l["hosts"] = Hosts
        BY <1>4, <2>1, <4>1, OverFields DEF Upper, Meet
      <4> QED BY <2>1, <3>2, <4>2, <4>3 DEF Upper
    <3> QED BY <3>1, <3>2
  <2>4. /\ m.map /\ z.map /\ maps[z.from]["hosts"] = Hosts
        /\ maps[m.from]["balancer"] =
             IF g["mantl"].map /\ AskedBalancer(r) = Absent THEN g["balancer"]
             ELSE AskedBalancer(r)
    <3>1. CASE ~g["mantl"].map
      <4>1. m = MantlMap(r)
        BY <1>1, <2>2, <3>1 DEF DefaultValues
      <4> QED BY <2>2, <3>1, <4>1 DEF AskedValues, ZookeeperMap
    <3>2. CASE g["mantl"].map
      <4>1. m = g["mantl"] /\ m.from = ConfigJson(r)
        BY <1>1, <1>4, <2>2, <3>2 DEF DefaultValues
      <4> QED BY <1>1, <2>2, <3>2, <4>1 DEF DefaultValues
    <3> QED BY <3>1, <3>2
  <2>5. ~l["balancer"].map /\ ~l["hosts"].map
    BY <1>4, <2>1, <2>3 DEF Treelike
  <2> HIDE DEF l
  <2>6. \A k \in Fields : /\ Seen(ConfigJson(r))[k].map <=> l[k].map
                          /\ ~Seen(ConfigJson(r))[k].map => Seen(ConfigJson(r))[k] = l[k]
    <3> DEFINE t == Seen(ConfigJson(r))
    <3>1. t["mantl"].map /\ t["zookeeper"].map
      BY <2>4, SeenFields
    <3>2. t["balancer"] = l["balancer"] /\ t["hosts"] = l["hosts"]
      BY <2>3, <2>4, <2>5, SeenFields
    <3> HIDE DEF t
    <3>3. \A k \in Fields : (t[k].map <=> l[k].map) /\ (~t[k].map => t[k] = l[k])
      BY <1>4, <2>3, <3>1, <3>2
    <3> QED BY <3>3 DEF t
  <2>7. AsLayered(r, Seen(ConfigJson(r)))
    BY <1>6, <1>t, <2>6, Equal DEF l, q
  <2> QED BY <1>3, <2>7
<1> QED BY <1>5, <1>6

-----------------------------------------------------------------------------
LEMMA InitValues == Init => ValueInv
<1> SUFFICES ASSUME Init PROVE ValueInv
  OBVIOUS
<1>1. PICK shape \in [Requests \X Layer -> Shape] :
        given = [o \in Owner |-> Says(o, IF o = Api THEN ApiShape ELSE shape[o])]
  BY DEF Init
<1>2. given[Api] = Says(Api, ApiShape)
  BY <1>1, ApiInOwner
<1>3. \A o \in Requests \X Layer : o \in Owner /\ o # Api
  BY ApiAssumption DEF Owner
<1>4. ApiShape \in Shape
  BY DEF ApiShape, Shape, Fields, Parent
<1>5. ASSUME NEW o, NEW s \in Shape, o # Nobody
      PROVE  Treelike(Says(o, s))
  <2>1. \A k \in Fields : /\ Says(o, s)[k].map <=> s[k] = "map"
                          /\ s[k] = "absent" => Says(o, s)[k] = Absent
    BY AbsentFacts DEF Says
  <2>2. /\ s["balancer"] # "map" /\ s["hosts"] # "map"
        /\ s["mantl"] # "map" => s["balancer"] = "absent" /\ s["zookeeper"] = "absent"
        /\ s["zookeeper"] # "map" => s["hosts"] = "absent"
    BY DEF Shape, Fields, Parent
  <2> QED BY <2>1, <2>2 DEF Treelike, Fields
<1>6. ASSUME NEW o \in Owner
      PROVE  Treelike(given[o])
  <2>1. o # Nobody
    BY ApiAssumption
  <2>2. CASE o = Api
    BY <1>2, <1>4, <1>5, <2>1, <2>2
  <2>3. CASE o # Api
    <3>1. o \in Requests \X Layer /\ shape[o] \in Shape
      BY <2>3 DEF Owner
    <3>2. given[o] = Says(o, shape[o])
      BY <1>1, <2>3
    <3> QED BY <1>5, <2>1, <3>1, <3>2
  <2> QED BY <2>2, <2>3
<1>7. maps = given
  BY DEF Init
<1>8. \A o \in Owner : ~maps[o]["balancer"].map /\ ~maps[o]["hosts"].map
  BY <1>6, <1>7 DEF Treelike
<1>9. \A r \in Requests : Values(r)
  BY <1>7 DEF Init, Values, UserValues, ApiValues, ConfigValues
<1>10. MergedAsLayered
  BY DEF Init, MergedAsLayered
<1> QED BY <1>2, <1>6, <1>8, <1>9, <1>10 DEF ValueInv

(* No step puts a map where a lowest field is.                             *)
LEMMA LeavesStep ==
    ASSUME IInv, ValueInv, NEW r \in Requests,
           MergedConfig(r) \/ mergeConfig(r) \/ Options(r) \/ Return(r)
    PROVE  \A o \in Owner : /\ Treelike(given'[o])
                            /\ ~maps'[o]["balancer"].map /\ ~maps'[o]["hosts"].map
<1>1. TypeOK
  BY DEF IInv
<1>2. given' = given
  BY DEF MergedConfig, mergeConfig, Descend, Assign, Options, Return
<1>3. \A o \in Owner : /\ Treelike(given[o])
                       /\ ~maps[o]["balancer"].map /\ ~maps[o]["hosts"].map
  BY DEF ValueInv
<1>4. ASSUME NEW o \in Owner
      PROVE  ~maps'[o]["balancer"].map /\ ~maps'[o]["hosts"].map
  <2>1. CASE MergedConfig(r)
    <3>1. maps'[o] = maps[o] \/ maps'[o] = given[o]
      BY <1>1, <2>1, Names DEF MergedConfig, Decode, TypeOK
    <3> QED BY <1>3, <3>1 DEF Treelike
  <2>2. CASE Assign(r)
    <3>1. PICK k \in Fields :
            maps' = [maps EXCEPT ![into[r][Parent[k]]][k] = maps[over[r][Parent[k]]][k]]
      BY <2>2 DEF Assign
    <3>2. over[r][Parent[k]] \in Owner /\ into[r][Parent[k]] \in Owner
      BY <1>1, FieldFacts DEF TypeOK
    <3>3. \A j \in Fields : \E p \in Owner : maps'[o][j] = maps[p][j]
      <4>1. ASSUME NEW j \in Fields
            PROVE  maps'[o][j] = maps[o][j] \/ maps'[o][j] = maps[over[r][Parent[k]]][j]
        BY <1>1, <3>1, <3>2 DEF TypeOK
      <4> QED BY <3>2, <4>1
    <3> QED BY <1>3, <3>3 DEF Fields
  <2>3. CASE Descend(r) \/ Options(r) \/ Return(r)
    <3>1. maps' = maps
      BY <2>3 DEF Descend, Options, Return
    <3> QED BY <1>3, <3>1
  <2> QED BY <2>1, <2>2, <2>3 DEF mergeConfig
<1> QED BY <1>2, <1>3, <1>4

(* MergedAsLayered speaks of each configuration by itself.                 *)
LEMMA EachAsLayered ==
    MergedAsLayered <=> \A r \in Requests : \A m \in merged[r] : AsLayered(r, m)
BY Zenon DEF MergedAsLayered, AsLayered

LEMMA EachAsLayeredNext ==
    ASSUME \A r \in Requests : \A m \in merged'[r] : AsLayered(r, m)'
    PROVE  MergedAsLayered'
BY Zenon DEF MergedAsLayered, AsLayered

LEMMA LayeredKeeps ==
    ASSUME given' = given, supported' = supported, NEW r, NEW m, AsLayered(r, m)
    PROVE  AsLayered(r, m)'
BY DEF AsLayered, Asked

(* The values of all installations keep.                                   *)
LEMMA ValueStep == IInv /\ ValueInv /\ [Next]_vars => ValueInv'
<1> SUFFICES ASSUME IInv, ValueInv, [Next]_vars PROVE ValueInv'
  OBVIOUS
<1>0. /\ TypeOK /\ given[Api] = Says(Api, ApiShape) /\ MergedAsLayered
      /\ \A r \in Requests : Values(r)
  BY DEF IInv, ValueInv
<1>1. ASSUME NEW r \in Requests, MergedConfig(r) \/ mergeConfig(r) \/ Options(r) \/ Return(r)
      PROVE  ValueInv'
  <2>1. OnlyBy(r)
    BY <1>1, MergedConfigStep, DescendStep, AssignStep, OptionsStep, ReturnStep
    DEF mergeConfig
  <2>2. given' = given /\ supported' = supported
    BY <2>1 DEF OnlyBy
  <2>3. Before(r)
    BY DEF Before, ValueInv
  <2>4. Values(r)'
    BY <1>1, <2>3, MergedConfigValues, DescendValues, AssignValues, OptionsValues,
       ReturnValues DEF mergeConfig
  <2>5. ASSUME NEW q \in Requests \ {r}
        PROVE  Values(q)'
    <3>1. \A o \in {User(q), MantlJson(q), ConfigJson(q), Api} : maps'[o] = maps[o]
      BY <2>1, Apart, Names, ApiInOwner DEF OnlyBy
    <3>2. /\ pc'[q] = pc[q] /\ keys'[q] = keys[q]
          /\ into'[q] = into[q] /\ over'[q] = over[q]
      BY <2>1 DEF OnlyBy
    <3> QED BY <1>0, <2>2, <3>1, <3>2, OtherValues
  <2>6. \A o \in Owner : /\ Treelike(given[o])'
                         /\ ~maps'[o]["balancer"].map /\ ~maps'[o]["hosts"].map
    BY <1>1, <2>2, LeavesStep DEF Treelike
  <2>7. MergedAsLayered'
    <3>1. ASSUME NEW q \in Requests, NEW m \in merged'[q]
          PROVE  AsLayered(q, m)
      <4>1. CASE m \in merged[q]
        BY <1>0, <4>1, EachAsLayered
      <4>2. CASE m \notin merged[q]
        <5>1. Return(r)
          <6>1. merged' # merged
            BY <3>1, <4>2
          <6> QED
            BY <1>1, <6>1 DEF MergedConfig, mergeConfig, Descend, Assign, Options
        <5>2. merged' = [merged EXCEPT ![r] = @ \cup {Seen(ConfigJson(r))}]
          BY <5>1 DEF Return
        <5>3. DOMAIN merged = Requests
          BY <1>0 DEF TypeOK
        <5>4. q = r /\ m = Seen(ConfigJson(r))
          BY ONLY <3>1, <4>2, <5>2, <5>3, r \in Requests, q \in Requests, Zenon
        <5> QED BY <2>3, <5>1, <5>4, ReturnValues
      <4> QED BY <4>1, <4>2
    <3>2. \A q \in Requests : \A m \in merged'[q] : AsLayered(q, m)'
      BY <2>2, <3>1, LayeredKeeps
    <3> QED BY <3>2, EachAsLayeredNext
  <2>8. given'[Api] = Says(Api, ApiShape)
    BY <1>0, <2>2
  <2> QED BY <2>4, <2>5, <2>6, <2>7, <2>8 DEF ValueInv
<1>2. CASE UNCHANGED <<given, supported, maps, calls, merged>>
  <2>1. ASSUME NEW q \in Requests
        PROVE  Values(q)'
    <3>1. /\ given' = given /\ supported' = supported /\ maps' = maps
          /\ pc' = pc /\ keys' = keys /\ into' = into /\ over' = over
      BY <1>2 DEF calls
    <3> QED BY <1>0, <3>1, OtherValues
  <2>2. MergedAsLayered'
    <3>1. \A q \in Requests : \A m \in merged'[q] : AsLayered(q, m)'
      BY <1>0, <1>2, EachAsLayered, LayeredKeeps
    <3> QED BY <3>1, EachAsLayeredNext
  <2>3. \A o \in Owner : /\ Treelike(given[o])'
                         /\ ~maps'[o]["balancer"].map /\ ~maps'[o]["hosts"].map
    BY <1>2 DEF ValueInv, Treelike
  <2>4. given'[Api] = Says(Api, ApiShape)
    BY <1>0, <1>2
  <2> QED BY <2>1, <2>2, <2>3, <2>4 DEF ValueInv
<1> QED
  BY <1>1, <1>2 DEF Next, Collide, vars

(* Every pass of every installation yields the same configuration, that of *)
(* the layers laid over each other (MergedConfig and mergeConfig): what    *)
(* the passes share, and leave in each other's maps, changes nothing of    *)
(* what the templates, the labels and the load balancer are made from.     *)
THEOREM MergedIsLayered == Spec => []MergedAsLayered
<1>1. Spec => []ValueInv
  BY InitValues, ValueStep, Invariant, PTL DEF Spec
<1>2. ValueInv => MergedAsLayered
  BY DEF ValueInv
<1> QED BY <1>1, <1>2, PTL
=============================================================================
