------------------------ MODULE ModelRegistryProofs ------------------------
(***************************************************************************)
(* Proofs about ModelRegistry, for every value of its constants that       *)
(* satisfies RegistryAssumption.                                           *)
(*                                                                         *)
(*  - TypeCorrect: both maps of ModelService always map ids to models.     *)
(*  - FixedEnvDisjoint: while the environment does not change, no id is   *)
(*    ever both a registered and a runtime model.                          *)
(***************************************************************************)
EXTENDS ModelRegistry, TLAPS

-----------------------------------------------------------------------------
(* Lemmas about the operators the registry is built from.                  *)

\* A model built from environment e by _load_runtime_models is a model,
\* whatever the <raw> segment: NAME and TYPE values are of their kind.
LEMMA RuntimeModelType ==
    ASSUME NEW e, IsEnv(e), NEW raw
    PROVE  RuntimeModel(e, raw) \in Model
<1>1. EnvHas(e, <<raw, "NAME">>) => EnvGet(e, <<raw, "NAME">>) \in Names
    BY DEF EnvHas, EnvGet, IsEnv, SuffixValues
<1>2. \A t : ParseType(t) \in ModelTypes
    BY RegistryAssumption DEF ParseType
<1>3. "active" \in Statuses /\ {"runtime"} \in SUBSET Tags /\ DefaultType \in ModelTypes
    BY RegistryAssumption
<1>. QED
    BY <1>1, <1>2, <1>3 DEF RuntimeModel, Model

\* The map _load_runtime_models builds is keyed by LoadedIds(e).
LEMMA LoadType ==
    ASSUME NEW e, IsEnv(e)
    PROVE  /\ IsRegistry(LoadRuntimeModels(e), RuntimeIds)
           /\ DOMAIN LoadRuntimeModels(e) = LoadedIds(e)
<1>1. LoadedIds(e) \subseteq RuntimeIds
    <2> SUFFICES ASSUME NEW i \in UrlIdx(e)
                 PROVE  IdLower[e[i].var[1]] \in RuntimeIds
        BY DEF LoadedIds
    <2>1. e[i] \in EnvEntry
        BY DEF UrlIdx, IsEnv
    <2>2. e[i].var[1] \in RawIds
        BY <2>1 DEF EnvEntry, VarNames
    <2>. QED
        BY <2>2 DEF RuntimeIds
<1>. QED
    BY <1>1, RuntimeModelType DEF LoadRuntimeModels, IsRegistry

\* d[k] = v keeps a registry a registry.
LEMMA DictSetType ==
    ASSUME NEW d, NEW K, IsRegistry(d, K), NEW k \in K, NEW v \in Model
    PROVE  /\ IsRegistry(DictSet(d, k, v), K)
           /\ DOMAIN DictSet(d, k, v) = DOMAIN d \cup {k}
BY DEF DictSet, IsRegistry

\* update_model's field-by-field assignment keeps a model a model.
LEMMA ApplyUpdateType ==
    ASSUME NEW m \in Model, NEW u \in UpdateRequests
    PROVE  ApplyUpdate(m, u) \in Model
<1>1. /\ DOMAIN u \subseteq ModelFields
      /\ \A f \in DOMAIN u : u[f] \in FieldValues[f]
    BY RegistryAssumption
<1>2. DOMAIN m = ModelFields
    BY DEF Model, ModelFields
<1>. QED
    BY <1>1, <1>2 DEF ApplyUpdate, Model, ModelFields, FieldValues

\* The runtime map after _initialize() is a registry.
LEMMA AfterInitializeType ==
    ASSUME TypeOK
    PROVE  IsRegistry(AfterInitialize, RuntimeIds)
BY LoadType, RegistryAssumption DEF TypeOK, AfterInitialize

-----------------------------------------------------------------------------
(* Type correctness.                                                       *)

LEMMA InitTypeOK == Init => TypeOK
BY RegistryAssumption DEF Init, TypeOK, IsRegistry, EmptyMap

\* Every step of the service and of the environment preserves TypeOK.
LEMMA NextTypeOK == TypeOK /\ [Next]_vars => TypeOK'
<1> SUFFICES ASSUME TypeOK, [Next]_vars PROVE TypeOK'
    OBVIOUS
<1>0. IsRegistry(AfterInitialize, RuntimeIds)
    BY AfterInitializeType
<1>1. ASSUME NEW id \in RegIds, NEW req \in Requests, RegisterModel(id, req)
      PROVE  TypeOK'
    <2>1. req \in Model
        BY RegistryAssumption
    <2>2. IsRegistry(registered', RegIds)
        <3>1. CASE registered' = DictSet(registered, id, req)
            BY <3>1, <2>1, DictSetType DEF TypeOK
        <3>2. CASE UNCHANGED registered
            BY <3>2 DEF TypeOK
        <3>. QED
            BY <1>1, <3>1, <3>2 DEF RegisterModel
    <2>. QED
        BY <1>0, <1>1, <2>2 DEF RegisterModel, Initialize, TypeOK
<1>2. ASSUME NEW id \in RegIds, NEW u \in UpdateRequests, UpdateModel(id, u)
      PROVE  TypeOK'
    <2>1. IsRegistry(registered', RegIds)
        <3>1. CASE id \in DOMAIN registered
            BY <1>2, <3>1, ApplyUpdateType DEF UpdateModel, TypeOK, IsRegistry
        <3>2. CASE id \notin DOMAIN registered
            BY <1>2, <3>2 DEF UpdateModel, TypeOK
        <3>. QED
            BY <3>1, <3>2
    <2>. QED
        BY <1>0, <1>2, <2>1 DEF UpdateModel, Initialize, TypeOK
<1>3. ASSUME NEW id \in RegIds, DeleteModel(id)
      PROVE  TypeOK'
    <2>1. IsRegistry(registered', RegIds)
        BY <1>3 DEF DeleteModel, TypeOK, IsRegistry, Restrict
    <2>. QED
        BY <1>0, <1>3, <2>1 DEF DeleteModel, Initialize, TypeOK
<1>4. CASE ReadModels
    BY <1>0, <1>4 DEF ReadModels, Initialize, TypeOK
<1>5. CASE ReloadRuntimeModels
    BY <1>5, LoadType, RegistryAssumption DEF ReloadRuntimeModels, TypeOK
<1>6. ASSUME NEW e \in EnvSnapshots, SetEnv(e)
      PROVE  TypeOK'
    BY <1>6 DEF SetEnv, TypeOK
<1>7. CASE UNCHANGED vars
    BY <1>7 DEF vars, TypeOK
<1>. QED
    BY <1>1, <1>2, <1>3, <1>4, <1>5, <1>6, <1>7 DEF Next, ServiceNext

\* Every reachable state of the service maps ids to models in both maps,
\* whatever the environment changes between calls.
THEOREM TypeCorrect == Spec => []TypeOK
BY InitTypeOK, NextTypeOK, PTL DEF Spec

-----------------------------------------------------------------------------
(* The action property of register_model holds for every step, with the  *)
(* environment changing between calls: it needs no invariant.            *)

\* A step adds a registered id only through register_model's insert, whose
\* check ran against the runtime map after _initialize(), which is the
\* runtime map the step leaves.
LEMMA NextNeverShadows ==
    [Next]_vars => [\A id \in DOMAIN registered' \ DOMAIN registered :
                       id \notin DOMAIN runtime']_vars
<1> SUFFICES ASSUME [Next]_vars, NEW x \in DOMAIN registered' \ DOMAIN registered
             PROVE  x \notin DOMAIN runtime'
    OBVIOUS
<1>1. ASSUME NEW id \in RegIds, NEW req \in Requests, RegisterModel(id, req)
      PROVE  x \notin DOMAIN runtime'
    <2>1. CASE /\ id \notin DOMAIN AfterInitialize
               /\ registered' = DictSet(registered, id, req)
        BY <1>1, <2>1 DEF RegisterModel, Initialize, DictSet
    <2>2. CASE UNCHANGED registered
        BY <2>2
    <2>. QED
        BY <1>1, <2>1, <2>2 DEF RegisterModel
<1>2. ASSUME NEW id \in RegIds, NEW u \in UpdateRequests, UpdateModel(id, u)
      PROVE  x \notin DOMAIN runtime'
    BY <1>2 DEF UpdateModel
<1>3. ASSUME NEW id \in RegIds, DeleteModel(id)
      PROVE  x \notin DOMAIN runtime'
    BY <1>3 DEF DeleteModel, Restrict
<1>4. CASE ReadModels \/ ReloadRuntimeModels \/ (\E e \in EnvSnapshots : SetEnv(e))
           \/ UNCHANGED vars
    BY <1>4 DEF ReadModels, ReloadRuntimeModels, SetEnv, vars
<1>. QED
    BY <1>1, <1>2, <1>3, <1>4 DEF Next, ServiceNext

\* register_model never adds an id that the runtime map holds once the
\* call is over, in every run, including the call that triggers the first
\* load and with the environment changing between calls.
THEOREM SpecNeverShadows == Spec => RegistrationNeverShadowsRuntime
BY NextNeverShadows, PTL DEF Spec, RegistrationNeverShadowsRuntime

-----------------------------------------------------------------------------
(* With a fixed environment the two maps stay disjoint.                    *)
(*                                                                         *)
(* RegistriesDisjoint is not inductive: a step that loads the environment  *)
(* (_initialize or reload) could bring in an id that is already registered *)
(* unless every registered id lies outside the ids the environment would   *)
(* load, and register_model's check against the map after _initialize()   *)
(* only excludes those ids if that map holds all of them once the service  *)
(* is initialized (here: is the whole load, which the refinement below     *)
(* also needs).                                                            *)

DisjointInv ==
    /\ TypeOK
    /\ DOMAIN runtime \subseteq LoadedIds(env)
    /\ initialized => runtime = LoadRuntimeModels(env)
    /\ DOMAIN registered \cap LoadedIds(env) = {}

\* After _initialize() the runtime map is the environment's load.
LEMMA AfterInitializeLoad ==
    ASSUME DisjointInv
    PROVE  /\ AfterInitialize = LoadRuntimeModels(env)
           /\ DOMAIN AfterInitialize = LoadedIds(env)
BY LoadType, RegistryAssumption DEF DisjointInv, TypeOK, AfterInitialize

LEMMA InitDisjointInv == Init => DisjointInv
BY InitTypeOK DEF Init, DisjointInv, EmptyMap

LEMMA ServiceNextDisjointInv == DisjointInv /\ [ServiceNext]_vars => DisjointInv'
<1> SUFFICES ASSUME DisjointInv, [ServiceNext]_vars PROVE DisjointInv'
    OBVIOUS
<1>0. /\ TypeOK'
      /\ AfterInitialize = LoadRuntimeModels(env)
      /\ DOMAIN AfterInitialize = LoadedIds(env)
    BY NextTypeOK, AfterInitializeLoad DEF DisjointInv, Next
<1>1. ASSUME NEW id \in RegIds, NEW req \in Requests, RegisterModel(id, req)
      PROVE  DisjointInv'
    <2>1. DOMAIN registered' \cap LoadedIds(env) = {}
        <3>1. CASE id \notin DOMAIN AfterInitialize
                   /\ registered' = DictSet(registered, id, req)
            BY <1>0, <3>1 DEF DisjointInv, DictSet
        <3>2. CASE UNCHANGED registered
            BY <3>2 DEF DisjointInv
        <3>. QED
            BY <1>1, <3>1, <3>2 DEF RegisterModel
    <2>. QED
        BY <1>0, <1>1, <2>1 DEF RegisterModel, Initialize, DisjointInv
<1>2. ASSUME NEW id \in RegIds, NEW u \in UpdateRequests, UpdateModel(id, u)
      PROVE  DisjointInv'
    <2>1. DOMAIN registered' = DOMAIN registered
        BY <1>2 DEF UpdateModel
    <2>. QED
        BY <1>0, <1>2, <2>1 DEF UpdateModel, Initialize, DisjointInv
<1>3. ASSUME NEW id \in RegIds, DeleteModel(id)
      PROVE  DisjointInv'
    <2>1. DOMAIN registered' \subseteq DOMAIN registered
        BY <1>3 DEF DeleteModel, Restrict
    <2>. QED
        BY <1>0, <1>3, <2>1 DEF DeleteModel, Initialize, DisjointInv
<1>4. CASE ReadModels
    BY <1>0, <1>4 DEF ReadModels, Initialize, DisjointInv
<1>5. CASE ReloadRuntimeModels
    BY <1>0, <1>5, LoadType, RegistryAssumption
       DEF ReloadRuntimeModels, DisjointInv, TypeOK
<1>6. CASE UNCHANGED vars
    BY <1>0, <1>6 DEF vars, DisjointInv
<1>. QED
    BY <1>1, <1>2, <1>3, <1>4, <1>5, <1>6 DEF ServiceNext

\* Spec section 3 (an id of the environment-sourced registry is never also
\* in the mutable registry) holds in every run of ModelService in which
\* os.environ does not change, for every environment and every sequence of
\* register/update/delete/get/list/search/reload calls.
THEOREM FixedEnvDisjoint == FixedEnvSpec => []RegistriesDisjoint
<1>1. DisjointInv => RegistriesDisjoint
    BY DEF DisjointInv, RegistriesDisjoint
<1>. QED
    BY <1>1, InitDisjointInv, ServiceNextDisjointInv, PTL DEF FixedEnvSpec

-----------------------------------------------------------------------------
(* With a fixed environment ModelService implements RegistryCatalog.      *)

\* The catalog a caller sees, given the registered map r, once the runtime
\* map after _initialize() is known to be the environment's load.
View(r) ==
    [id \in DOMAIN r \cup LoadedIds(env) |->
        IF id \in DOMAIN r THEN [src |-> "registered", model |-> r[id]]
        ELSE [src |-> "runtime", model |-> LoadRuntimeModels(env)[id]]]

LEMMA ViewNow ==
    ASSUME DisjointInv
    PROVE  CatalogView = View(registered)
BY AfterInitializeLoad DEF CatalogView, View

LEMMA InitCatalog == Init => Catalog!CInit
<1> SUFFICES ASSUME Init PROVE Catalog!CInit
    OBVIOUS
<1>1. DisjointInv
    BY InitDisjointInv
<1>2. CatalogView = View(registered) /\ DOMAIN registered = {}
    BY <1>1, ViewNow DEF Init, EmptyMap
<1>3. DOMAIN LoadRuntimeModels(env) = LoadedIds(env)
    BY <1>1, LoadType, RegistryAssumption DEF DisjointInv, TypeOK
<1>. QED
    BY <1>2, <1>3 DEF Catalog!CInit, View

\* Every step of the service is a catalog step or leaves what callers see
\* unchanged.
LEMMA StepCatalog ==
    DisjointInv /\ [ServiceNext]_vars => [Catalog!CNext]_Catalog!cvars
<1> SUFFICES ASSUME DisjointInv, [ServiceNext]_vars
             PROVE  [Catalog!CNext]_Catalog!cvars
    OBVIOUS
<1>0. /\ DisjointInv'
      /\ env' = env
      /\ CatalogView = View(registered)
    BY ServiceNextDisjointInv, ViewNow DEF ServiceNext, RegisterModel, UpdateModel,
       DeleteModel, ReadModels, ReloadRuntimeModels, vars
<1>1. CatalogView' = View(registered')
    <2>1. AfterInitialize' = LoadRuntimeModels(env)
        BY <1>0 DEF DisjointInv, AfterInitialize
    <2>2. DOMAIN LoadRuntimeModels(env) = LoadedIds(env)
        BY <1>0, AfterInitializeLoad
    <2>. QED
        BY <1>0, <2>1, <2>2 DEF CatalogView, View
\* A step that leaves the registered map alone is a stutter of the catalog.
<1>2. CASE UNCHANGED registered
    BY <1>0, <1>1, <1>2 DEF Catalog!cvars
<1>3. ASSUME NEW id \in RegIds, NEW req \in Requests,
             id \notin DOMAIN registered, id \notin LoadedIds(env),
             registered' = DictSet(registered, id, req)
      PROVE  Catalog!Add(id, req)
    <2>1. View(registered') = [x \in DOMAIN View(registered) \cup {id} |->
                 IF x = id THEN [src |-> "registered", model |-> req]
                 ELSE View(registered)[x]]
        BY <1>3 DEF View, DictSet
    <2>. QED
        BY <1>0, <1>1, <1>3, <2>1 DEF Catalog!Add, View
<1>4. ASSUME NEW id \in RegIds, NEW u \in UpdateRequests,
             id \in DOMAIN registered,
             registered' = [registered EXCEPT ![id] = ApplyUpdate(@, u)]
      PROVE  Catalog!Edit(id, ApplyUpdate(registered[id], u))
    <2>1. View(registered') = [View(registered) EXCEPT
              ![id] = [src |-> "registered", model |-> ApplyUpdate(registered[id], u)]]
        BY <1>4 DEF View
    <2>. QED
        BY <1>0, <1>1, <1>4, <2>1 DEF Catalog!Edit, View
<1>5. ASSUME NEW id \in RegIds, id \in DOMAIN registered,
             registered' = Restrict(registered, DOMAIN registered \ {id})
      PROVE  Catalog!Remove(id)
    <2>1. View(registered') = [x \in DOMAIN View(registered) \ {id} |-> View(registered)[x]]
        BY <1>5, <1>0 DEF View, Restrict, DisjointInv
    <2>. QED
        BY <1>0, <1>1, <1>5, <2>1 DEF Catalog!Remove, View
<1>6. /\ DOMAIN AfterInitialize = LoadedIds(env)
      /\ UNCHANGED LoadRuntimeModels(env)
      /\ \A id \in DOMAIN registered : registered[id] \in Model
    BY <1>0, AfterInitializeLoad DEF DisjointInv, TypeOK, IsRegistry
\* A catalog step of the service keeps the environment's models.
<1>7. ASSUME NEW id \in RegIds, NEW m \in Model,
             Catalog!Add(id, m) \/ Catalog!Edit(id, m) \/ Catalog!Remove(id)
      PROVE  [Catalog!CNext]_Catalog!cvars
    BY <1>6, <1>7 DEF Catalog!CNext
<1>8. ASSUME NEW id \in RegIds, NEW req \in Requests, RegisterModel(id, req)
      PROVE  [Catalog!CNext]_Catalog!cvars
    <2>1. CASE id \notin DOMAIN registered /\ id \notin DOMAIN AfterInitialize
        <3>1. registered' = DictSet(registered, id, req)
            BY <1>8, <2>1 DEF RegisterModel
        <3>2. req \in Model
            BY RegistryAssumption
        <3>. QED
            BY <1>3, <1>6, <1>7, <2>1, <3>1, <3>2
    <2>2. CASE id \in DOMAIN registered \cup DOMAIN AfterInitialize
        BY <1>2, <1>8, <2>2 DEF RegisterModel
    <2>. QED
        BY <2>1, <2>2
<1>9. ASSUME NEW id \in RegIds, NEW u \in UpdateRequests, UpdateModel(id, u)
      PROVE  [Catalog!CNext]_Catalog!cvars
    <2>1. CASE id \notin DOMAIN AfterInitialize /\ id \in DOMAIN registered
        <3>1. registered' = [registered EXCEPT ![id] = ApplyUpdate(@, u)]
            BY <1>9, <2>1 DEF UpdateModel
        <3>2. ApplyUpdate(registered[id], u) \in Model
            BY <1>6, <2>1, ApplyUpdateType
        <3>. QED
            BY <1>4, <1>7, <2>1, <3>1, <3>2
    <2>2. CASE id \in DOMAIN AfterInitialize \/ id \notin DOMAIN registered
        BY <1>2, <1>9, <2>2 DEF UpdateModel
    <2>. QED
        BY <2>1, <2>2
<1>10. ASSUME NEW id \in RegIds, DeleteModel(id)
       PROVE  [Catalog!CNext]_Catalog!cvars
    <2>1. CASE id \notin DOMAIN AfterInitialize /\ id \in DOMAIN registered
        <3>1. registered' = Restrict(registered, DOMAIN registered \ {id})
            BY <1>10, <2>1 DEF DeleteModel
        <3>2. registered[id] \in Model
            BY <1>6, <2>1
        <3>. QED
            BY <1>5, <1>7, <2>1, <3>1, <3>2
    <2>2. CASE id \in DOMAIN AfterInitialize \/ id \notin DOMAIN registered
        BY <1>2, <1>10, <2>2 DEF DeleteModel
    <2>. QED
        BY <2>1, <2>2
<1>11. CASE ReadModels \/ ReloadRuntimeModels \/ UNCHANGED vars
    BY <1>2, <1>11 DEF ReadModels, ReloadRuntimeModels, vars
<1>. QED
    BY <1>8, <1>9, <1>10, <1>11 DEF ServiceNext

\* Spec sections 3 and 4.1 as one promise: in every run of ModelService
\* with a fixed environment, each call adds a model under a free id that
\* the environment does not define, edits or removes a model a caller
\* added, or changes nothing a caller can observe.
THEOREM FixedEnvRefinesCatalog == FixedEnvSpec => CatalogRefinement
<1>1. FixedEnvSpec => []DisjointInv
    BY InitDisjointInv, ServiceNextDisjointInv, PTL DEF FixedEnvSpec
<1>. QED
    BY <1>1, InitCatalog, StepCatalog, PTL
       DEF FixedEnvSpec, CatalogRefinement, Catalog!CSpec

=============================================================================
