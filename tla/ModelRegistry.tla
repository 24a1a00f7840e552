--------------------------- MODULE ModelRegistry ---------------------------
(***************************************************************************)
(* The model registry of eval-hub: class ModelService in                   *)
(* src/eval_hub/services/model_service.py.                                 *)
(*                                                                         *)
(* The service keeps two maps from model id to model: _registered_models,  *)
(* filled by register/update/delete calls, and _runtime_models, rebuilt    *)
(* wholesale from the process environment by _load_runtime_models, lazily  *)
(* on the first public call (_initialize) and on reload_runtime_models.    *)
(*                                                                         *)
(* In this module every public method is one atomic step: this is exact    *)
(* when the service is only called from one thread (an asyncio event loop  *)
(* calling these synchronous methods cannot interleave them).              *)
(*                                                                         *)
(* Data abstraction: a model keeps the fields the filters of the service   *)
(* read (name, type, status, tags); the URL, path, capabilities, config    *)
(* and timestamps are left out.  The environment is the sequence of        *)
(* (variable, value) pairs that os.environ.items() iterates, restricted to *)
(* the variables EVAL_HUB_MODEL_<raw>_<suffix>, written <<raw, suffix>>.    *)
(***************************************************************************)
EXTENDS Naturals, Sequences, FiniteSets, Functions

CONSTANTS
    RegIds,        \* model ids that callers pass to register/update/delete
    RawIds,        \* the <raw> segments of environment variable names
    IdLower,       \* IdLower[raw] = raw.lower()
    Names,         \* model display names
    SynthName,     \* the name "Runtime Model <ID>" synthesised for a runtime model
    ModelTypes,    \* the members of the ModelType enum (their string values)
    DefaultType,   \* ModelType.OPENAI_COMPATIBLE
    TypeTexts,     \* strings an EVAL_HUB_MODEL_<raw>_TYPE variable may hold
    TypeLower,     \* TypeLower[t] = t.lower()
    UrlTexts,      \* strings an EVAL_HUB_MODEL_<raw>_URL variable may hold
    BlankUrls,     \* those of UrlTexts whose strip() is empty
    Statuses,      \* the members of the ModelStatus enum
    Tags,          \* tag strings
    Requests,      \* registration requests (as the model they create)
    UpdateRequests,\* partial updates: records holding only the fields provided
    EnvSnapshots,  \* the environments the process may be run with
    None           \* Python's None

Suffixes == {"URL", "NAME", "TYPE"}
VarNames == RawIds \X Suffixes
EnvEntry == [var : VarNames, val : UrlTexts \cup Names \cup TypeTexts]
\* The values the variables of each suffix hold.
SuffixValues == [URL |-> UrlTexts, NAME |-> Names, TYPE |-> TypeTexts]

\* An environment: each variable at most once, with a value of its kind.
IsEnv(e) ==
    /\ e \in Seq(EnvEntry)
    /\ \A i \in 1..Len(e) : e[i].val \in SuffixValues[e[i].var[2]]
    /\ \A i, j \in 1..Len(e) : e[i].var = e[j].var => i = j

Model == [name : Names \cup {SynthName}, type : ModelTypes,
          status : Statuses, tags : SUBSET Tags]

\* A field of a model an update request may provide, and its values.
ModelFields == {"name", "type", "status", "tags"}
FieldValues == [name |-> Names, type |-> ModelTypes,
                status |-> Statuses, tags |-> SUBSET Tags]

ASSUME RegistryAssumption ==
    /\ "active" \in Statuses /\ "runtime" \in Tags
    /\ DefaultType \in ModelTypes
    /\ SynthName \notin Names
    /\ None \notin ModelTypes \cup Statuses
    /\ IdLower \in [RawIds -> STRING]
    /\ TypeLower \in [TypeTexts -> STRING]
    /\ BlankUrls \subseteq UrlTexts
    /\ Requests \subseteq Model
    /\ \A u \in UpdateRequests :
          /\ DOMAIN u \subseteq ModelFields
          /\ \A f \in DOMAIN u : u[f] \in FieldValues[f]
    /\ \A e \in EnvSnapshots : IsEnv(e)

VARIABLES
    registered,   \* self._registered_models
    runtime,      \* self._runtime_models
    initialized,  \* self._initialized
    env,          \* os.environ
    loaded        \* history: the environment has been loaded at least once

vars == <<registered, runtime, initialized, env, loaded>>

\* A partial map from keys K to models.
IsRegistry(f, K) == DOMAIN f \subseteq K /\ \A k \in DOMAIN f : f[k] \in Model

EmptyMap == [id \in {} |-> SynthName]

\* The dict after d[k] = v.
DictSet(d, k, v) == [x \in DOMAIN d \cup {k} |-> IF x = k THEN v ELSE d[x]]

\* The ids a runtime model can have: lower-cased <raw> segments.
RuntimeIds == {IdLower[r] : r \in RawIds}

-----------------------------------------------------------------------------
(***************************************************************************)
(* Reading the environment: _load_runtime_models.                          *)
(***************************************************************************)

\* os.getenv(v) is defined, and its value.
EnvHas(e, v) == \E i \in 1..Len(e) : e[i].var = v
EnvGet(e, v) == e[CHOOSE i \in 1..Len(e) : e[i].var = v].val

\* re.match(r'EVAL_HUB_MODEL_(.+)_URL', name) succeeds: (.+) is non-empty.
Matches(raw) == raw # ""

\* Positions of os.environ.items() that pass the name test, the regex and
\* the non-empty URL test, i.e. that reach runtime_models[model_id] = ...
UrlIdx(e) == {i \in 1..Len(e) : /\ e[i].var[2] = "URL"
                                /\ Matches(e[i].var[1])
                                /\ e[i].val \notin BlankUrls}

LoadedIds(e) == {IdLower[e[i].var[1]] : i \in UrlIdx(e)}

\* The dict assignment keeps the last position that maps to id.
Winner(e, id) ==
    CHOOSE i \in UrlIdx(e) : /\ IdLower[e[i].var[1]] = id
                             /\ \A j \in UrlIdx(e) :
                                   IdLower[e[j].var[1]] = id => j <= i

\* ModelType(model_type_str.lower()), or the default on ValueError.
ParseType(t) == IF TypeLower[t] \in ModelTypes THEN TypeLower[t] ELSE DefaultType

RuntimeModel(e, raw) ==
    [name   |-> IF EnvHas(e, <<raw, "NAME">>)
                  THEN EnvGet(e, <<raw, "NAME">>) ELSE SynthName,
     type   |-> IF EnvHas(e, <<raw, "TYPE">>)
                  THEN ParseType(EnvGet(e, <<raw, "TYPE">>)) ELSE DefaultType,
     status |-> "active",
     tags   |-> {"runtime"}]

\* The dict _load_runtime_models builds from the environment e.
LoadRuntimeModels(e) ==
    [id \in LoadedIds(e) |-> RuntimeModel(e, e[Winner(e, id)].var[1])]

\* The runtime map after self._initialize().
AfterInitialize == IF initialized THEN runtime ELSE LoadRuntimeModels(env)

\* The state change of self._initialize() at the head of a public method.
Initialize ==
    /\ runtime' = AfterInitialize
    /\ initialized' = TRUE
    /\ loaded' = TRUE

-----------------------------------------------------------------------------
(***************************************************************************)
(* The public methods.                                                     *)
(***************************************************************************)

Init ==
    /\ registered = EmptyMap
    /\ runtime = EmptyMap
    /\ initialized = FALSE
    /\ env \in EnvSnapshots
    /\ loaded = FALSE

\* Bug variants of register_model: without the runtime-model check, and
\* with the runtime check made on the map as it was before _initialize().
RegisterModelNoRuntimeCheck(id, req) ==
    /\ Initialize
    /\ \/ /\ id \notin DOMAIN registered
          /\ registered' = DictSet(registered, id, req)
       \/ /\ id \in DOMAIN registered
          /\ UNCHANGED registered
    /\ UNCHANGED env

RegisterModelStaleRuntime(id, req) ==
    /\ Initialize
    /\ \/ /\ id \notin DOMAIN registered \cup DOMAIN runtime
          /\ registered' = DictSet(registered, id, req)
       \/ /\ id \in DOMAIN registered \cup DOMAIN runtime
          /\ UNCHANGED registered
    /\ UNCHANGED env

\* register_model: conflict if the id is registered or a runtime model.
RegisterModel(id, req) ==
    /\ Initialize
    /\ \/ /\ id \notin DOMAIN registered
          /\ id \notin DOMAIN AfterInitialize
          /\ registered' = DictSet(registered, id, req)
       \/ /\ id \in DOMAIN registered \cup DOMAIN AfterInitialize
          /\ UNCHANGED registered
    /\ UNCHANGED env

\* update_model: overwrite the fields the request provides.
ApplyUpdate(m, u) == [f \in DOMAIN m |-> IF f \in DOMAIN u THEN u[f] ELSE m[f]]

\* Bug variant of update_model: the request replaces the stored model
\* instead of overwriting only the fields it provides.
UpdateModelReplace(id, u) ==
    /\ Initialize
    /\ \/ /\ id \in DOMAIN AfterInitialize
          /\ UNCHANGED registered
       \/ /\ id \notin DOMAIN AfterInitialize
          /\ id \notin DOMAIN registered
          /\ UNCHANGED registered
       \/ /\ id \notin DOMAIN AfterInitialize
          /\ id \in DOMAIN registered
          /\ registered' = [registered EXCEPT ![id] = u]
    /\ UNCHANGED env

UpdateModel(id, u) ==
    /\ Initialize
    /\ \/ /\ id \in DOMAIN AfterInitialize            \* ValueError
          /\ UNCHANGED registered
       \/ /\ id \notin DOMAIN AfterInitialize         \* None
          /\ id \notin DOMAIN registered
          /\ UNCHANGED registered
       \/ /\ id \notin DOMAIN AfterInitialize
          /\ id \in DOMAIN registered
          /\ registered' = [registered EXCEPT ![id] = ApplyUpdate(@, u)]
    /\ UNCHANGED env

\* Bug variant of delete_model: the entry is set to None instead of removed.
DeleteModelStoresNone(id) ==
    /\ Initialize
    /\ \/ /\ id \in DOMAIN AfterInitialize
          /\ UNCHANGED registered
       \/ /\ id \notin DOMAIN AfterInitialize
          /\ id \in DOMAIN registered
          /\ registered' = [registered EXCEPT ![id] = None]
       \/ /\ id \notin DOMAIN AfterInitialize
          /\ id \notin DOMAIN registered
          /\ UNCHANGED registered
    /\ UNCHANGED env

DeleteModel(id) ==
    /\ Initialize
    /\ \/ /\ id \in DOMAIN AfterInitialize            \* ValueError
          /\ UNCHANGED registered
       \/ /\ id \notin DOMAIN AfterInitialize         \* True
          /\ id \in DOMAIN registered
          /\ registered' = Restrict(registered, DOMAIN registered \ {id})
       \/ /\ id \notin DOMAIN AfterInitialize         \* False
          /\ id \notin DOMAIN registered
          /\ UNCHANGED registered
    /\ UNCHANGED env

\* get_model_by_id, get_all_models, search_models, get_active_models: their
\* only state change is the lazy initialisation.
ReadModels ==
    /\ Initialize
    /\ UNCHANGED <<registered, env>>

\* reload_runtime_models: clear, then load; _initialized is not touched.
ReloadRuntimeModels ==
    /\ runtime' = LoadRuntimeModels(env)
    /\ loaded' = TRUE
    /\ UNCHANGED <<registered, initialized, env>>

\* The operator of the process sets or removes EVAL_HUB_MODEL_* variables.
SetEnv(e) ==
    /\ env' = e
    /\ UNCHANGED <<registered, runtime, initialized, loaded>>

ServiceNext ==
    \/ \E id \in RegIds, req \in Requests : RegisterModel(id, req)
    \/ \E id \in RegIds, u \in UpdateRequests : UpdateModel(id, u)
    \/ \E id \in RegIds : DeleteModel(id)
    \/ ReadModels
    \/ ReloadRuntimeModels

Next == ServiceNext \/ \E e \in EnvSnapshots : SetEnv(e)

Spec == Init /\ [][Next]_vars

\* The environment is fixed for the life of the process.
FixedEnvSpec == Init /\ [][ServiceNext]_vars

-----------------------------------------------------------------------------
(***************************************************************************)
(* Responses of the read-only methods.                                     *)
(***************************************************************************)

\* get_model_by_id: the registered map is consulted first.
GetModelById(id) ==
    IF id \in DOMAIN registered THEN registered[id]
    ELSE IF id \in DOMAIN runtime THEN runtime[id] ELSE None

\* The ids get_all_models lists, registered first, as a sequence-free bag:
\* the number of entries it reports is the sum of the two counts.
ListedRegistered(includeInactive) ==
    {id \in DOMAIN registered : includeInactive \/ registered[id].status = "active"}
TotalModels(includeInactive) ==
    Cardinality(ListedRegistered(includeInactive)) + Cardinality(DOMAIN runtime)

\* search_models: all filters must match; tags is an any-of filter; a filter
\* that is None (here: the empty set for tags) is ignored.
SearchModels(type, status, tags) ==
    LET Keep(m) == /\ type = None \/ m.type = type
                   /\ status = None \/ m.status = status
                   /\ tags = {} \/ tags \cap m.tags # {}
    IN  {<<"registered", id>> : id \in {i \in DOMAIN registered : Keep(registered[i])}}
          \cup {<<"runtime", id>> : id \in {i \in DOMAIN runtime : Keep(runtime[i])}}

-----------------------------------------------------------------------------
(***************************************************************************)
(* Properties.                                                             *)
(***************************************************************************)

\* Both maps are partial maps from ids to models.
TypeOK ==
    /\ IsRegistry(registered, RegIds)
    /\ IsRegistry(runtime, RuntimeIds)
    /\ initialized \in BOOLEAN
    /\ env \in EnvSnapshots
    /\ loaded \in BOOLEAN

\* Spec section 3: an id of the environment-sourced registry is never at
\* the same time in the mutable registry (register_model checks it,
\* reload_runtime_models and _initialize do not).
RegistriesDisjoint == DOMAIN registered \cap DOMAIN runtime = {}

\* register_model never adds an id that the runtime map holds after the
\* same call, even when that call is the one that loads the environment.
RegistrationNeverShadowsRuntime ==
    [][\A id \in DOMAIN registered' \ DOMAIN registered :
          id \notin DOMAIN runtime']_vars

\* Spec 4.1: the environment is loaded on the first public call "if not
\* already done" and then only by an explicit reload; reload_runtime_models
\* does not set _initialized, so a later call loads again.
LoadsOnlyOnFirstCallOrReload ==
    [][loaded /\ runtime' # runtime => ReloadRuntimeModels]_vars

-----------------------------------------------------------------------------
(***************************************************************************)
(* Refinement: with a fixed environment, ModelService implements the       *)
(* catalog of RegistryCatalog.  A caller always sees the runtime map as    *)
(* it is after _initialize() (every public method starts with it), and    *)
(* a registered id hides nothing, since the two maps are disjoint.         *)
(***************************************************************************)
CatalogView ==
    [id \in DOMAIN registered \cup DOMAIN AfterInitialize |->
        IF id \in DOMAIN registered
        THEN [src |-> "registered", model |-> registered[id]]
        ELSE [src |-> "runtime", model |-> AfterInitialize[id]]]

Catalog == INSTANCE RegistryCatalog
               WITH Ids <- RegIds, Models <- Model,
                    envModels <- LoadRuntimeModels(env), catalog <- CatalogView

\* Spec 3 and 4.1 as one promise: under a fixed environment, every call of
\* ModelService is a step of the catalog (environment entries fixed and
\* reserved, caller entries added under free ids, edited, removed) or
\* changes nothing a caller can see.
CatalogRefinement == Catalog!CSpec

=============================================================================
