# Formal models of eval-hub's evaluation orchestration core

This directory holds TLA+ models of the eval-hub code under `src/`. It also holds
the TLC configurations that check those models and the TLAPS proofs about them.

## 1. Inventory

The repository contains three source files:

- `src/src/eval_hub/services/model_service.py`: the model registry, `ModelService`.
- `src/src/eval_hub/services/__init__.py`: re-exports only.
- `src/tests/unit/test_nemo_executor.py`: the unit test of the NeMo backend executor.
  The executor itself (`eval_hub/executors/`) is not in the repository.

### Components

| Component | State it keeps | Operations | Interacts with |
|---|---|---|---|
| Model registry (`ModelService`) | `_registered_models` (id → Model), `_runtime_models` (id → Model), `_initialized` | `register_model`, `update_model`, `delete_model`, `get_model_by_id`, `get_all_models`, `search_models`, `get_active_models`, `reload_runtime_models`, plus the internal `_initialize` and `_load_runtime_models` | reads `os.environ`; consulted by request resolution |
| Backend executor (NeMo and others; spec 4.2) | per run: the run-tracker handle, the attempt count, progress | `execute_benchmark`, `health_check`, `build_request`, `get_backend_type`, `get_recommended_timeout_minutes`, validation at construction | the run tracker (start/complete/fail), the progress callback, the backend over HTTP |
| Retry/execution engine (spec 4.3) | attempt number, deadline, the last error | one attempt, record a failure, back off, retry, give up | called by each executor |
| Result normalizer (spec 4.4) | none | convert a native result to the canonical result | called by the executor |
| Run tracker (MLflow) | external | start, complete, fail | an opaque sink |

### What is hard

- **The two registry maps.** An id may live in only one of them (spec 3). Only
  `register_model` checks this. Later loads of the environment (the lazy
  `_initialize` and `reload_runtime_models`) do not.
- **Lazy initialisation and reload.** The first public call loads the
  environment. `reload_runtime_models` loads it again but never sets
  `_initialized`.
- **Environment parsing.** Variable names are lower-cased into ids, so two
  variables can collide. The one later in `os.environ` order wins. Blank URLs
  are skipped, names the regex rejects are skipped, and a bad TYPE value falls
  back to the default.
- **Concurrency.** The service has no lock. Spec 5 asks for atomic updates and
  an atomic swap on reload. The code clears the runtime map and then rebuilds
  it in a second step (lines 312–313). Its check-then-insert in
  `register_model` and its field-by-field `update_model` are also not atomic.
  Interleavings arise when the synchronous methods are called from worker
  threads, as happens with synchronous route handlers in a thread pool. A
  single event loop cannot interleave them.
- **The executor**: retries, a per-attempt or overall timeout racing a late
  answer, exactly one tracker completion per run, and strictly increasing
  progress. Its code is not in this repository (section 6).

### Properties that make each component correct

- Registry: the maps are disjoint (spec 3). CRUD calls on runtime ids fail.
  The runtime map is replaced whole and never merged (spec 8); in the code
  this holds by construction, since the only assignment to it (118) stores a
  freshly built dict, so no property restates it. The environment
  is loaded once, lazily, then only on reload (spec 4.1). Readers never see a
  half-done update or reload (spec 5).
- Executor and engine: the attempt count stays within the budget. Each run
  gets exactly one terminal result and exactly one tracker notification.
  Progress values strictly increase. Every run terminates.

The hazards behind these properties are listed, each at its source line, in
`PROJECT.json` under `"hazards"`.

## 2. Layout

| Module | Role |
|---|---|
| `ModelRegistry` | `ModelService`, one atomic step per public method; the environment may change between calls |
| `RegistryCatalog` | the abstract promise of the registry (spec 3, 4.1): one catalog of entries tagged `runtime` or `registered` |
| `ModelRegistryThreads` | `ModelService` called from several worker threads, one step per statement that touches shared state |
| `MC_ModelRegistry`, `MC_ModelRegistryThreads` | the small instances TLC checks |
| `ModelRegistryProofs`, `ModelRegistryThreadsProofs` | the TLAPS proofs |

The executor, retry engine, normalizer and tracker are not modelled: their code
is not in this repository (section 6).

## 3. Modules and their correspondence to the code

### `ModelRegistry.tla`: `ModelService`

State:

| Variable | Code |
|---|---|
| `registered` | `_registered_models` |
| `runtime` | `_runtime_models` |
| `initialized` | `_initialized` |
| `env` | the ordered `os.environ`, restricted to `EVAL_HUB_MODEL_<raw>_{URL,NAME,TYPE}` variables |
| `loaded` | a history variable: the environment has been loaded at least once |

A model keeps the four fields the service's filters and updates touch: name,
type, status and tags. The URL, path, capabilities, config and timestamps are
abstracted away. The string conversions are modelled by what they do:

- `raw.lower()` is the constant function `IdLower`, and `t.lower()` is
  `TypeLower`.
- `strip()` being empty is membership in `BlankUrls`.
- The regex succeeds exactly when `<raw>` is non-empty (`Matches`).
- With colliding ids, the entry later in environment order wins (`Winner`).

Actions:

| Action | Code | Branches |
|---|---|---|
| `RegisterModel` | `register_model` | success, or a conflict with either map |
| `UpdateModel` | `update_model` | protected runtime id, not found, or apply the fields provided |
| `DeleteModel` | `delete_model` | protected, removed, or not found |
| `ReadModels` | the read methods | their only state change is `_initialize` |
| `ReloadRuntimeModels` | `reload_runtime_models` | — |
| `SetEnv` | a change to the environment made by the process or its operator | — |

Each public method starts with `Initialize`. The responses of the read methods
are operators over the state: `GetModelById`, `ListedRegistered`,
`TotalModels` and `SearchModels`.

`Spec` lets the environment change. `FixedEnvSpec` does not.

### `RegistryCatalog.tla`: what the registry promises

The catalog maps an id to `[src, model]`. `CInit` holds exactly the
environment's models, tagged `runtime`. `Add` puts a `registered` entry under
a free id, and `Edit` and `Remove` act only on `registered` entries. The
environment's models are a variable that no step changes; an `INSTANCE`
cannot substitute a state expression for a constant.

`ModelRegistry` instantiates it as `Catalog`. The refinement mapping is
`CatalogView`: the registered map first, then the runtime map after
`_initialize()`. This is the registered-first lookup of `get_model_by_id`, and
it is what every read method shows. The lazy load is invisible through it: the
catalog already holds the environment's models before the first call.

### `ModelRegistryThreads.tla`: concurrent callers

The service has no lock. Under the GIL, each dict test, subscript, store,
`del` and `clear()`, and each attribute store, is one atomic step. Each thread
has a `pc` naming the next such statement:

| Labels | Code |
|---|---|
| `init_chk`, `init_load`, `init_set` | `_initialize` (37–41) |
| `reg_chk`, `reg_chk_rt`, `reg_insert` | `register_model` (125, 128, 149) |
| `upd_chk_rt`, `upd_chk_reg`, `upd_get`, `upd_write` | `update_model` (164, 167, 170, 173–202) |
| `del_chk_rt`, `del_chk_reg`, `del_del` | `delete_model` (208, 211, 212) |
| `get_chk_reg`, `get_reg`, `get_chk_rt`, `get_rt` | `get_model_by_id` (223, 224, 227, 228) |
| `rl_clear`, `rl_load` | `reload_runtime_models` (312, 313) |

`update_model` mutates the `Model` object it fetched, and `get_model_by_id`
returns that same object. So `registered` maps ids to handles into `heap`, the
sequence of created objects, and `upd_write` writes one field of the shared
object per step in the code's order: name, type, status, tags.

Further variables:

- `call[t]` holds the method, its arguments and its locals (the fetched
  handle, the fields still to write).
- `resp[t]` records what the last call returned or raised. `KeyError` is a
  possible outcome of every subscript.
- `ncalls[t]` counts calls, bounded by `MaxCalls`.

The environment is fixed for the run. With it fixed, building the local dict
in `_load_runtime_models` touches only thread-local state, so the load is the
single step that assigns `self._runtime_models` (118).

The specifications assume no fairness and state no liveness property. Every
method is straight-line code with no wait and no loop: the fields of
`update_model` (173-192) are a sequence of `if`s, which the model writes one
per step. Under any fairness every call would return by the shape of the
model, so a property saying so would check nothing about the code. `Finished` stutters once every thread has made its
`MaxCalls` calls, so the end of a run is not reported as a deadlock.

### `MC_ModelRegistry.tla` and its configurations

Callers use the ids `a`, `b` and `A`. Four environments cover:

- an empty environment;
- a bad TYPE value;
- a NAME set, and a TYPE valid only after lower-casing;
- `EVAL_HUB_MODEL_a_URL` and `EVAL_HUB_MODEL_A_URL` colliding on `a`;
- a blank URL;
- a name that the regex rejects.

These bounds are enough for the properties checked here. Every property is
about at most two ids: one that is both registered and in the environment, and
one that is not. The environments reach every branch of
`_load_runtime_models`. Registrations are made both before and after the
first load.

## 4. Runs

| Run | Checks | Result |
|---|---|---|
| `registry_ops` (pass, 5508 states) | `TypeOK`; `RegistrationNeverShadowsRuntime`: no call adds a registered id that the runtime map holds after the same call, including the call that triggers the first load | hold |
| `registry_fixed_env` (pass, 498 states) | `RegistriesDisjoint` with a fixed environment; `CatalogRefinement`: with a fixed environment, `ModelRegistry` implements `RegistryCatalog` | hold |
| `registry_env_drift` (violation) | `RegistriesDisjoint` with a changing environment | violated in three steps: register `a`; `EVAL_HUB_MODEL_A_URL` appears; reload. `a` is now in both maps. `get_model_by_id` returns the registered copy, and `update_model`/`delete_model` of `a` raise "runtime model", so the registered entry can no longer be removed. |
| `registry_lazy_reload` (violation) | `LoadsOnlyOnFirstCallOrReload` | violated: reload first; the environment changes; the next call loads again, because `reload_runtime_models` never sets `_initialized` |
| `threads_ops` (pass, 559,046 states, about 70 s) | `TTypeOK`; `QuiescentRuntimeLoaded`: when no call is in progress, a loaded runtime map is the environment's | hold |
| `threads_noreload` (pass, 363,813 states) | `RegistriesDisjoint`; `GetSeesRuntimeModels`: `get_model_by_id` of an environment id never returns `None` | hold when no thread calls reload |
| `threads_reload_disjoint` (violation) | `RegistriesDisjoint` | a register of an environment id between reload's `clear()` and its load succeeds |
| `threads_read_during_reload` (violation) | `GetSeesRuntimeModels` | a get between `clear()` and the load returns `None` |
| `threads_stale_register` (violation) | `RegisterInsertFresh` | two registers of one id both pass the check; the second overwrites the first |
| `threads_torn_read` (violation) | `ReadsSeeWholeModels` | a get between two field writes of the update `[name, tags]` returns the shared object with the new name and the old tags |
| `threads_keyerror` (violation) | `NoKeyError` | a get of the environment id `a` passes the test at 227; another thread's reload runs `clear()` (312); the subscript at 228 raises `KeyError`. The same property is broken by a delete between a test and its subscript (167/170, 211/212, 223/224); TLC reports the shortest trace |

The thread runs use two threads, two calls each, ids `a` and `b` and one
environment in which `a` is a runtime model. Every race found needs at most two
threads: one reader or writer and one interfering writer. Two calls per thread
let a thread register and then update or delete. `ReadsSeeWholeModels`
compares with `WholeModels`, every model reachable by applying whole update
requests to a request or a loaded model.

Each property of a passing run has a mutant: a plausible bug that TLC
catches.

| Mutant | What it changes | Property that catches it |
|---|---|---|
| `DeleteModelStoresNone` | stores `None` instead of `del` | `TypeOK` |
| `RegisterModelNoRuntimeCheck` | drops the runtime-model check | `RegistrationNeverShadowsRuntime` |
| `UpdateModelReplace` | the request replaces the stored model instead of overwriting the fields it provides | `CatalogRefinement` |
| `RegisterModelStaleRuntime` | checks the runtime map as it was before `_initialize()` | `RegistriesDisjoint` (fixed environment) |
| `DelDelStoresNone` | the threaded `del` stores `None` | `TTypeOK` |
| `RlLoadNoAssign` | the reload never assigns the new dict | `QuiescentRuntimeLoaded` |
| `RegTestNoRuntimeCheck` | the threaded register skips line 128 | `RegistriesDisjoint` (no reload) |
| `InitCheckSetsFlag` | `_initialized` set before the load | `GetSeesRuntimeModels` |

The atomic model assumes no fairness and has no liveness property: every call
finishes in one step. Deadlock is checked, and none exists, because
`ReadModels` is always enabled.

## 5. Proofs (`ModelRegistryProofs.tla`, `ModelRegistryThreadsProofs.tla`)

The proofs hold for every value of the constants that satisfies
`RegistryAssumption` (and, for the threaded model, `ThreadsAssumption`,
below). `RegistryAssumption` says:

- the enum defaults are members of their enums;
- requests are models;
- update requests provide only model fields, with values of the right kind;
- every environment lists each variable at most once, with a value of the
  variable's kind.

### `TypeCorrect`: `Spec => []TypeOK`

The proof is by induction. It has one step per action and rests on these
lemmas:

- `RuntimeModelType`: a model built from the environment is a model, whatever
  the `<raw>` segment.
- `LoadType`: the loaded map is keyed by `LoadedIds(e)`.
- `DictSetType`: `d[k] = v` keeps a registry a registry.
- `ApplyUpdateType`: an update keeps a model a model.
- `AfterInitializeType`: the runtime map after `_initialize()` is a registry.

### `FixedEnvDisjoint`: `FixedEnvSpec => []RegistriesDisjoint`

`RegistriesDisjoint` is not inductive by itself: a load could bring in an
already-registered id. The proof therefore uses the strengthening
`DisjointInv`:

- the runtime ids are among the environment's ids (`LoadedIds(env)`);
- once the service is initialized, the runtime map is exactly the load of the
  environment;
- no registered id is among the loaded ids.

Why this is enough:

- Register checks against the map after `_initialize()`, which by
  `AfterInitializeLoad` is exactly `LoadRuntimeModels(env)`.
- Update keeps the domain, and delete shrinks it.
- Reload and the lazy load produce exactly `LoadRuntimeModels(env)`.

Before it was proved, `DisjointInv` was checked by TLC as an invariant of the
`registry_fixed_env` instance (498 states, no violation).
TLC checks `RegistriesDisjoint` on the small instance in `registry_fixed_env`.
The theorem extends it to every instance. The `registry_env_drift` run shows
that the fixed-environment hypothesis is necessary.

### `FixedEnvRefinesCatalog`: `FixedEnvSpec => CatalogRefinement`

`CatalogRefinement` is `Catalog!CSpec` under the mapping `CatalogView`. The
proof rests on `DisjointInv`, because under it `CatalogView` equals
`View(registered)`: the registered map laid over the full load of the
environment, whether or not the lazy load has happened.

- `InitCatalog`: before any call, `View` of the empty map is the catalog's
  initial state.
- `StepCatalog`: each step maps to a catalog step or a stutter.
  - A successful register is `Add`: the id is neither registered nor loaded.
  - An applied update is `Edit`: the id is registered, not loaded, and the
    result is a model (`ApplyUpdateType`).
  - A removal is `Remove`.
  - Every other branch, the read methods and reload leave `registered`
    unchanged. The view is then unchanged.
  - `env` never changes, so neither do the environment's models.

### `NoReloadDisjoint`: `NoReloadSpec => []RegistriesDisjoint`

This theorem is about the threaded model, for any set of threads and any
`MaxCalls`. The inductive invariant `TInv` was checked by TLC on the
`threads_noreload` instance first. It says:

- no thread is inside a reload;
- the runtime map is either empty or the environment's full load;
- it is the full load once `_initialized` is set;
- it is the full load whenever some thread is past its `init_load`;
- a thread at `reg_insert` holds an id that is not loaded;
- no registered id is loaded.

The fourth conjunct is the reason a thread's check at line 128 stays valid
until its insert. Any thread past `_initialize` has seen a complete load, and
without a reload no step empties the map again. The proof has one step per
statement. The lemma `QuietStep` handles, at once, every statement that
changes only `pc` and `resp`.

### `SpecNeverShadows`

This is the action property of `registry_ops`. It holds for every
environment behaviour and needs no invariant. It rests on a lemma about one
step of `[Next]_vars`:

- `NextNeverShadows`: register inserts only an id outside the map after
  `_initialize()`, and that map is the call's new `runtime`. Update keeps the
  domain of `registered`, and delete shrinks it.

### `ThreadsTypeCorrect`: `TSpec => []TTypeOK`

This theorem covers the threaded model with reloads. `TTypeOK` is not
inductive:

- an insert needs its request to be a model and its id to be an id;
- a field write needs the handle fetched at line 170 to point into the heap,
  and the fields left to write to be fields of the request.

The strengthening `TTInv` adds the following:

- `call[t]` is a well-formed frame (`CallType`);
- the label a thread is at fixes the method it is in;
- the method fixes the kind of its arguments;
- at `upd_write`, the handle is in `1..Len(heap)` and the pending fields
  belong to the request.

TLC checked `TTInv` under `TSpec` on the `threads_ops` instance (559,046
states). Lemmas used:

- `NextFieldIn`: the field written next is one of those left.
- `FieldWriteType`: one field write keeps a model a model.
- `PcStepTTInv`: covers every statement that moves only `pc` and `resp`.

### `Quiescent`: `TSpec => []QuiescentRuntimeLoaded`

This theorem also allows reloads. The property fails to be inductive because
the map is empty between a reload's `clear()` and its load. The strengthening
`QInv` says that a loaded runtime map differs from the environment's load
only while some thread is at `rl_load`. Only `RlClear` can break the
equality, and it leaves its own thread at `rl_load`. TLC checked `QInv` on
`threads_ops` (559,046 states).

### `NoReloadGetSeesRuntime`: `NoReloadSpec => []GetSeesRuntimeModels`

The strengthening `GInv` adds three facts to `TInv`:

- `resp` has one entry per thread;
- a thread at the runtime checks of `update_model` is in an update;
- the property itself.

`GInv` rests on `TInv`: a thread past its own `_initialize()` sees the full
load, so the checks at 227 and 228 find every environment id. Lemmas used:

- `GotoFacts`, `ReturnFacts` and `RespStep`: what a statement does to
  `resp`.
- `LoadedIdsStrings`: environment ids are strings, so they are never `None`.

TLC checked `GInv` on `threads_noreload` (363,813 states).

### Assumptions of the threaded proofs

`ThreadsAssumption` says:

- `MaxCalls` is a natural number;
- Python's `None` is not a model and not a string, so not an id;
- `None` differs from the tags that stand for the other results of a call
  (`"ok"`, `"model"`, `"true"`, `"false"`, `"exists"`, `"runtime"`,
  `"KeyError"`).

The last conjunct is stated explicitly because the provers cannot derive
that a string literal belongs to `STRING`. TLC evaluates the assumption in
every threads run.

### What stays with TLC

- All violations: they are counterexamples, found by TLC.
- Liveness: the project states none (see section 3), and liveness and
  `ENABLED` are beyond TLAPS in any case.
- `ReadsSeeWholeModels` (violated in `threads_torn_read`), and any statement
  about the models reachable through the recursive function
  `UpdatedModels`. What a recursive definition computes for every input
  needs induction over data, which the installed provers cannot do.
- `LoadsOnlyOnFirstCallOrReload`. It is violated (`registry_lazy_reload`).

## 6. Not modelled

- Timestamps (`created_at`, `updated_at`). Spec 8 says `updated_at` strictly
  increases, and `datetime.utcnow()` (line 194) does not guarantee it. This is
  listed as a hazard. No other property distinguishes timestamps, so they are
  left out of the models.
- Logging, and `ListModelsResponse` formatting.
- The HTTP layer.
- `ModelCapabilities` and `ModelConfig` contents: they are copied, never
  inspected.
- The read methods other than `get_model_by_id` in the threaded model. Their
  only shared-state effect is `_initialize`, which `get` already exercises.
  Their list comprehensions over a dict that changes concurrently are not
  modelled.
- A changing environment in the threaded model. Its effect is already shown by
  `registry_env_drift`, and every thread race here arises without it.
- The executor, retry engine, normalizer and run tracker. Their code is not in
  this repository; only `tests/unit/test_nemo_executor.py` is. A model of them
  would translate the spec's words, not code, so they are left out rather than
  modelled from a test of absent code.
