------------------------ MODULE ModelRegistryThreads ------------------------
(***************************************************************************)
(* ModelService called from several threads at once.                      *)
(*                                                                         *)
(* The service has no lock.  Its methods are synchronous, so a web server  *)
(* that runs synchronous handlers in a worker thread pool interleaves      *)
(* them.  Under the GIL each dict operation (test, read, store, delete,    *)
(* clear) and each attribute store is atomic; a method is the sequence of  *)
(* such statements, and every thread has a program counter pc[t] naming   *)
(* the statement it executes next.                                         *)
(*                                                                         *)
(* Python object identity matters here: update_model mutates the Model     *)
(* object it fetched (line 170), so the registered map is a map from ids   *)
(* to handles into heap, the sequence of Model objects ever created.       *)
(*                                                                         *)
(* The environment is fixed for the run (chosen at Init): every hazard     *)
(* checked here arises without any change to os.environ.  Reading the      *)
(* environment and building the local dict of _load_runtime_models only    *)
(* touches thread-local state, so with a fixed environment the whole load  *)
(* is the single step that assigns self._runtime_models (line 118).        *)
(***************************************************************************)
EXTENDS ModelRegistry

CONSTANTS
    Threads,    \* the worker threads calling the service
    MaxCalls    \* bound: calls each thread makes

\* None is Python's None: not a model, not a str (so not an id), and none
\* of the tags that stand for the other answers of a call (a returned
\* model, True, False, "ok", and the exceptions).
ASSUME ThreadsAssumption ==
    /\ MaxCalls \in Nat
    /\ None \notin Model
    /\ None \notin STRING
    /\ None \notin {"ok", "model", "true", "false", "exists", "runtime", "KeyError"}

VARIABLES
    heap,     \* the Model objects created by register_model, by handle
    pc,       \* pc[t]: the statement thread t executes next
    call,     \* call[t]: the method thread t is in, and its locals
    resp,     \* resp[t]: what the last call of thread t returned or raised
    ncalls    \* ncalls[t]: calls thread t has started

tvars == <<registered, runtime, initialized, env, loaded,
           heap, pc, call, resp, ncalls>>

Ops == {"register", "update", "delete", "get", "reload"}

\* The first statement of each method after self._initialize().
BodyStart == [register |-> "reg_chk", update |-> "upd_chk_rt",
              delete |-> "del_chk_rt", get |-> "get_chk_reg"]

\* The order in which update_model tests and assigns the fields.
FieldPos == [name |-> 1, type |-> 2, status |-> 3, tags |-> 4]
NextField(p) == CHOOSE f \in p : \A g \in p : FieldPos[f] <= FieldPos[g]

\* The model registered under id, through its handle.
Stored(id) == heap[registered[id]]

\* Thread t leaves its method with outcome out (a result or an exception);
\* a returned model is also recorded.
ReturnWith(t, out, m) ==
    /\ pc' = [pc EXCEPT ![t] = "idle"]
    /\ resp' = [resp EXCEPT ![t] = [op |-> call[t].op, id |-> call[t].id,
                                    out |-> out, model |-> m]]

Return(t, out) == ReturnWith(t, out, None)

Goto(t, l) == pc' = [pc EXCEPT ![t] = l] /\ UNCHANGED resp

-----------------------------------------------------------------------------
TInit ==
    /\ registered = EmptyMap
    /\ runtime = EmptyMap
    /\ initialized = FALSE
    /\ env \in EnvSnapshots
    /\ loaded = FALSE
    /\ heap = << >>
    /\ pc = [t \in Threads |-> "idle"]
    /\ call = [t \in Threads |-> [op |-> "get", id |-> None, arg |-> None,
                                  h |-> 0, pending |-> {}]]
    /\ resp = [t \in Threads |-> [op |-> "get", id |-> None, out |-> None, model |-> None]]
    /\ ncalls = [t \in Threads |-> 0]

\* A caller makes thread t enter a method: public methods other than
\* reload_runtime_models start with self._initialize().
Start(t) ==
    /\ pc[t] = "idle"
    /\ ncalls[t] < MaxCalls
    /\ \E op \in Ops :
       \E id \in IF op = "reload" THEN {None} ELSE RegIds :
       \E arg \in CASE op = "register" -> Requests
                  [] op = "update"   -> UpdateRequests
                  [] OTHER           -> {None} :
          /\ call' = [call EXCEPT ![t] = [op |-> op, id |-> id, arg |-> arg,
                                          h |-> 0, pending |-> {}]]
          /\ pc' = [pc EXCEPT ![t] = IF op = "reload" THEN "rl_clear" ELSE "init_chk"]
    /\ ncalls' = [ncalls EXCEPT ![t] = @ + 1]
    /\ UNCHANGED <<registered, runtime, initialized, env, loaded, heap, resp>>

\* Bug variant of _initialize: the flag is set before the load, so another
\* thread skips initialisation and runs on the still-empty runtime map.
InitCheckSetsFlag(t) ==
    /\ pc[t] = "init_chk"
    /\ Goto(t, IF initialized THEN BodyStart[call[t].op] ELSE "init_load")
    /\ initialized' = TRUE
    /\ UNCHANGED <<registered, runtime, env, loaded, heap, call, ncalls>>

\* _initialize: "if self._initialized: return" (37-38), the load (40, 118),
\* then "self._initialized = True" (41).
InitCheck(t) ==
    /\ pc[t] = "init_chk"
    /\ Goto(t, IF initialized THEN BodyStart[call[t].op] ELSE "init_load")
    /\ UNCHANGED <<registered, runtime, initialized, env, loaded, heap, call, ncalls>>

InitLoad(t) ==
    /\ pc[t] = "init_load"
    /\ runtime' = LoadRuntimeModels(env)
    /\ loaded' = TRUE
    /\ Goto(t, "init_set")
    /\ UNCHANGED <<registered, initialized, env, heap, call, ncalls>>

InitSet(t) ==
    /\ pc[t] = "init_set"
    /\ initialized' = TRUE
    /\ Goto(t, BodyStart[call[t].op])
    /\ UNCHANGED <<registered, runtime, env, loaded, heap, call, ncalls>>

\* The membership tests of each method, and the branch or return they pick.
U == <<registered, runtime, initialized, env, loaded, heap, call, ncalls>>

\* Bug variant of register_model without the runtime-model check.
RegTestNoRuntimeCheck(t) ==
    LET id == call[t].id IN
    /\ \/ pc[t] = "reg_chk"
          /\ IF id \in DOMAIN registered THEN Return(t, "exists") ELSE Goto(t, "reg_chk_rt")
       \/ pc[t] = "reg_chk_rt"
          /\ Goto(t, "reg_insert")
    /\ UNCHANGED U

\* register_model: "in self._registered_models" (125-126), then "in
\* self._runtime_models" (128-129).
RegTest(t) ==
    LET id == call[t].id IN
    /\ \/ pc[t] = "reg_chk"
          /\ IF id \in DOMAIN registered THEN Return(t, "exists") ELSE Goto(t, "reg_chk_rt")
       \/ pc[t] = "reg_chk_rt"
          /\ IF id \in DOMAIN runtime THEN Return(t, "runtime") ELSE Goto(t, "reg_insert")
    /\ UNCHANGED U

\* update_model: runtime check (164-165), not found (167-168).
UpdTest(t) ==
    LET id == call[t].id IN
    /\ \/ pc[t] = "upd_chk_rt"
          /\ IF id \in DOMAIN runtime THEN Return(t, "runtime") ELSE Goto(t, "upd_chk_reg")
       \/ pc[t] = "upd_chk_reg"
          /\ IF id \in DOMAIN registered THEN Goto(t, "upd_get") ELSE Return(t, None)
    /\ UNCHANGED U

\* delete_model: runtime check (208-209), then found (211) or False (216).
DelTest(t) ==
    LET id == call[t].id IN
    /\ \/ pc[t] = "del_chk_rt"
          /\ IF id \in DOMAIN runtime THEN Return(t, "runtime") ELSE Goto(t, "del_chk_reg")
       \/ pc[t] = "del_chk_reg"
          /\ IF id \in DOMAIN registered THEN Goto(t, "del_del") ELSE Return(t, "false")
    /\ UNCHANGED U

\* get_model_by_id: registered first (223), then runtime (227), else None (230).
GetTest(t) ==
    LET id == call[t].id IN
    /\ \/ pc[t] = "get_chk_reg"
          /\ Goto(t, IF id \in DOMAIN registered THEN "get_reg" ELSE "get_chk_rt")
       \/ pc[t] = "get_chk_rt"
          /\ IF id \in DOMAIN runtime THEN Goto(t, "get_rt") ELSE Return(t, None)
    /\ UNCHANGED U

\* Subscript reads: a key removed since the test raises KeyError.
GetRead(t) ==
    LET id == call[t].id IN
    /\ \/ pc[t] = "get_reg"            \* 224
          /\ IF id \in DOMAIN registered THEN ReturnWith(t, "model", Stored(id)) ELSE Return(t, "KeyError")
       \/ pc[t] = "get_rt"             \* 228
          /\ IF id \in DOMAIN runtime THEN ReturnWith(t, "model", runtime[id]) ELSE Return(t, "KeyError")
    /\ UNCHANGED U

\* register_model builds a new Model (132-147) and stores it (149).
RegInsert(t) ==
    /\ pc[t] = "reg_insert"
    /\ heap' = Append(heap, call[t].arg)
    /\ registered' = DictSet(registered, call[t].id, Len(heap) + 1)
    /\ Return(t, "ok")
    /\ UNCHANGED <<runtime, initialized, env, loaded, call, ncalls>>

\* model = self._registered_models[model_id] (170).
UpdGet(t) ==
    /\ pc[t] = "upd_get"
    /\ IF call[t].id \in DOMAIN registered
          THEN /\ call' = [call EXCEPT ![t].h = registered[call[t].id],
                                      ![t].pending = DOMAIN call[t].arg]
               /\ Goto(t, "upd_write")
          ELSE /\ Return(t, "KeyError")
               /\ UNCHANGED call
    /\ UNCHANGED <<registered, runtime, initialized, env, loaded, heap, ncalls>>

\* One "model.<field> = request.<field>" of 173-192 on the fetched object,
\* or, when none is left, updated_at (194) and return (202).
UpdWrite(t) ==
    /\ pc[t] = "upd_write"
    /\ IF call[t].pending = {}
          THEN Return(t, "ok") /\ UNCHANGED <<heap, call>>
          ELSE LET f == NextField(call[t].pending) IN
               /\ heap' = [heap EXCEPT ![call[t].h][f] = call[t].arg[f]]
               /\ call' = [call EXCEPT ![t].pending = @ \ {f}]
               /\ UNCHANGED <<pc, resp>>
    /\ UNCHANGED <<registered, runtime, initialized, env, loaded, ncalls>>

\* Bug variant of delete_model: the entry is set to None, not removed.
DelDelStoresNone(t) ==
    /\ pc[t] = "del_del"
    /\ IF call[t].id \in DOMAIN registered
          THEN /\ registered' = [registered EXCEPT ![call[t].id] = None]
               /\ Return(t, "true")
          ELSE Return(t, "KeyError") /\ UNCHANGED registered
    /\ UNCHANGED <<runtime, initialized, env, loaded, heap, call, ncalls>>

\* del self._registered_models[model_id] (212): KeyError if already gone.
DelDel(t) ==
    /\ pc[t] = "del_del"
    /\ IF call[t].id \in DOMAIN registered
          THEN /\ registered' = Restrict(registered, DOMAIN registered \ {call[t].id})
               /\ Return(t, "true")
          ELSE Return(t, "KeyError") /\ UNCHANGED registered
    /\ UNCHANGED <<runtime, initialized, env, loaded, heap, call, ncalls>>

\* reload_runtime_models: self._runtime_models.clear() (312), then
\* self._load_runtime_models() (313), whose last line assigns the new dict.
RlClear(t) ==
    /\ pc[t] = "rl_clear"
    /\ runtime' = EmptyMap
    /\ Goto(t, "rl_load")
    /\ UNCHANGED <<registered, initialized, env, loaded, heap, call, ncalls>>

\* Bug variant of the load after clear(): the new dict is built but never
\* assigned to self._runtime_models (line 118 missing).
RlLoadNoAssign(t) ==
    /\ pc[t] = "rl_load"
    /\ loaded' = TRUE
    /\ Return(t, None)
    /\ UNCHANGED <<registered, runtime, initialized, env, heap, call, ncalls>>

RlLoad(t) ==
    /\ pc[t] = "rl_load"
    /\ runtime' = LoadRuntimeModels(env)
    /\ loaded' = TRUE
    /\ Return(t, None)
    /\ UNCHANGED <<registered, initialized, env, heap, call, ncalls>>

\* A step of thread t inside a method.
Step(t) ==
    \/ InitCheck(t) \/ InitLoad(t) \/ InitSet(t)
    \/ RegTest(t) \/ UpdTest(t) \/ DelTest(t) \/ GetTest(t) \/ GetRead(t)
    \/ RegInsert(t) \/ UpdGet(t) \/ UpdWrite(t) \/ DelDel(t)
    \/ RlClear(t) \/ RlLoad(t)

\* Every thread has made its calls and returned: the run is over.
Finished ==
    /\ \A t \in Threads : pc[t] = "idle" /\ ncalls[t] = MaxCalls
    /\ UNCHANGED tvars

TNext == (\E t \in Threads : Start(t) \/ Step(t)) \/ Finished

TSpec == TInit /\ [][TNext]_tvars

\* The same service without reload_runtime_models calls.
NoReloadNext ==
    (\E t \in Threads : (Start(t) /\ call'[t].op # "reload") \/ Step(t)) \/ Finished

NoReloadSpec == TInit /\ [][NoReloadNext]_tvars

-----------------------------------------------------------------------------
(***************************************************************************)
(* Properties.                                                             *)
(***************************************************************************)

Labels == {"idle", "init_chk", "init_load", "init_set", "reg_chk", "reg_chk_rt",
           "reg_insert", "upd_chk_rt", "upd_chk_reg", "upd_get", "upd_write",
           "del_chk_rt", "del_chk_reg", "del_del", "get_chk_reg", "get_reg",
           "get_chk_rt", "get_rt", "rl_clear", "rl_load"}

\* The registered map holds handles of created objects, which are models.
TTypeOK ==
    /\ DOMAIN registered \subseteq RegIds
    /\ \A id \in DOMAIN registered : registered[id] \in 1..Len(heap)
    /\ heap \in Seq(Model)
    /\ IsRegistry(runtime, RuntimeIds)
    /\ pc \in [Threads -> Labels]
    /\ ncalls \in [Threads -> 0..MaxCalls]

\* The models a caller can legitimately observe: a model registered or
\* loaded, with any number of whole update_model requests applied.
UpdatedModels[n \in Nat] ==
    IF n = 0 THEN Requests \cup Range(LoadRuntimeModels(env))
    ELSE UpdatedModels[n - 1]
           \cup {ApplyUpdate(m, u) : m \in UpdatedModels[n - 1], u \in UpdateRequests}

WholeModels == UpdatedModels[MaxCalls * Cardinality(Threads)]

\* Spec 5 (updates are atomic): get_model_by_id never returns a model in
\* which update_model has written some fields of a request and not yet
\* the others (173-192 write them one by one on the shared object).
ReadsSeeWholeModels ==
    \A t \in Threads : resp[t].out = "model" => resp[t].model \in WholeModels

\* When no call is in progress and the environment has been loaded, the
\* runtime map is the environment's: a reload's clear() (312) is always
\* followed by its own load, whatever other threads did in between.
QuiescentRuntimeLoaded ==
    (\A t \in Threads : pc[t] = "idle") /\ loaded => runtime = LoadRuntimeModels(env)

\* register_model's checks (125, 128) are still true when it stores the
\* model (149): it never replaces a model another call registered under
\* the same id after the check.
RegisterInsertFresh ==
    \A t \in Threads : pc[t] = "reg_insert" => call[t].id \notin DOMAIN registered

\* No call fails with a KeyError: the subscripts at 170, 212, 224 and 228
\* find the key their preceding membership test found.
NoKeyError == \A t \in Threads : resp[t].out # "KeyError"

\* Spec 5 (readers see the old or the new runtime catalog): once loaded,
\* get_model_by_id finds every id the environment defines.
GetSeesRuntimeModels ==
    \A t \in Threads : resp[t].op = "get" /\ resp[t].id \in LoadedIds(env)
                          => resp[t].out # None

=============================================================================
