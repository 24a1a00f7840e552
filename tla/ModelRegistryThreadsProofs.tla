--------------------- MODULE ModelRegistryThreadsProofs ---------------------
(***************************************************************************)
(* Proofs about ModelRegistryThreads.                                      *)
(*                                                                         *)
(*  - NoReloadDisjoint: when nobody calls reload_runtime_models, any       *)
(*    number of threads interleaving register/update/delete/get calls      *)
(*    statement by statement never make an id both registered and a       *)
(*    runtime model.                                                       *)
(*  - ThreadsTypeCorrect and Quiescent, with reload_runtime_models: the    *)
(*    maps stay well formed, and the runtime map is the environment's      *)
(*    whenever no call is in progress.                                     *)
(*  - NoReloadGetSeesRuntime: get_model_by_id finds every environment id.  *)
(***************************************************************************)
EXTENDS ModelRegistryThreads, ModelRegistryProofs, SequenceTheorems, TLAPS

\* The labels before which the thread's own _initialize() may not have
\* loaded the runtime map, and the labels of reload_runtime_models.
Loading == {"idle", "init_chk", "init_load"}
Reloading == {"rl_clear", "rl_load"}
InitLabels == {"init_chk", "init_load", "init_set"}

(***************************************************************************)
(* RegistriesDisjoint is not inductive: the proof needs to know that a     *)
(* thread past its _initialize() sees the fully loaded runtime map (the    *)
(* load assigns the whole dict at once and only reload clears it), so the *)
(* check at line 128 excluded every environment id before the insert.      *)
(***************************************************************************)
TInv ==
    /\ pc \in [Threads -> Labels]
    /\ DOMAIN call = Threads
    /\ env \in EnvSnapshots
    /\ \A t \in Threads : pc[t] \notin Reloading
    /\ \A t \in Threads : pc[t] \in InitLabels => call[t].op \in DOMAIN BodyStart
    /\ runtime = EmptyMap \/ runtime = LoadRuntimeModels(env)
    /\ initialized => runtime = LoadRuntimeModels(env)
    /\ \A t \in Threads : pc[t] \notin Loading => runtime = LoadRuntimeModels(env)
    /\ \A t \in Threads : pc[t] = "reg_insert" => call[t].id \notin LoadedIds(env)
    /\ DOMAIN registered \cap LoadedIds(env) = {}

\* The environment's load is keyed by the environment's ids.
LEMMA LoadDomain ==
    ASSUME env \in EnvSnapshots
    PROVE  DOMAIN LoadRuntimeModels(env) = LoadedIds(env)
BY LoadType, RegistryAssumption

\* Every method body starts outside the loading and reload labels.
LEMMA BodyStartLabels ==
    \A op \in DOMAIN BodyStart : /\ BodyStart[op] \in Labels
                                 /\ BodyStart[op] \notin Loading \cup Reloading
                                 /\ BodyStart[op] # "reg_insert"
BY DEF BodyStart, Labels, Loading, Reloading

LEMMA TInitTInv == TInit => TInv
BY DEF TInit, TInv, Labels, Reloading, InitLabels, Loading, EmptyMap

\* The labels of a method body that neither load nor insert, and the labels
\* a step from one of them can reach.
QuietLabels == Labels \ (Loading \cup Reloading \cup {"init_set", "reg_insert"})
QuietTargets == (Labels \ (Loading \cup Reloading \cup InitLabels \cup {"reg_insert"})) \cup {"idle"}

(***************************************************************************)
(* A step of thread t that leaves registered, runtime, initialized, env    *)
(* and the other threads alone, and moves t from a quiet label to another  *)
(* quiet label or to idle, keeps TInv.                                     *)
(***************************************************************************)
LEMMA QuietStep ==
    ASSUME TInv, NEW t \in Threads, pc[t] \in QuietLabels,
           \E l \in QuietTargets : pc' = [pc EXCEPT ![t] = l],
           UNCHANGED <<registered, runtime, initialized, env>>,
           DOMAIN call' = Threads,
           \A s \in Threads \ {t} : call'[s] = call[s]
    PROVE  TInv'
<1>1. PICK l \in QuietTargets : pc' = [pc EXCEPT ![t] = l]
    OBVIOUS
<1>2. runtime = LoadRuntimeModels(env)
    BY DEF TInv, QuietLabels, Loading
<1>. QED
    BY <1>1, <1>2 DEF TInv, QuietTargets, Labels, Loading, Reloading, InitLabels

LEMMA NoReloadNextTInv == TInv /\ [NoReloadNext]_tvars => TInv'
<1> SUFFICES ASSUME TInv, [NoReloadNext]_tvars PROVE TInv'
    OBVIOUS
<1>0. /\ DOMAIN LoadRuntimeModels(env) = LoadedIds(env)
      /\ DOMAIN call = Threads
    BY LoadDomain DEF TInv
<1>1. ASSUME NEW t \in Threads, Start(t), call'[t].op # "reload"
      PROVE  TInv'
    <2>1. PICK op \in Ops : \E id, arg :
               /\ call' = [call EXCEPT ![t] = [op |-> op, id |-> id, arg |-> arg,
                                               h |-> 0, pending |-> {}]]
               /\ pc' = [pc EXCEPT ![t] = IF op = "reload" THEN "rl_clear" ELSE "init_chk"]
        BY <1>1 DEF Start
    <2>2. PICK id, arg :
               /\ call' = [call EXCEPT ![t] = [op |-> op, id |-> id, arg |-> arg,
                                               h |-> 0, pending |-> {}]]
               /\ pc' = [pc EXCEPT ![t] = IF op = "reload" THEN "rl_clear" ELSE "init_chk"]
        BY <2>1
    <2>3. op # "reload"
        BY <1>1, <2>2 DEF TInv
    <2>4. /\ pc' = [pc EXCEPT ![t] = "init_chk"]
          /\ op \in DOMAIN BodyStart
          /\ call'[t].op = op
        BY <2>2, <2>3 DEF Ops, BodyStart, TInv
    <2>5. pc[t] = "idle"
        BY <1>1 DEF Start
    <2>. QED
        BY <1>1, <2>2, <2>4, <2>5 DEF Start, TInv, Labels, Loading, Reloading, InitLabels
<1>2. ASSUME NEW t \in Threads, InitCheck(t)
      PROVE  TInv'
    <2>1. CASE initialized
        <3>1. call[t].op \in DOMAIN BodyStart
            BY <1>2 DEF InitCheck, TInv, InitLabels
        <3>2. pc' = [pc EXCEPT ![t] = BodyStart[call[t].op]]
            BY <1>2, <2>1 DEF InitCheck, Goto
        <3>. QED
            BY <1>2, <2>1, <3>1, <3>2, BodyStartLabels
               DEF InitCheck, Goto, TInv, Loading, Reloading, InitLabels
    <2>2. CASE ~initialized
        BY <1>2, <2>2 DEF InitCheck, Goto, TInv, Labels, Loading, Reloading, InitLabels
    <2>. QED
        BY <2>1, <2>2
<1>3. ASSUME NEW t \in Threads, InitLoad(t)
      PROVE  TInv'
    BY <1>3 DEF InitLoad, Goto, TInv, Labels, Loading, Reloading, InitLabels
<1>4. ASSUME NEW t \in Threads, InitSet(t)
      PROVE  TInv'
    <2>1. call[t].op \in DOMAIN BodyStart /\ runtime = LoadRuntimeModels(env)
        BY <1>4 DEF InitSet, TInv, InitLabels, Loading
    <2>. QED
        BY <1>4, <2>1, BodyStartLabels DEF InitSet, Goto, TInv, Loading, Reloading, InitLabels
<1>5. ASSUME NEW t \in Threads, RegTest(t)
      PROVE  TInv'
    <2>0. UNCHANGED <<registered, runtime, initialized, env>> /\ call' = call
        BY <1>5 DEF RegTest, U
    <2>1. CASE pc[t] = "reg_chk"
        <3>1. \/ pc' = [pc EXCEPT ![t] = "idle"]
              \/ pc' = [pc EXCEPT ![t] = "reg_chk_rt"]
            BY <1>5, <2>1 DEF RegTest, Goto, Return, ReturnWith
        <3>2. \E l \in QuietTargets : pc' = [pc EXCEPT ![t] = l]
            <4>1. {"idle", "reg_chk_rt"} \subseteq QuietTargets
                BY DEF QuietTargets, Labels, Loading, Reloading, InitLabels
            <4>. QED
                BY <3>1, <4>1
        <3>3. pc[t] \in QuietLabels
            BY <2>1 DEF QuietLabels, Labels, Loading, Reloading
        <3>. QED
            BY <2>0, <3>2, <3>3, <1>0, QuietStep
    <2>2. CASE pc[t] = "reg_chk_rt"
        <3>1. runtime = LoadRuntimeModels(env)
            BY <2>2 DEF TInv, Loading
        <3>2. CASE call[t].id \in DOMAIN runtime
            <4>1. pc' = [pc EXCEPT ![t] = "idle"]
                BY <1>5, <2>2, <3>2 DEF RegTest, Goto, Return, ReturnWith
            <4>2. "idle" \in QuietTargets /\ pc[t] \in QuietLabels
                BY <2>2 DEF QuietTargets, QuietLabels, Labels, Loading, Reloading
            <4>. QED
                BY <2>0, <4>1, <4>2, <1>0, QuietStep
        <3>3. CASE call[t].id \notin DOMAIN runtime
            <4>1. pc' = [pc EXCEPT ![t] = "reg_insert"]
                BY <1>5, <2>2, <3>3 DEF RegTest, Goto
            <4>2. call[t].id \notin LoadedIds(env)
                BY <1>0, <3>1, <3>3
            <4>. QED
                BY <2>0, <2>2, <3>1, <4>1, <4>2 DEF TInv, Labels, Loading, Reloading, InitLabels
        <3>. QED
            BY <3>2, <3>3
    <2>. QED
        BY <1>5, <2>1, <2>2 DEF RegTest
<1>6. ASSUME NEW t \in Threads, UpdTest(t)
      PROVE  TInv'
    <2>1. /\ pc[t] \in QuietLabels
          /\ \E l \in QuietTargets : pc' = [pc EXCEPT ![t] = l]
        BY <1>6 DEF UpdTest, Goto, Return, ReturnWith, QuietLabels, QuietTargets,
                    Labels, Loading, Reloading, InitLabels
    <2>. QED
        BY <1>6, <2>1, <1>0, QuietStep DEF UpdTest, U
<1>7. ASSUME NEW t \in Threads, DelTest(t)
      PROVE  TInv'
    <2>1. /\ pc[t] \in QuietLabels
          /\ \E l \in QuietTargets : pc' = [pc EXCEPT ![t] = l]
        BY <1>7 DEF DelTest, Goto, Return, ReturnWith, QuietLabels, QuietTargets,
                    Labels, Loading, Reloading, InitLabels
    <2>. QED
        BY <1>7, <2>1, <1>0, QuietStep DEF DelTest, U
<1>8. ASSUME NEW t \in Threads, GetTest(t)
      PROVE  TInv'
    <2>1. /\ pc[t] \in QuietLabels
          /\ \E l \in QuietTargets : pc' = [pc EXCEPT ![t] = l]
        BY <1>8 DEF GetTest, Goto, Return, ReturnWith, QuietLabels, QuietTargets,
                    Labels, Loading, Reloading, InitLabels
    <2>. QED
        BY <1>8, <2>1, <1>0, QuietStep DEF GetTest, U
<1>9. ASSUME NEW t \in Threads, GetRead(t)
      PROVE  TInv'
    <2>1. /\ pc[t] \in QuietLabels
          /\ pc' = [pc EXCEPT ![t] = "idle"]
        BY <1>9 DEF GetRead, Return, ReturnWith, QuietLabels, Labels, Loading, Reloading
    <2>. QED
        BY <1>9, <2>1, <1>0, QuietStep DEF GetRead, U, QuietTargets
<1>10. ASSUME NEW t \in Threads, RegInsert(t)
       PROVE  TInv'
    <2>1. DOMAIN registered' = DOMAIN registered \cup {call[t].id}
        BY <1>10 DEF RegInsert, DictSet
    <2>2. pc' = [pc EXCEPT ![t] = "idle"] /\ UNCHANGED <<runtime, initialized, env, call>>
        BY <1>10 DEF RegInsert, Return, ReturnWith
    <2>. QED
        BY <1>10, <2>1, <2>2 DEF RegInsert, TInv, Labels, Loading, Reloading, InitLabels
<1>11. ASSUME NEW t \in Threads, UpdGet(t)
       PROVE  TInv'
    <2>1. /\ pc[t] \in QuietLabels
          /\ \E l \in QuietTargets : pc' = [pc EXCEPT ![t] = l]
          /\ DOMAIN call' = Threads
          /\ \A s \in Threads \ {t} : call'[s] = call[s]
        BY <1>11 DEF UpdGet, Goto, Return, ReturnWith, QuietLabels, QuietTargets,
                     Labels, Loading, Reloading, InitLabels, TInv
    <2>. QED
        BY <1>11, <2>1, <1>0, QuietStep DEF UpdGet
<1>12. ASSUME NEW t \in Threads, UpdWrite(t)
       PROVE  TInv'
    <2>1. /\ pc[t] \in QuietLabels
          /\ \E l \in QuietTargets : pc' = [pc EXCEPT ![t] = l]
          /\ DOMAIN call' = Threads
          /\ \A s \in Threads \ {t} : call'[s] = call[s]
        BY <1>12 DEF UpdWrite, Return, ReturnWith, QuietLabels, QuietTargets,
                     Labels, Loading, Reloading, InitLabels, TInv
    <2>. QED
        BY <1>12, <2>1, <1>0, QuietStep DEF UpdWrite
<1>13. ASSUME NEW t \in Threads, DelDel(t)
       PROVE  TInv'
    <2>1. DOMAIN registered' \subseteq DOMAIN registered
        BY <1>13 DEF DelDel, Restrict
    <2>2. pc' = [pc EXCEPT ![t] = "idle"] /\ UNCHANGED <<runtime, initialized, env, call>>
        BY <1>13 DEF DelDel, Return, ReturnWith
    <2>. QED
        BY <1>13, <2>1, <2>2 DEF DelDel, TInv, Labels, Loading, Reloading, InitLabels
<1>14. ASSUME NEW t \in Threads, RlClear(t) \/ RlLoad(t)
       PROVE  FALSE
    BY <1>14 DEF RlClear, RlLoad, TInv, Reloading
<1>15. CASE Finished \/ UNCHANGED tvars
    BY <1>15 DEF Finished, tvars, TInv
<1>. QED
    BY <1>1, <1>2, <1>3, <1>4, <1>5, <1>6, <1>7, <1>8, <1>9, <1>10, <1>11,
       <1>12, <1>13, <1>14, <1>15 DEF NoReloadNext, Step

\* Spec section 3 under concurrency: as long as reload_runtime_models is
\* not called, no interleaving of the statements of register_model,
\* update_model, delete_model, get_model_by_id and the lazy _initialize()
\* of any number of threads makes an id both registered and a runtime model.
THEOREM NoReloadDisjoint == NoReloadSpec => []RegistriesDisjoint
<1>1. TInv => RegistriesDisjoint
    <2> SUFFICES ASSUME TInv PROVE RegistriesDisjoint
        OBVIOUS
    <2>1. DOMAIN runtime \subseteq LoadedIds(env)
        BY LoadDomain DEF TInv, EmptyMap
    <2>. QED
        BY <2>1 DEF TInv, RegistriesDisjoint
<1>. QED
    BY <1>1, TInitTInv, NoReloadNextTInv, PTL DEF NoReloadSpec

-----------------------------------------------------------------------------
(***************************************************************************)
(* QuiescentRuntimeLoaded, with reload_runtime_models calls.  It is not    *)
(* inductive: between a reload's clear() (312) and its load (313) the      *)
(* runtime map is empty while other threads may return and go idle.  The  *)
(* strengthening says that a loaded runtime map differs from the           *)
(* environment's load only while some thread is between those two          *)
(* statements.                                                             *)
(***************************************************************************)
QInv ==
    /\ DOMAIN pc = Threads
    /\ loaded /\ runtime # LoadRuntimeModels(env) => \E t \in Threads : pc[t] = "rl_load"

LEMMA TInitQInv == TInit => QInv
BY DEF TInit, QInv

\* A step of thread t that is not at rl_load and leaves the runtime map,
\* the loaded flag, the environment and the other threads' pc alone
\* keeps QInv: the thread that witnesses a pending load is another one.
LEMMA FrameQInv ==
    ASSUME QInv, NEW t \in Threads, pc[t] # "rl_load",
           UNCHANGED <<runtime, loaded, env>>,
           pc' = pc \/ \E l : pc' = [pc EXCEPT ![t] = l]
    PROVE  QInv'
<1>1. DOMAIN pc' = Threads /\ \A s \in Threads \ {t} : pc'[s] = pc[s]
    BY DEF QInv
<1>. QED
    BY <1>1 DEF QInv

LEMMA TNextQInv == QInv /\ [TNext]_tvars => QInv'
<1> SUFFICES ASSUME QInv, [TNext]_tvars PROVE QInv'
    OBVIOUS
<1>1. ASSUME NEW t \in Threads, Start(t) PROVE QInv'
    <2>1. pc[t] # "rl_load" /\ UNCHANGED <<runtime, loaded, env>>
        BY <1>1 DEF Start
    <2>2. \E l : pc' = [pc EXCEPT ![t] = l]
        BY <1>1 DEF Start
    <2>. QED
        BY <2>1, <2>2, FrameQInv
<1>2. ASSUME NEW t \in Threads,
             InitCheck(t) \/ InitSet(t) \/ RegTest(t) \/ UpdTest(t) \/ DelTest(t)
             \/ GetTest(t) \/ GetRead(t)
      PROVE  QInv'
    <2>1. pc[t] # "rl_load" /\ UNCHANGED <<runtime, loaded, env>>
        BY <1>2 DEF InitCheck, InitSet, RegTest, UpdTest, DelTest, GetTest,
                    GetRead, U
    <2>2. \E l : pc' = [pc EXCEPT ![t] = l]
        BY <1>2 DEF InitCheck, InitSet, RegTest, UpdTest, DelTest, GetTest,
                    GetRead, Goto, Return, ReturnWith
    <2>. QED
        BY <2>1, <2>2, FrameQInv
<1>3. ASSUME NEW t \in Threads,
             RegInsert(t) \/ UpdGet(t) \/ UpdWrite(t) \/ DelDel(t)
      PROVE  QInv'
    <2>1. pc[t] # "rl_load" /\ UNCHANGED <<runtime, loaded, env>>
        BY <1>3 DEF RegInsert, UpdGet, UpdWrite, DelDel
    <2>2. pc' = pc \/ \E l : pc' = [pc EXCEPT ![t] = l]
        BY <1>3 DEF RegInsert, UpdGet, UpdWrite, DelDel, Goto, Return, ReturnWith
    <2>. QED
        BY <2>1, <2>2, FrameQInv
\* The two loads assign the environment's whole map.
<1>4. ASSUME NEW t \in Threads, InitLoad(t) \/ RlLoad(t) PROVE QInv'
    <2>1. runtime' = LoadRuntimeModels(env) /\ env' = env
        BY <1>4 DEF InitLoad, RlLoad
    <2>2. DOMAIN pc' = Threads
        BY <1>4 DEF InitLoad, RlLoad, Goto, Return, ReturnWith, QInv
    <2>. QED
        BY <2>1, <2>2 DEF QInv
\* clear() leaves the clearing thread at rl_load, the witness.
<1>5. ASSUME NEW t \in Threads, RlClear(t) PROVE QInv'
    <2>1. pc' = [pc EXCEPT ![t] = "rl_load"]
        BY <1>5 DEF RlClear, Goto
    <2>. QED
        BY <2>1 DEF QInv
<1>6. CASE Finished \/ UNCHANGED tvars
    BY <1>6 DEF Finished, tvars, QInv
<1>. QED
    BY <1>1, <1>2, <1>3, <1>4, <1>5, <1>6 DEF TNext, Step

\* When every thread is idle, a runtime map that has ever been loaded is
\* exactly the environment's: each reload's clear() (312) is followed by
\* its own load (313), whatever other threads do in between, for any
\* number of threads and calls.
THEOREM Quiescent == TSpec => []QuiescentRuntimeLoaded
<1>1. QInv => QuiescentRuntimeLoaded
    BY DEF QInv, QuiescentRuntimeLoaded
<1>. QED
    BY <1>1, TInitQInv, TNextQInv, PTL DEF TSpec

-----------------------------------------------------------------------------
(***************************************************************************)
(* GetSeesRuntimeModels without reload.  A call answers None only at       *)
(* get_model_by_id's last line (230), update_model's not-found return      *)
(* (168) and the end of a reload; every other answer is a string tag.      *)
(* The strengthening adds to TInv that a thread at update_model's tests    *)
(* is in an update call, so its None is never an answer of a get.          *)
(***************************************************************************)
UpdChk == {"upd_chk_rt", "upd_chk_reg"}

GInv ==
    /\ TInv
    /\ DOMAIN resp = Threads
    /\ \A t \in Threads : pc[t] \in UpdChk => call[t].op = "update"
    /\ GetSeesRuntimeModels

\* The ids the environment defines are strings, so None is not one.
LEMMA LoadedIdsStrings ==
    ASSUME NEW e, IsEnv(e)
    PROVE  None \notin LoadedIds(e)
<1>1. LoadedIds(e) \subseteq RuntimeIds
    BY LoadType DEF IsRegistry
<1>2. RuntimeIds \subseteq STRING
    BY RegistryAssumption DEF RuntimeIds
<1>. QED
    BY <1>1, <1>2, ThreadsAssumption

LEMMA TInitGInv == TInit => GInv
<1> SUFFICES ASSUME TInit PROVE GInv
    OBVIOUS
<1>1. None \notin LoadedIds(env)
    BY LoadedIdsStrings, RegistryAssumption DEF TInit
<1>. QED
    BY <1>1, TInitTInv DEF TInit, GInv, UpdChk, GetSeesRuntimeModels

\* What Goto and ReturnWith change.
LEMMA GotoFacts ==
    ASSUME NEW t \in Threads, DOMAIN pc = Threads, NEW l, Goto(t, l)
    PROVE  /\ pc'[t] = l
           /\ resp' = resp
           /\ \A s \in Threads \ {t} : pc'[s] = pc[s]
BY DEF Goto

LEMMA ReturnFacts ==
    ASSUME NEW t \in Threads, DOMAIN pc = Threads, DOMAIN resp = Threads,
           NEW out, NEW m, ReturnWith(t, out, m)
    PROVE  /\ pc'[t] = "idle"
           /\ DOMAIN resp' = Threads
           /\ \A s \in Threads \ {t} : pc'[s] = pc[s] /\ resp'[s] = resp[s]
           /\ resp'[t].out = out
           /\ resp'[t].op = call[t].op
           /\ resp'[t].id = call[t].id
BY DEF ReturnWith

\* A step of thread t that keeps the other threads' pc, call and resp,
\* gives t an answer that meets GetSeesRuntimeModels (or none), and enters
\* update_model's tests only in an update call keeps GInv.
LEMMA RespStep ==
    ASSUME GInv, TInv', env' = env, NEW t \in Threads,
           DOMAIN resp' = Threads,
           \A s \in Threads \ {t} : pc'[s] = pc[s] /\ call'[s] = call[s] /\ resp'[s] = resp[s],
           \/ resp'[t] = resp[t]
           \/ resp'[t].op = "get" /\ resp'[t].id \in LoadedIds(env) => resp'[t].out # None,
           pc'[t] \in UpdChk => call'[t].op = "update"
    PROVE  GInv'
BY DEF GInv, GetSeesRuntimeModels

LEMMA NoReloadNextGInv == GInv /\ [NoReloadNext]_tvars => GInv'
<1> SUFFICES ASSUME GInv, [NoReloadNext]_tvars PROVE GInv'
    OBVIOUS
<1>0. /\ TInv'
      /\ DOMAIN call = Threads
      /\ DOMAIN pc = Threads
      /\ DOMAIN resp = Threads
      /\ env' = env
    BY NoReloadNextTInv DEF GInv, TInv, NoReloadNext, Start, Step, Finished, tvars,
       InitCheck, InitLoad, InitSet, RegTest, UpdTest, DelTest, GetTest, GetRead,
       RegInsert, UpdGet, UpdWrite, DelDel, RlClear, RlLoad, U
<1>1. ASSUME NEW t \in Threads, Start(t), call'[t].op # "reload" PROVE GInv'
    <2>1. PICK op \in Ops : \E id, arg :
               /\ call' = [call EXCEPT ![t] = [op |-> op, id |-> id, arg |-> arg,
                                               h |-> 0, pending |-> {}]]
               /\ pc' = [pc EXCEPT ![t] = IF op = "reload" THEN "rl_clear" ELSE "init_chk"]
        BY <1>1 DEF Start
    <2>2. PICK id, arg :
               /\ call' = [call EXCEPT ![t] = [op |-> op, id |-> id, arg |-> arg,
                                               h |-> 0, pending |-> {}]]
               /\ pc' = [pc EXCEPT ![t] = IF op = "reload" THEN "rl_clear" ELSE "init_chk"]
        BY <2>1
    <2>3. op # "reload"
        BY <1>0, <1>1, <2>2
    <2>4. /\ pc' = [pc EXCEPT ![t] = "init_chk"]
          /\ \A s \in Threads \ {t} : call'[s] = call[s]
          /\ resp' = resp
        BY <1>0, <1>1, <2>2, <2>3 DEF Start
    <2>. QED
        BY <1>0, <2>4, RespStep DEF UpdChk
<1>2. ASSUME NEW t \in Threads, InitCheck(t) \/ InitSet(t) \/ InitLoad(t)
      PROVE  GInv'
    <2>1. PICK l : /\ Goto(t, l)
                   /\ l \in UpdChk => call[t].op = "update"
                   /\ call' = call
        <3>1. pc[t] \in InitLabels
            BY <1>2 DEF InitCheck, InitSet, InitLoad, InitLabels
        <3>2. call[t].op \in DOMAIN BodyStart
            BY <3>1 DEF GInv, TInv
        <3>3. BodyStart[call[t].op] \in UpdChk => call[t].op = "update"
            BY <3>2 DEF BodyStart, UpdChk
        <3>. QED
            BY <1>2, <3>3 DEF InitCheck, InitSet, InitLoad, UpdChk
    <2>. QED
        BY <1>0, <2>1, GotoFacts, RespStep
\* register_model's and delete_model's tests answer with string tags.
<1>3. ASSUME NEW t \in Threads, RegTest(t) \/ DelTest(t) PROVE GInv'
    <2>0. call' = call
        BY <1>3 DEF RegTest, DelTest, U
    <2>1. CASE \E l \in {"reg_chk_rt", "reg_insert", "del_chk_reg", "del_del"} : Goto(t, l)
        BY <1>0, <2>0, <2>1, GotoFacts, RespStep DEF UpdChk
    <2>2. CASE \E out \in {"exists", "runtime", "false"} : Return(t, out)
        <3>1. PICK out \in {"exists", "runtime", "false"} : ReturnWith(t, out, None)
            BY <2>2 DEF Return
        <3>2. out # None
            BY ThreadsAssumption
        <3>. QED
            BY <1>0, <2>0, <3>1, <3>2, ReturnFacts, RespStep DEF UpdChk
    <2>. QED
        BY <1>3, <2>1, <2>2 DEF RegTest, DelTest
\* update_model's tests run in an update call: their None answers an update.
<1>4. ASSUME NEW t \in Threads, UpdTest(t) PROVE GInv'
    <2>0. call' = call /\ call[t].op = "update"
        BY <1>4 DEF UpdTest, U, GInv, UpdChk
    <2>1. CASE \E l \in {"upd_chk_reg", "upd_get"} : Goto(t, l)
        BY <1>0, <2>0, <2>1, GotoFacts, RespStep
    <2>2. CASE Return(t, "runtime") \/ Return(t, None)
        <3>1. PICK out \in {"runtime", None} : ReturnWith(t, out, None)
            BY <2>2 DEF Return
        <3>2. resp'[t].op = "update"
            BY <1>0, <2>0, <3>1, ReturnFacts
        <3>. QED
            BY <1>0, <2>0, <3>1, <3>2, ReturnFacts, RespStep DEF UpdChk
    <2>. QED
        BY <1>4, <2>1, <2>2 DEF UpdTest
\* get_model_by_id answers None only for an id the loaded map lacks.
<1>5. ASSUME NEW t \in Threads, GetTest(t) PROVE GInv'
    <2>0. call' = call
        BY <1>5 DEF GetTest, U
    <2>1. CASE \E l \in {"get_reg", "get_chk_rt", "get_rt"} : Goto(t, l)
        BY <1>0, <2>0, <2>1, GotoFacts, RespStep DEF UpdChk
    <2>2. CASE pc[t] = "get_chk_rt" /\ call[t].id \notin DOMAIN runtime /\ Return(t, None)
        <3>1. runtime = LoadRuntimeModels(env)
            BY <2>2 DEF GInv, TInv, Loading
        <3>2. call[t].id \notin LoadedIds(env)
            BY <2>2, <3>1, LoadDomain DEF GInv, TInv
        <3>3. ReturnWith(t, None, None)
            BY <2>2 DEF Return
        <3>. QED
            BY <1>0, <2>0, <3>2, <3>3, ReturnFacts, RespStep DEF UpdChk
    <2>. QED
        BY <1>5, <2>1, <2>2 DEF GetTest
<1>6. ASSUME NEW t \in Threads, GetRead(t) \/ RegInsert(t) \/ DelDel(t)
      PROVE  GInv'
    <2>1. PICK out \in {"model", "KeyError", "ok", "true"} : \E m : ReturnWith(t, out, m)
        BY <1>6 DEF GetRead, RegInsert, DelDel, Return
    <2>2. PICK m : ReturnWith(t, out, m)
        BY <2>1
    <2>3. out # None
        BY ThreadsAssumption
    <2>4. call' = call
        BY <1>6 DEF GetRead, RegInsert, DelDel, U
    <2>. QED
        BY <1>0, <2>2, <2>3, <2>4, ReturnFacts, RespStep DEF UpdChk
<1>7. ASSUME NEW t \in Threads, UpdGet(t) \/ UpdWrite(t) PROVE GInv'
    <2>0. /\ \A s \in Threads \ {t} : call'[s] = call[s]
          /\ pc[t] \in {"upd_get", "upd_write"}
        BY <1>0, <1>7 DEF UpdGet, UpdWrite
    <2>1. CASE Goto(t, "upd_write")
        BY <1>0, <2>0, <2>1, GotoFacts, RespStep DEF UpdChk
    <2>2. CASE Return(t, "KeyError") \/ Return(t, "ok")
        <3>1. PICK out \in {"KeyError", "ok"} : ReturnWith(t, out, None)
            BY <2>2 DEF Return
        <3>2. out # None
            BY ThreadsAssumption
        <3>. QED
            BY <1>0, <2>0, <3>1, <3>2, ReturnFacts, RespStep DEF UpdChk
    <2>3. CASE UNCHANGED <<pc, resp>>
        BY <1>0, <2>0, <2>3, RespStep DEF UpdChk
    <2>. QED
        BY <1>7, <2>1, <2>2, <2>3 DEF UpdGet, UpdWrite
<1>8. ASSUME NEW t \in Threads, RlClear(t) \/ RlLoad(t) PROVE FALSE
    BY <1>8 DEF RlClear, RlLoad, GInv, TInv, Reloading
<1>9. CASE Finished \/ UNCHANGED tvars
    BY <1>9 DEF Finished, tvars, GInv, TInv, GetSeesRuntimeModels
<1>. QED
    BY <1>1, <1>2, <1>3, <1>4, <1>5, <1>6, <1>7, <1>8, <1>9 DEF NoReloadNext, Step

\* Spec section 5 as far as the code meets it: without reload calls, no
\* interleaving of any number of threads makes get_model_by_id of an id
\* the environment defines answer None, even while other threads run the
\* lazy _initialize() concurrently.
THEOREM NoReloadGetSeesRuntime == NoReloadSpec => []GetSeesRuntimeModels
<1>1. GInv => GetSeesRuntimeModels
    BY DEF GInv
<1>. QED
    BY <1>1, TInitGInv, NoReloadNextGInv, PTL DEF NoReloadSpec

-----------------------------------------------------------------------------
(***************************************************************************)
(* TTypeOK, with reload.  It is not inductive: register_model's insert     *)
(* needs its request to be a model and its id an id, and update_model's    *)
(* field writes need the handle it fetched (170) to point into the heap    *)
(* and the fields left to write to be fields of its request.  A thread's   *)
(* labels fix the method it is in, and the method fixes its arguments.     *)
(***************************************************************************)
RegLabels == {"reg_chk", "reg_chk_rt", "reg_insert"}
UpdLabels == {"upd_chk_rt", "upd_chk_reg", "upd_get", "upd_write"}

CallType == [op : Ops, id : RegIds \cup {None}, arg : Requests \cup UpdateRequests \cup {None},
             h : Nat, pending : SUBSET ModelFields]

TTInv ==
    /\ TTypeOK
    /\ env \in EnvSnapshots
    /\ runtime = EmptyMap \/ runtime = LoadRuntimeModels(env)
    /\ call \in [Threads -> CallType]
    /\ \A t \in Threads :
          /\ pc[t] \in InitLabels => call[t].op \in DOMAIN BodyStart
          /\ pc[t] \in RegLabels => call[t].op = "register"
          /\ pc[t] \in UpdLabels => call[t].op = "update"
          /\ call[t].op = "register" => call[t].id \in RegIds /\ call[t].arg \in Requests
          /\ call[t].op = "update" => call[t].id \in RegIds /\ call[t].arg \in UpdateRequests
          /\ pc[t] = "upd_write" => /\ call[t].h \in 1..Len(heap)
                                   /\ call[t].pending \subseteq DOMAIN call[t].arg

\* The field update_model writes next is one of those left to write.
LEMMA NextFieldIn ==
    ASSUME NEW p \in SUBSET ModelFields, p # {}
    PROVE  NextField(p) \in p
<1>1. \E f \in p : \A g \in p : FieldPos[f] <= FieldPos[g]
    <2>1. CASE "name" \in p
        BY <2>1 DEF FieldPos, ModelFields
    <2>2. CASE "name" \notin p /\ "type" \in p
        BY <2>2 DEF FieldPos, ModelFields
    <2>3. CASE "name" \notin p /\ "type" \notin p /\ "status" \in p
        BY <2>3 DEF FieldPos, ModelFields
    <2>4. CASE "name" \notin p /\ "type" \notin p /\ "status" \notin p
        <3>1. p = {"tags"}
            BY <2>4 DEF ModelFields
        <3>. QED
            BY <3>1 DEF FieldPos
    <2>. QED
        BY <2>1, <2>2, <2>3, <2>4
<1>. QED
    BY <1>1 DEF NextField

\* "model.<f> = request.<f>" keeps a model a model.
LEMMA FieldWriteType ==
    ASSUME NEW m \in Model, NEW u \in UpdateRequests, NEW f \in DOMAIN u
    PROVE  [m EXCEPT ![f] = u[f]] \in Model
<1>1. f \in ModelFields /\ u[f] \in FieldValues[f]
    BY RegistryAssumption
<1>. QED
    BY <1>1 DEF Model, ModelFields, FieldValues

\* The labels a thread may move to in a step that changes only pc and
\* resp, given the method it is in.
LabelOK(t, l) ==
    /\ l \in Labels \ {"upd_write"}
    /\ l \in RegLabels => call[t].op = "register"
    /\ l \in UpdLabels => call[t].op = "update"
    /\ l \in InitLabels => call[t].op \in DOMAIN BodyStart

LEMMA PcStepTTInv ==
    ASSUME TTInv, NEW t \in Threads, NEW l, LabelOK(t, l),
           pc' = [pc EXCEPT ![t] = l],
           UNCHANGED <<registered, runtime, initialized, env, loaded, heap, call, ncalls>>
    PROVE  TTInv'
BY DEF TTInv, TTypeOK, LabelOK, Labels, RegLabels, UpdLabels, InitLabels, IsRegistry

LEMMA TInitTTInv == TInit => TTInv
BY ThreadsAssumption DEF TInit, TTInv, TTypeOK, CallType, Ops, Labels, EmptyMap,
   IsRegistry, InitLabels, RegLabels, UpdLabels

\* The runtime maps the service ever holds are registries.
LEMMA RuntimeMapsType ==
    ASSUME NEW e \in EnvSnapshots
    PROVE  /\ IsRegistry(EmptyMap, RuntimeIds)
           /\ IsRegistry(LoadRuntimeModels(e), RuntimeIds)
BY LoadType, RegistryAssumption DEF IsRegistry, EmptyMap

LEMMA TNextTTInv == TTInv /\ [TNext]_tvars => TTInv'
<1> SUFFICES ASSUME TTInv, [TNext]_tvars PROVE TTInv'
    OBVIOUS
<1>0. /\ IsRegistry(EmptyMap, RuntimeIds)
      /\ IsRegistry(LoadRuntimeModels(env), RuntimeIds)
      /\ heap \in Seq(Model)
      /\ \A t \in Threads : call[t] \in CallType
    BY RuntimeMapsType DEF TTInv, TTypeOK
<1>1. ASSUME NEW t \in Threads, Start(t) PROVE TTInv'
    <2>1. PICK op \in Ops : \E id \in IF op = "reload" THEN {None} ELSE RegIds :
               \E arg \in CASE op = "register" -> Requests
                          [] op = "update"   -> UpdateRequests
                          [] OTHER           -> {None} :
               /\ call' = [call EXCEPT ![t] = [op |-> op, id |-> id, arg |-> arg,
                                               h |-> 0, pending |-> {}]]
               /\ pc' = [pc EXCEPT ![t] = IF op = "reload" THEN "rl_clear" ELSE "init_chk"]
        BY <1>1 DEF Start
    <2>2. PICK id \in IF op = "reload" THEN {None} ELSE RegIds :
               \E arg \in CASE op = "register" -> Requests
                          [] op = "update"   -> UpdateRequests
                          [] OTHER           -> {None} :
               /\ call' = [call EXCEPT ![t] = [op |-> op, id |-> id, arg |-> arg,
                                               h |-> 0, pending |-> {}]]
               /\ pc' = [pc EXCEPT ![t] = IF op = "reload" THEN "rl_clear" ELSE "init_chk"]
        BY <2>1
    <2>3. PICK arg \in CASE op = "register" -> Requests
                       [] op = "update"   -> UpdateRequests
                       [] OTHER           -> {None} :
               /\ call' = [call EXCEPT ![t] = [op |-> op, id |-> id, arg |-> arg,
                                               h |-> 0, pending |-> {}]]
               /\ pc' = [pc EXCEPT ![t] = IF op = "reload" THEN "rl_clear" ELSE "init_chk"]
        BY <2>2
    <2>4. [op |-> op, id |-> id, arg |-> arg, h |-> 0, pending |-> {}] \in CallType
        BY DEF CallType, Ops
    <2>5. op # "reload" => op \in DOMAIN BodyStart
        BY DEF Ops, BodyStart
    <2>6. ncalls' \in [Threads -> 0..MaxCalls]
        BY <1>1, ThreadsAssumption DEF Start, TTInv, TTypeOK
    <2>. QED
        BY <1>1, <2>3, <2>4, <2>5, <2>6
           DEF Start, TTInv, TTypeOK, Labels, InitLabels, RegLabels, UpdLabels, IsRegistry
\* The tests of each method move the thread to a label of the same method.
<1>2. ASSUME NEW t \in Threads, InitCheck(t) \/ InitSet(t) PROVE TTInv'
    <2>1. call[t].op \in DOMAIN BodyStart
        BY <1>2 DEF InitCheck, InitSet, TTInv, InitLabels
    <2>2. /\ LabelOK(t, BodyStart[call[t].op])
          /\ LabelOK(t, "init_load")
        BY <2>1 DEF LabelOK, BodyStart, Labels, RegLabels, UpdLabels, InitLabels
    <2>3. CASE InitCheck(t) /\ initialized
        <3>1. /\ pc' = [pc EXCEPT ![t] = BodyStart[call[t].op]]
              /\ UNCHANGED <<registered, runtime, initialized, env, loaded, heap, call, ncalls>>
            BY <2>3 DEF InitCheck, Goto
        <3>. QED
            BY <2>2, <3>1, PcStepTTInv
    <2>4. CASE InitCheck(t) /\ ~initialized
        <3>1. /\ pc' = [pc EXCEPT ![t] = "init_load"]
              /\ UNCHANGED <<registered, runtime, initialized, env, loaded, heap, call, ncalls>>
            BY <2>4 DEF InitCheck, Goto
        <3>. QED
            BY <2>2, <3>1, PcStepTTInv
    \* InitSet also sets the flag, which TTInv does not mention.
    <2>5. CASE InitSet(t)
        <3>1. /\ pc' = [pc EXCEPT ![t] = BodyStart[call[t].op]]
              /\ initialized' = TRUE
              /\ UNCHANGED <<registered, runtime, env, loaded, heap, call, ncalls>>
            BY <2>5 DEF InitSet, Goto
        <3>. QED
            BY <2>2, <3>1 DEF TTInv, TTypeOK, LabelOK, Labels, RegLabels, UpdLabels,
                              InitLabels, IsRegistry
    <2>. QED
        BY <1>2, <2>3, <2>4, <2>5
<1>3. ASSUME NEW t \in Threads, RegTest(t) PROVE TTInv'
    <2>1. call[t].op = "register"
        BY <1>3 DEF RegTest, TTInv, RegLabels
    <2>2. \A l \in {"idle", "reg_chk_rt", "reg_insert"} : LabelOK(t, l)
        BY <2>1 DEF LabelOK, Labels, RegLabels, UpdLabels, InitLabels
    <2>. QED
        BY <1>3, <2>2, PcStepTTInv DEF RegTest, Goto, Return, ReturnWith, U
<1>4. ASSUME NEW t \in Threads, UpdTest(t) PROVE TTInv'
    <2>1. call[t].op = "update"
        BY <1>4 DEF UpdTest, TTInv, UpdLabels
    <2>2. \A l \in {"idle", "upd_chk_reg", "upd_get"} : LabelOK(t, l)
        BY <2>1 DEF LabelOK, Labels, RegLabels, UpdLabels, InitLabels
    <2>. QED
        BY <1>4, <2>2, PcStepTTInv DEF UpdTest, Goto, Return, ReturnWith, U
<1>5. ASSUME NEW t \in Threads, DelTest(t) \/ GetTest(t) \/ GetRead(t) PROVE TTInv'
    <2>1. \A l \in {"idle", "del_chk_reg", "del_del", "get_reg", "get_chk_rt", "get_rt"} :
             LabelOK(t, l)
        BY DEF LabelOK, Labels, RegLabels, UpdLabels, InitLabels
    <2>. QED
        BY <1>5, <2>1, PcStepTTInv DEF DelTest, GetTest, GetRead, Goto, Return, ReturnWith, U
\* The two loads and clear() assign whole registries.
<1>6. ASSUME NEW t \in Threads, InitLoad(t) \/ RlClear(t) \/ RlLoad(t) PROVE TTInv'
    <2>1. /\ runtime' = EmptyMap \/ runtime' = LoadRuntimeModels(env)
          /\ UNCHANGED <<registered, env, heap, call, ncalls>>
          /\ DOMAIN pc' = Threads
        BY <1>6 DEF InitLoad, RlClear, RlLoad, Goto, Return, ReturnWith, TTInv, TTypeOK
    <2>2. \A s \in Threads \ {t} : pc'[s] = pc[s]
        BY <1>6 DEF InitLoad, RlClear, RlLoad, Goto, Return, ReturnWith, TTInv, TTypeOK
    <2>3. /\ pc'[t] \in Labels
          /\ pc'[t] \notin RegLabels \cup UpdLabels
          /\ pc'[t] \in InitLabels => call[t].op \in DOMAIN BodyStart
        <3>1. CASE InitLoad(t)
            <4>1. pc'[t] = "init_set" /\ call[t].op \in DOMAIN BodyStart
                BY <3>1 DEF InitLoad, Goto, TTInv, TTypeOK, InitLabels
            <4>. QED
                BY <4>1 DEF Labels, RegLabels, UpdLabels
        <3>2. CASE RlClear(t) \/ RlLoad(t)
            <4>1. pc'[t] \in {"rl_load", "idle"}
                BY <3>2 DEF RlClear, RlLoad, Goto, Return, ReturnWith, TTInv, TTypeOK
            <4>. QED
                BY <4>1 DEF Labels, RegLabels, UpdLabels, InitLabels
        <3>. QED
            BY <1>6, <3>1, <3>2
    <2>4. TTypeOK'
        <3>1. pc' \in [Threads -> Labels]
            <4>1. PICK l \in {"init_set", "rl_load", "idle"} : pc' = [pc EXCEPT ![t] = l]
                BY <1>6 DEF InitLoad, RlClear, RlLoad, Goto, Return, ReturnWith
            <4>. QED
                BY <4>1 DEF TTInv, TTypeOK, Labels
        <3>2. IsRegistry(runtime', RuntimeIds)
            BY <1>0, <2>1
        <3>. QED
            BY <2>1, <3>1, <3>2 DEF TTInv, TTypeOK
    <2>5. \A s \in Threads :
             /\ pc'[s] \in InitLabels => call'[s].op \in DOMAIN BodyStart
             /\ pc'[s] \in RegLabels => call'[s].op = "register"
             /\ pc'[s] \in UpdLabels => call'[s].op = "update"
             /\ call'[s].op = "register" => call'[s].id \in RegIds /\ call'[s].arg \in Requests
             /\ call'[s].op = "update" => call'[s].id \in RegIds /\ call'[s].arg \in UpdateRequests
             /\ pc'[s] = "upd_write" => /\ call'[s].h \in 1..Len(heap')
                                        /\ call'[s].pending \subseteq DOMAIN call'[s].arg
        BY <2>1, <2>2, <2>3 DEF TTInv, UpdLabels
    <2>. QED
        BY <2>1, <2>4, <2>5 DEF TTInv
\* register_model stores a handle to the new object it appended.
<1>7. ASSUME NEW t \in Threads, RegInsert(t) PROVE TTInv'
    <2>1. call[t].op = "register"
        BY <1>7 DEF RegInsert, TTInv, RegLabels
    <2>2. call[t].arg \in Model /\ call[t].id \in RegIds
        BY <2>1, RegistryAssumption DEF TTInv
    <2>3. /\ heap' \in Seq(Model)
          /\ Len(heap') = Len(heap) + 1
        BY <1>0, <1>7, <2>2, AppendProperties DEF RegInsert
    <2>4. /\ DOMAIN registered' \subseteq RegIds
          /\ \A id \in DOMAIN registered' : registered'[id] \in 1..Len(heap')
        BY <1>7, <2>2, <2>3 DEF RegInsert, DictSet, TTInv, TTypeOK
    <2>5. pc' = [pc EXCEPT ![t] = "idle"]
        BY <1>7 DEF RegInsert, Return, ReturnWith
    <2>. QED
        BY <1>7, <2>3, <2>4, <2>5
           DEF RegInsert, TTInv, TTypeOK, Labels, InitLabels, RegLabels, UpdLabels
\* update_model fetches a handle of the registered map.
<1>8. ASSUME NEW t \in Threads, UpdGet(t) PROVE TTInv'
    <2>1. call[t].op = "update" /\ call[t].arg \in UpdateRequests
        BY <1>8 DEF UpdGet, TTInv, UpdLabels
    <2>2. DOMAIN call[t].arg \subseteq ModelFields
        BY <2>1, RegistryAssumption
    <2>3. CASE call[t].id \in DOMAIN registered
        <3>1. registered[call[t].id] \in 1..Len(heap)
            BY <2>3 DEF TTInv, TTypeOK
        <3>2. /\ call' = [call EXCEPT ![t].h = registered[call[t].id],
                                      ![t].pending = DOMAIN call[t].arg]
              /\ pc' = [pc EXCEPT ![t] = "upd_write"]
            BY <1>8, <2>3 DEF UpdGet, Goto
        <3>3. /\ call'[t] \in CallType
              /\ call'[t].op = "update" /\ call'[t].id = call[t].id
              /\ call'[t].arg = call[t].arg
              /\ call'[t].h \in 1..Len(heap)
              /\ call'[t].pending = DOMAIN call[t].arg
            <4>1. call[t] = [op |-> call[t].op, id |-> call[t].id, arg |-> call[t].arg,
                             h |-> call[t].h, pending |-> call[t].pending]
                BY <1>0 DEF CallType
            <4>2. call'[t] = [op |-> call[t].op, id |-> call[t].id, arg |-> call[t].arg,
                              h |-> registered[call[t].id], pending |-> DOMAIN call[t].arg]
                BY <3>2, <4>1 DEF TTInv
            <4>3. /\ call[t].op \in Ops
                  /\ call[t].id \in RegIds \cup {None}
                  /\ call[t].arg \in Requests \cup UpdateRequests \cup {None}
                BY <1>0 DEF CallType
            <4>4. /\ registered[call[t].id] \in Nat
                  /\ DOMAIN call[t].arg \in SUBSET ModelFields
                BY <2>2, <3>1
            <4>5. call'[t] \in CallType
                BY <4>2, <4>3, <4>4 DEF CallType
            <4>. QED
                BY <2>1, <3>1, <4>2, <4>5
        <3>. QED
            BY <1>8, <2>1, <3>2, <3>3
               DEF UpdGet, TTInv, TTypeOK, Labels, InitLabels, RegLabels, UpdLabels
    <2>4. CASE call[t].id \notin DOMAIN registered
        <3>1. LabelOK(t, "idle")
            BY DEF LabelOK, Labels, RegLabels, UpdLabels, InitLabels
        <3>. QED
            BY <1>8, <2>4, <3>1, PcStepTTInv DEF UpdGet, Return, ReturnWith
    <2>. QED
        BY <2>3, <2>4
\* One field write of update_model on the fetched object.
<1>9. ASSUME NEW t \in Threads, UpdWrite(t) PROVE TTInv'
    <2>1. /\ call[t].op = "update" /\ call[t].arg \in UpdateRequests
          /\ call[t].h \in 1..Len(heap)
          /\ call[t].pending \subseteq DOMAIN call[t].arg
        BY <1>9 DEF UpdWrite, TTInv, UpdLabels
    <2>2. CASE call[t].pending = {}
        <3>1. LabelOK(t, "idle")
            BY DEF LabelOK, Labels, RegLabels, UpdLabels, InitLabels
        <3>. QED
            BY <1>9, <2>2, <3>1, PcStepTTInv DEF UpdWrite, Return, ReturnWith
    <2>3. CASE call[t].pending # {}
        <3> DEFINE f == NextField(call[t].pending)
                   h == call[t].h
                   u == call[t].arg
        <3>1. f \in call[t].pending /\ f \in DOMAIN u
            <4>1. call[t].pending \in SUBSET ModelFields
                BY <1>0 DEF CallType
            <4>. QED
                BY <2>1, <2>3, <4>1, NextFieldIn
        <3>2. /\ heap' = [heap EXCEPT ![h] = [heap[h] EXCEPT ![f] = u[f]]]
              /\ call' = [call EXCEPT ![t].pending = @ \ {f}]
              /\ UNCHANGED <<pc, registered, runtime, initialized, env, loaded, ncalls>>
            BY <1>9, <2>3 DEF UpdWrite
        <3>3. [heap[h] EXCEPT ![f] = u[f]] \in Model
            <4>1. heap[h] \in Model
                BY <1>0, <2>1
            <4>. QED
                BY <2>1, <3>1, <4>1, FieldWriteType
        <3>4. heap' \in Seq(Model) /\ Len(heap') = Len(heap)
            BY <1>0, <2>1, <3>2, <3>3, ExceptSeq
        <3>5. /\ call'[t] \in CallType
              /\ call'[t].op = call[t].op /\ call'[t].id = call[t].id
              /\ call'[t].arg = call[t].arg /\ call'[t].h = call[t].h
              /\ call'[t].pending \subseteq call[t].pending
            BY <1>0, <3>2 DEF CallType, TTInv
        <3>. QED
            BY <2>1, <3>2, <3>4, <3>5 DEF TTInv, TTypeOK
    <2>. QED
        BY <2>2, <2>3
\* delete_model's del removes an entry.
<1>10. ASSUME NEW t \in Threads, DelDel(t) PROVE TTInv'
    <2>1. pc' = [pc EXCEPT ![t] = "idle"]
        BY <1>10 DEF DelDel, Return, ReturnWith
    <2>2. /\ DOMAIN registered' \subseteq DOMAIN registered
          /\ \A id \in DOMAIN registered' : registered'[id] = registered[id]
        BY <1>10 DEF DelDel, Restrict
    <2>. QED
        BY <1>10, <2>1, <2>2
           DEF DelDel, TTInv, TTypeOK, Labels, InitLabels, RegLabels, UpdLabels
<1>11. CASE Finished \/ UNCHANGED tvars
    BY <1>11 DEF Finished, tvars, TTInv, TTypeOK
<1>. QED
    BY <1>1, <1>2, <1>3, <1>4, <1>5, <1>6, <1>7, <1>8, <1>9, <1>10, <1>11 DEF TNext, Step

\* With reloads and any number of threads and calls, the registered map
\* only holds handles of objects register_model created, every one of
\* them a model, and the runtime map is always a registry: update_model's
\* field-by-field writes and concurrent deletes never leave a dangling
\* handle or a malformed model.
THEOREM ThreadsTypeCorrect == TSpec => []TTypeOK
<1>1. TTInv => TTypeOK
    BY DEF TTInv
<1>. QED
    BY <1>1, TInitTTInv, TNextTTInv, PTL DEF TSpec

=============================================================================
