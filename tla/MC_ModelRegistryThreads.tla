---------------------- MODULE MC_ModelRegistryThreads ----------------------
(***************************************************************************)
(* A small instance of ModelRegistryThreads for TLC: two worker threads,   *)
(* two calls each, the ids "a" (defined by the environment) and "b" (not), *)
(* and the environment EVAL_HUB_MODEL_A_URL (with an invalid TYPE).        *)
(***************************************************************************)
EXTENDS ModelRegistryThreads, MC_ModelRegistry, TLC

CONSTANTS t1, t2

MCThreads == {t1, t2}
MCThreadRegIds == {"a", "b"}
MCThreadEnvs == {Env1}

=============================================================================
