------------------------- MODULE MC_ModelRegistry -------------------------
(***************************************************************************)
(* A small instance of ModelRegistry for TLC: two ids that callers         *)
(* register, and environments that exercise every branch of                *)
(* _load_runtime_models: a bad TYPE value, a valid TYPE in upper case, a   *)
(* NAME given, a blank URL, a name the regex rejects, and two variables    *)
(* (EVAL_HUB_MODEL_a_URL, EVAL_HUB_MODEL_A_URL) that lower-case to the     *)
(* same id "a", one of which is also an id callers register.               *)
(***************************************************************************)
EXTENDS ModelRegistry, TLC



MCRegIds == {"a", "b", "A"}
MCRawIds == {"A", "a", "b", ""}
MCIdLower == ("A" :> "a") @@ ("a" :> "a") @@ ("b" :> "b") @@ ("" :> "")
MCNames == {"n1", "n2"}
MCModelTypes == {"openai-compatible", "vllm"}
MCTypeTexts == {"VLLM", "bogus"}
MCTypeLower == ("VLLM" :> "vllm") @@ ("bogus" :> "bogus")
MCUrlTexts == {"http://m", " "}
MCBlankUrls == {" "}
MCStatuses == {"active", "inactive"}
MCTags == {"runtime", "t"}

MCRequests ==
    { [name |-> "n1", type |-> "openai-compatible", status |-> "active", tags |-> {}],
      [name |-> "n2", type |-> "vllm", status |-> "inactive", tags |-> {"t"}] }

MCUpdateRequests ==
    { [status |-> "inactive"],
      [name |-> "n2", tags |-> {"runtime"}],
      [f \in {} |-> None] }

V(raw, suffix, val) == [var |-> <<raw, suffix>>, val |-> val]

\* No EVAL_HUB_MODEL_* variable.
Env0 == << >>
\* EVAL_HUB_MODEL_A_URL with an invalid TYPE: model "a", default type.
Env1 == << V("A", "URL", "http://m"), V("A", "TYPE", "bogus") >>
\* a and A collide on "a" (A comes last and wins, with its TYPE VLLM);
\* b has a blank URL; EVAL_HUB_MODEL__URL is rejected by the regex.
Env2 == << V("a", "URL", "http://m"), V("a", "NAME", "n1"),
           V("A", "URL", "http://m"), V("A", "TYPE", "VLLM"),
           V("b", "URL", " "), V("", "URL", "http://m") >>
\* Model "b" with its NAME.
Env3 == << V("b", "URL", "http://m"), V("b", "NAME", "n2") >>

MCEnvSnapshots == {Env0, Env1, Env2, Env3}

=============================================================================
