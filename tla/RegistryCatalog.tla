-------------------------- MODULE RegistryCatalog --------------------------
(***************************************************************************)
(* What the model registry promises its callers (spec sections 3, 4.1):    *)
(* one catalog from model id to an entry that records where the entry      *)
(* comes from.  The entries the environment defines are there from the    *)
(* first call on, and no call changes or removes them, nor reuses their    *)
(* ids; callers add entries under free ids, and edit or remove the         *)
(* entries they added.                                                     *)
(***************************************************************************)
CONSTANTS
    Ids,       \* model ids
    Models     \* model contents

VARIABLES
    catalog,   \* id -> entry
    envModels  \* the environment's models (id -> model), fixed for the run

cvars == <<catalog, envModels>>

CInit == catalog = [id \in DOMAIN envModels |-> [src |-> "runtime", model |-> envModels[id]]]

\* A caller registers a model under an id no entry has.
Add(id, m) ==
    /\ id \notin DOMAIN catalog
    /\ catalog' = [x \in DOMAIN catalog \cup {id} |->
                     IF x = id THEN [src |-> "registered", model |-> m] ELSE catalog[x]]

\* A caller changes a model it registered.
Edit(id, m) ==
    /\ id \in DOMAIN catalog
    /\ catalog[id].src = "registered"
    /\ catalog' = [catalog EXCEPT ![id] = [src |-> "registered", model |-> m]]

\* A caller removes a model it registered.
Remove(id) ==
    /\ id \in DOMAIN catalog
    /\ catalog[id].src = "registered"
    /\ catalog' = [x \in DOMAIN catalog \ {id} |-> catalog[x]]

CNext ==
    /\ \E id \in Ids : \/ \E m \in Models : Add(id, m) \/ Edit(id, m)
                      \/ Remove(id)
    /\ UNCHANGED envModels

CSpec == CInit /\ [][CNext]_cvars

=============================================================================
