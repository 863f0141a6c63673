---------------------------- MODULE MCFlashParam -----------------------------
(* Small instance of the flash store; the records are model values.  The   *)
(* scene is chosen at the start: the store as any caller uses it, or the   *)
(* parameter store from the production line on.                            *)
EXTENDS FactoryData

CONSTANTS v1, v2, v3
VARIABLE scene

MCValue == {v1, v2, v3}

MCNext ==
    /\ UNCHANGED scene
    /\ \/ scene = "store" /\ Next /\ UNCHANGED <<stage, cipher, confirmed, interrupted>>
       \/ scene = "factory" /\ FactoryNext

MCInit == FactoryInit /\ scene \in {"store", "factory"}
MCSpec == MCInit /\ [][MCNext]_<<factoryVars, scene>>
==============================================================================
