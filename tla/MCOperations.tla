---------------------------- MODULE MCOperations ----------------------------
(***************************************************************************)
(* Season operations and upgrades, storage maintenance and the local AI    *)
(* lab, each checked on its own small instance: every behaviour belongs to *)
(* one part and leaves the others in their initial state.                  *)
(***************************************************************************)
EXTENDS SeasonOperations, StorageMaintenance, AiLab

VARIABLE part

operationsVars == <<part, storageVars, seasonVars, labVars>>

LabSymmetry == Permutations(Mints) \cup Permutations(Models)

OperationsInit ==
    /\ part \in {"storage", "season", "lab"}
    /\ SeasonInit /\ StorageInit /\ LabInit
    /\ recent = 0

OperationsNext ==
    /\ UNCHANGED part
    /\ \/ part = "storage" /\ StorageNext /\ UNCHANGED <<seasonVars, labVars>>
       \/ part = "season" /\ SeasonNext /\ UNCHANGED <<storageVars, labVars>>
       \/ part = "lab" /\ LabNext /\ UNCHANGED <<storageVars, seasonVars>>

OperationsSpec == OperationsInit /\ [][OperationsNext]_operationsVars
=============================================================================
