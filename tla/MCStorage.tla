------------------------------- MODULE MCStorage -------------------------------
(***************************************************************************)
(* The two parts that keep blocks safe: transactions of the log, or threads *)
(* that use the buffer cache and the disk beneath it.  A behaviour has one  *)
(* workload, chosen in its initial state.                                   *)
(***************************************************************************)
EXTENDS MCLog, Bcache

VARIABLE workload

storageVars == <<vars, bcacheVars, workload>>

\* While the buffers are looked at the log is idle, on an empty disk.
StorageInit ==
    /\ workload \in {"log", "buffers"}
    /\ Init /\ BcacheInit
    /\ workload = "buffers" => \A b \in Blocks : disk[b] = dlog[1]

StorageNext ==
    \/ workload = "log" /\ Next /\ UNCHANGED <<bcacheVars, workload>>
    \/ workload = "buffers" /\ BcacheNext /\ UNCHANGED <<vars, workload>>

StorageSpec == StorageInit /\ [][StorageNext]_storageVars
================================================================================
