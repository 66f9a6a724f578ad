---------------------------- MODULE MCWarehouse -----------------------------
(* The sessions, inventory and users pipelines share neither tables nor    *)
(* state, so a behaviour of all of them satisfies a property of one        *)
(* exactly if its part does: each behaviour here exercises one of them.    *)
EXTENDS SessionsLoad, InventoryLoad, UsersDimension

VARIABLE pipeline

WarehouseInit ==
    /\ SessionsInit /\ InventoryInit /\ Init
    /\ pipeline \in {"sessions", "inventory", "users"}
    /\ pipeline # "users" => source = [u \in Users |-> 0]

WarehouseNext ==
    /\ pipeline' = pipeline
    /\ \/ pipeline = "sessions" /\ SessionsNext /\ UNCHANGED <<inventoryVars, vars>>
       \/ pipeline = "inventory" /\ InventoryNext /\ UNCHANGED <<sessionVars, vars>>
       \/ pipeline = "users" /\ Next /\ UNCHANGED <<sessionVars, inventoryVars>>

WarehouseSpec ==
    WarehouseInit /\ [][WarehouseNext]_<<pipeline, sessionVars, inventoryVars, vars>>
=============================================================================
