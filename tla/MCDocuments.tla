----------------------------- MODULE MCDocuments ------------------------------
(* Small instances of Documents: a licence for the driver, an insurance for  *)
(* each vehicle.                                                                *)
EXTENDS Documents, TLC

CONSTANTS d1, v1, v2, licence, insurance

TypesOf    == d1 :> {licence} @@ v1 :> {insurance} @@ v2 :> {insurance}
RequiredOf == d1 :> {licence} @@ v1 :> {insurance} @@ v2 :> {insurance}
HeldFirst  == <<[owner |-> d1, type |-> licence], [owner |-> v1, type |-> insurance]>>

DocOpSets   == { {"upload", "edit", "approve"},
                 {"upload", "remove", "reject"},
                 {"edit", "remove", "approve", "reject"},
                 {"verifyDriver", "create", "reject"},
                 {"create", "setPrimary", "update", "delete", "approveVehicle"},
                 {"approve", "approveVehicle", "rejectVehicle", "setPrimary"} }
===============================================================================
