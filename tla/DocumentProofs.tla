---------------------------- MODULE DocumentProofs ----------------------------
(***************************************************************************)
(* Theorems about Documents, for any vehicles, document types, requests and *)
(* restarts.                                                                *)
(***************************************************************************)
EXTENDS Documents, FiniteSetTheorems, TLAPS

VehicleSteps == {"fleet", "demote", "add", "demoteOthers", "promote", "retire", "documents",
                 "verifyVehicle", "rejectVehicle"}

DocSteps == {"deactivate", "edit", "remove", "approve", "reject"}

(* What a request holds at the steps that use it, when n documents are saved. *)
RequestOK(q, n) ==
    /\ q.at \in DocSteps => q.doc \in 1..n
    /\ q.at \in VehicleSteps => q.owner \in Vehicles

DocInv ==
    /\ DocTypeOK
    /\ \A r \in Requests : RequestOK(req[r], saved)

LEMMA HeldTyped ==
    ASSUME NEW n \in 0..Cardinality(DOMAIN Held)
    PROVE  /\ n \in 0..MaxDocs
           /\ \A d \in 1..n : Held[d].owner \in Owners /\ Held[d].type \in AllTypes
<1>1. PICK m \in 0..MaxDocs : DOMAIN Held = 1..m
  BY HeldAssumption
<1>2. Cardinality(DOMAIN Held) = m
  BY <1>1, FS_Interval, BoundsAssumption
<1>3. \A d \in 1..n : d \in DOMAIN Held
  BY <1>1, <1>2, BoundsAssumption
<1> QED
  BY <1>2, <1>3, HeldAssumption, OwnersAssumption, BoundsAssumption DEF Owners, AllTypes

LEMMA DocInitInv == DocInit => DocInv
<1> SUFFICES ASSUME DocInit PROVE DocInv
  OBVIOUS
<1>1. PICK n \in 0..Cardinality(DOMAIN Held), fleet \in SUBSET Fleet :
      \E status \in [1..n -> {"pending", "verified", "rejected"}], reviewed \in SUBSET fleet :
         StartingWith(n, fleet, status, reviewed)
  BY Zenon DEF DocInit
<1>2. PICK status \in [1..n -> {"pending", "verified", "rejected"}], reviewed \in SUBSET fleet :
         StartingWith(n, fleet, status, reviewed)
  BY <1>1, Zenon
<1>3. saved \in 0..MaxDocs /\ n \in Nat
  <2>1. saved = n
    BY <1>2 DEF StartingWith
  <2> QED
    BY <2>1, HeldTyped, BoundsAssumption
<1>4. doc \in [DocIds -> Doc]
  <2>1. NoDocument \in Doc
    BY DEF NoDocument, Doc, Owners
  <2>2. ASSUME NEW d \in DocIds, ~ d > n
        PROVE  [NoDocument EXCEPT
                  !.owner = Held[d].owner, !.type = Held[d].type, !.status = status[d],
                  !.active = TRUE, !.version = 1,
                  !.reviewed = status[d] = "verified" \/ (Held[d].owner = Driver /\ fleet # {})] \in Doc
    <3>1. d \in 1..n
      BY <2>2, <1>3, BoundsAssumption DEF DocIds
    <3>2. Held[d].owner \in Owners /\ Held[d].type \in AllTypes /\ status[d] \in {"pending", "verified", "rejected"}
      BY <3>1, HeldTyped
    <3> DEFINE was == status[d] = "verified" \/ (Held[d].owner = Driver /\ fleet # {})
    <3>3. was \in BOOLEAN
      OBVIOUS
    <3> HIDE DEF was
    <3>4. [NoDocument EXCEPT !.owner = Held[d].owner, !.type = Held[d].type, !.status = status[d],
                             !.active = TRUE, !.version = 1, !.reviewed = was] \in Doc
      BY <3>2, <3>3, <2>1 DEF NoDocument, Doc
    <3> QED
      BY <3>4 DEF was
  <2> QED
    BY <2>1, <2>2, <1>2 DEF StartingWith
<1>5. driver \in [verified : BOOLEAN, vouched : BOOLEAN]
  <2>1. IsComplete(Driver) \in BOOLEAN
    BY DEF IsComplete
  <2> QED
    BY <2>1, <1>2 DEF StartingWith
<1>6. vehicle \in [Vehicles -> Vehicle]
  <2>1. PICK first \in Vehicles :
               vehicle = [v \in Vehicles |->
                               IF v \notin fleet THEN NoVehicle
                               ELSE [status |-> IF v \in reviewed THEN "verified" ELSE "pending",
                                     active |-> TRUE, primary |-> v = first, complete |-> IsComplete(v)]]
    BY <1>2 DEF StartingWith
  <2>2. \A v : IsComplete(v) \in BOOLEAN
    BY DEF IsComplete
  <2>3. NoVehicle \in Vehicle
    BY DEF NoVehicle, Vehicle
  <2>4. ASSUME NEW v \in Vehicles
        PROVE  [status |-> IF v \in reviewed THEN "verified" ELSE "pending",
                active |-> TRUE, primary |-> v = first, complete |-> IsComplete(v)] \in Vehicle
    BY <2>2 DEF Vehicle
  <2> QED
    BY <2>1, <2>3, <2>4
<1>7. NoRequest \in Request /\ RequestOK(NoRequest, saved)
  BY DEF NoRequest, Request, DocOps, Steps, Owners, RequestOK, VehicleSteps, DocSteps
<1>8. req = [r \in Requests |-> NoRequest] /\ stops = 0
  BY DEF DocInit
<1> QED
  BY <1>3, <1>4, <1>5, <1>6, <1>7, <1>8, BoundsAssumption DEF DocInv, DocTypeOK

LEMMA Replaced ==
    ASSUME DocInv, NEW r \in Requests, NEW q \in Request, req' = [req EXCEPT ![r] = q],
           saved' \in 0..MaxDocs, saved <= saved', RequestOK(q, saved')
    PROVE  req' \in [Requests -> Request] /\ \A s \in Requests : RequestOK(req'[s], saved')
<1>1. ASSUME NEW s \in Requests PROVE RequestOK(req'[s], saved')
  <2>1. CASE s = r
    BY <2>1 DEF DocInv, DocTypeOK
  <2>2. CASE s # r
    <3>1. RequestOK(req[s], saved) /\ req'[s] = req[s] /\ saved \in Nat
      BY <2>2, BoundsAssumption DEF DocInv, DocTypeOK
    <3> QED
      BY <3>1, BoundsAssumption DEF RequestOK
  <2> QED
    BY <2>1, <2>2
<1> QED
  BY <1>1 DEF DocInv, DocTypeOK

LEMMA Moved ==
    ASSUME DocInv, NEW r \in Requests, NEW step \in Steps, Goto(r, step),
           step \notin DocSteps, step \in VehicleSteps => req[r].owner \in Vehicles,
           saved' \in 0..MaxDocs, saved <= saved'
    PROVE  req' \in [Requests -> Request] /\ \A s \in Requests : RequestOK(req'[s], saved')
<1> DEFINE q == [req[r] EXCEPT !.at = step]
<1>1. q \in Request /\ q.at = step /\ q.owner = req[r].owner
  BY DEF DocInv, DocTypeOK, Request
<1>2. RequestOK(q, saved')
  BY <1>1 DEF RequestOK
<1>3. req' = [req EXCEPT ![r] = q]
  BY DEF Goto
<1> HIDE DEF q
<1> QED
  BY <1>1, <1>2, <1>3, Replaced

LEMMA ReceivedInv ==
    ASSUME DocInv, NEW r \in Requests, NEW op \in DocOps, NEW new \in Request,
           RequestOK(new, saved), Received(r, op, new)
    PROVE  DocInv'
<1> DEFINE q == [new EXCEPT !.op = op]
<1>1. q \in Request /\ q.at = new.at /\ q.owner = new.owner /\ q.doc = new.doc
  BY DEF Request
<1>2. req' = [req EXCEPT ![r] = q] /\ UNCHANGED <<doc, saved, driver, vehicle, stops>>
  BY DEF Received, papers
<1>3. RequestOK(q, saved')
  BY <1>1, <1>2 DEF RequestOK
<1> HIDE DEF q
<1>4. saved \in 0..MaxDocs /\ saved <= saved'
  BY <1>2, BoundsAssumption DEF DocInv, DocTypeOK
<1>5. req' \in [Requests -> Request] /\ \A s \in Requests : RequestOK(req'[s], saved')
  BY <1>1, <1>2, <1>3, <1>4, Replaced
<1> QED
  BY <1>2, <1>5 DEF DocInv, DocTypeOK

(* Every handler begins with a request that holds what its next step uses. *)
LEMMA ReceiveInv ==
    ASSUME DocInv, NEW r \in Requests, Receive(r)
    PROVE  DocInv'
<1>0. NoRequest \in Request /\ saved \in Nat /\ Driver \in Owners /\ Vehicles \subseteq Owners
  BY BoundsAssumption DEF NoRequest, Request, DocOps, Steps, Owners, DocInv, DocTypeOK
<1>1. ASSUME NEW d \in DocIds, IsDoc(d) PROVE doc[d].owner \in Owners /\ d \in 1..saved
  BY <1>1, <1>0, BoundsAssumption DEF DocInv, DocTypeOK, Doc, IsDoc, DocIds
<1>2. ASSUME NEW o \in Owners, NEW ty \in Types[o], StartUpload(r, o, ty) PROVE DocInv'
  <2>0. ty \in AllTypes
    BY DEF AllTypes
  <2>1. ASSUME NEW d \in Current(o, ty),
               Received(r, "upload", [NoRequest EXCEPT !.owner = o, !.type = ty, !.doc = d, !.at = "deactivate"])
        PROVE  DocInv'
    <3> DEFINE new == [NoRequest EXCEPT !.owner = o, !.type = ty, !.doc = d, !.at = "deactivate"]
    <3>1. d \in DocIds /\ d \in 1..saved
      BY <1>1 DEF Current
    <3>2. new \in Request /\ RequestOK(new, saved)
      BY <3>1, <2>0, <1>0 DEF NoRequest, Request, Steps, RequestOK, VehicleSteps
    <3> QED
      BY <3>2, <2>1, ReceivedInv DEF DocOps
  <2>2. ASSUME Received(r, "upload", [NoRequest EXCEPT !.owner = o, !.type = ty, !.at = "save"])
        PROVE  DocInv'
    <3> DEFINE new == [NoRequest EXCEPT !.owner = o, !.type = ty, !.at = "save"]
    <3>1. new \in Request /\ RequestOK(new, saved)
      BY <2>0, <1>0 DEF NoRequest, Request, Steps, RequestOK, VehicleSteps, DocSteps
    <3> QED
      BY <3>1, <2>2, ReceivedInv DEF DocOps
  <2> QED
    BY <2>1, <2>2, <1>2 DEF StartUpload
<1>3. ASSUME NEW d \in DocIds, IsDoc(d), NEW op \in {"edit", "remove", "approve", "reject"},
             Received(r, op, [NoRequest EXCEPT !.owner = doc[d].owner, !.doc = d, !.at = op])
      PROVE  DocInv'
  <2> DEFINE new == [NoRequest EXCEPT !.owner = doc[d].owner, !.doc = d, !.at = op]
  <2>1. new \in Request /\ RequestOK(new, saved)
    BY <1>3, <1>1, <1>0 DEF NoRequest, Request, Steps, RequestOK, VehicleSteps
  <2>2. op \in DocOps
    BY DEF DocOps
  <2> HIDE DEF new
  <2>3. Received(r, op, new)
    BY <1>3 DEF new
  <2> QED
    BY <2>1, <2>2, <2>3, ReceivedInv
<1>4. ASSUME NEW v \in Vehicles, NEW op \in DocOps, NEW b \in BOOLEAN, NEW step \in VehicleSteps,
             Received(r, op, [NoRequest EXCEPT !.owner = v, !.value = b, !.at = step])
      PROVE  DocInv'
  <2> DEFINE new == [NoRequest EXCEPT !.owner = v, !.value = b, !.at = step]
  <2>1. new \in Request /\ RequestOK(new, saved)
    BY <1>0 DEF NoRequest, Request, Steps, RequestOK, VehicleSteps, DocSteps
  <2> QED
    BY <2>1, <1>4, ReceivedInv
<1>5. ASSUME NEW v \in Vehicles, NEW op \in DocOps, NEW step \in VehicleSteps,
             Received(r, op, [NoRequest EXCEPT !.owner = v, !.at = step])
      PROVE  DocInv'
  <2> DEFINE new == [NoRequest EXCEPT !.owner = v, !.at = step]
  <2>1. new \in Request /\ RequestOK(new, saved)
    BY <1>0 DEF NoRequest, Request, Steps, RequestOK, VehicleSteps, DocSteps
  <2> QED
    BY <2>1, <1>5, ReceivedInv
<1>6. ASSUME NEW ty \in Types[Driver], UploadDriverDocument(r, ty) PROVE DocInv'
  BY <1>6, <1>2, <1>0 DEF UploadDriverDocument
<1>7. ASSUME NEW v \in Vehicles, NEW ty \in Types[v], UploadVehicleDocument(r, v, ty) PROVE DocInv'
  BY <1>7, <1>2, <1>0 DEF UploadVehicleDocument
<1>8. ASSUME NEW d \in DocIds,
             EditDocument(r, d) \/ DeleteVehicleDocument(r, d) \/ ApproveDocument(r, d) \/ RejectDocument(r, d)
      PROVE  DocInv'
  BY <1>8, <1>3 DEF EditDocument, DeleteVehicleDocument, ApproveDocument, RejectDocument
<1>9. ASSUME NEW b \in BOOLEAN, VerifyDriver(r, b) PROVE DocInv'
  <2> DEFINE new == [NoRequest EXCEPT !.value = b, !.at = "vouch"]
  <2>1. new \in Request /\ RequestOK(new, saved)
    BY <1>0 DEF NoRequest, Request, Steps, RequestOK, VehicleSteps, DocSteps
  <2> QED
    BY <2>1, <1>9, ReceivedInv DEF VerifyDriver, DocOps
<1>10. ASSUME NEW v \in Vehicles, NEW b \in BOOLEAN, CreateVehicle(r, v, b) PROVE DocInv'
  BY <1>10, <1>4 DEF CreateVehicle, DocOps, VehicleSteps
<1>11. ASSUME NEW v \in Vehicles, NEW b \in BOOLEAN, UpdateVehicle(r, v, b) PROVE DocInv'
  <2>1. (IF b THEN "demoteOthers" ELSE "promote") \in VehicleSteps
    BY DEF VehicleSteps
  <2> QED
    BY <2>1, <1>11, <1>4 DEF UpdateVehicle, DocOps
<1>12. ASSUME NEW v \in Vehicles, SetPrimaryVehicle(r, v) PROVE DocInv'
  BY <1>12, <1>4 DEF SetPrimaryVehicle, DocOps, VehicleSteps
<1>13. ASSUME NEW v \in Vehicles, DeleteVehicle(r, v) \/ ApproveVehicle(r, v) \/ RejectVehicle(r, v)
       PROVE  DocInv'
  BY <1>13, <1>5 DEF DeleteVehicle, ApproveVehicle, RejectVehicle, DocOps, VehicleSteps
<1> QED
  BY <1>6, <1>7, <1>8, <1>9, <1>10, <1>11, <1>12, <1>13 DEF Receive, DocumentRoutes, VehicleRoutes, ReviewRoutes

LEMMA DocWritten ==
    ASSUME DocInv, NEW r \in Requests, NEW d \in 1..saved, NEW step \in Steps \ (DocSteps \cup VehicleSteps),
           NEW new \in Doc, WriteDoc(d, new), Goto(r, step)
    PROVE  DocInv'
<1>1. UNCHANGED <<saved, driver, vehicle, stops>> /\ saved \in 0..MaxDocs /\ saved <= saved'
  BY BoundsAssumption DEF WriteDoc, DocInv, DocTypeOK
<1>2. doc' \in [DocIds -> Doc]
  BY DEF WriteDoc, DocInv, DocTypeOK
<1>3. req' \in [Requests -> Request] /\ \A s \in Requests : RequestOK(req'[s], saved')
  BY <1>1, Moved
<1> QED
  BY <1>1, <1>2, <1>3 DEF DocInv, DocTypeOK

LEMMA VehicleWritten ==
    ASSUME DocInv, NEW r \in Requests, NEW v \in Vehicles, NEW step \in Steps \ (DocSteps \cup VehicleSteps),
           NEW new \in Vehicle, WriteVehicle(v, new), Goto(r, step)
    PROVE  DocInv'
<1>1. UNCHANGED <<doc, saved, driver, stops>> /\ saved \in 0..MaxDocs /\ saved <= saved'
  BY BoundsAssumption DEF WriteVehicle, DocInv, DocTypeOK
<1>2. vehicle' \in [Vehicles -> Vehicle]
  BY DEF WriteVehicle, DocInv, DocTypeOK
<1>3. req' \in [Requests -> Request] /\ \A s \in Requests : RequestOK(req'[s], saved')
  BY <1>1, Moved
<1> QED
  BY <1>1, <1>2, <1>3 DEF DocInv, DocTypeOK

(* One access to the database keeps every request and document well formed. *)
LEMMA StepInv ==
    ASSUME DocInv, NEW r \in Requests, Step(r)
    PROVE  DocInv'
<1>0. /\ req[r] \in Request /\ RequestOK(req[r], saved) /\ saved \in 0..MaxDocs /\ saved \in Nat
      /\ \A d \in 1..saved : d \in DocIds /\ doc[d] \in Doc
      /\ \A v \in Vehicles : vehicle[v] \in Vehicle
  BY BoundsAssumption DEF DocInv, DocTypeOK, DocIds
<1>1. ASSUME NEW d \in 1..saved
      PROVE  /\ [doc[d] EXCEPT !.active = FALSE] \in Doc
             /\ [doc[d] EXCEPT !.status = "pending", !.content = r] \in Doc
             /\ [doc[d] EXCEPT !.status = "verified", !.reviewed = TRUE] \in Doc
             /\ [doc[d] EXCEPT !.status = "rejected"] \in Doc
  <2>1. doc[d] \in Doc
    BY <1>0
  <2>2. [doc[d] EXCEPT !.active = FALSE] \in Doc
    BY <2>1 DEF Doc
  <2>3. [doc[d] EXCEPT !.status = "pending", !.content = r] \in Doc
    BY <2>1 DEF Doc
  <2>4. [doc[d] EXCEPT !.status = "verified", !.reviewed = TRUE] \in Doc
    BY <2>1 DEF Doc
  <2>5. [doc[d] EXCEPT !.status = "rejected"] \in Doc
    BY <2>1 DEF Doc
  <2> QED
    BY <2>2, <2>3, <2>4, <2>5
<1>2. ASSUME NEW step \in Steps, Goto(r, step), UNCHANGED <<papers, stops>>, step \notin DocSteps,
             step \in VehicleSteps => req[r].owner \in Vehicles
      PROVE  DocInv'
  <2>1. UNCHANGED <<doc, saved, driver, vehicle, stops>> /\ saved <= saved'
    BY <1>0, <1>2 DEF papers
  <2>2. req' \in [Requests -> Request] /\ \A s \in Requests : RequestOK(req'[s], saved')
    BY <1>0, <1>2, <2>1, Moved
  <2> QED
    BY <2>1, <2>2 DEF DocInv, DocTypeOK
<1>3. ASSUME NEW step \in Steps, NEW value \in BOOLEAN, UNCHANGED <<papers, stops>>, step \notin DocSteps,
             step \in VehicleSteps => req[r].owner \in Vehicles,
             req' = [req EXCEPT ![r].at = step, ![r].value = value]
      PROVE  DocInv'
  <2> DEFINE q == [req[r] EXCEPT !.at = step, !.value = value]
  <2>1. q \in Request /\ RequestOK(q, saved)
    BY <1>0, <1>3 DEF Request, RequestOK
  <2>2. req' = [req EXCEPT ![r] = q]
    BY <1>3
  <2>3. UNCHANGED <<doc, saved, driver, vehicle, stops>> /\ saved <= saved'
    BY <1>0, <1>3 DEF papers
  <2> HIDE DEF q
  <2>4. req' \in [Requests -> Request] /\ \A s \in Requests : RequestOK(req'[s], saved')
    BY <1>0, <2>1, <2>2, <2>3, Replaced
  <2> QED
    BY <2>3, <2>4 DEF DocInv, DocTypeOK
<1>4. ASSUME NEW step \in Steps, Goto(r, step), UNCHANGED <<doc, saved, driver, stops>>, step \notin DocSteps,
             step \in VehicleSteps => req[r].owner \in Vehicles,
             vehicle' \in [Vehicles -> Vehicle]
      PROVE  DocInv'
  <2>1. saved <= saved'
    BY <1>0, <1>4
  <2>2. req' \in [Requests -> Request] /\ \A s \in Requests : RequestOK(req'[s], saved')
    BY <1>0, <1>4, <2>1, Moved
  <2> QED
    BY <1>4, <2>2 DEF DocInv, DocTypeOK
<1>5. AfterChange(req[r].owner) \in Steps \ (DocSteps \cup VehicleSteps)
  BY DEF AfterChange, Steps, DocSteps, VehicleSteps
<1>6. {"done", "refused", "save", "count", "recount", "writeFlag"} \subseteq Steps \ (DocSteps \cup VehicleSteps)
  BY DEF Steps, DocSteps, VehicleSteps
<1>7. VehicleSteps \subseteq Steps /\ VehicleSteps \cap DocSteps = {}
  BY DEF Steps, DocSteps, VehicleSteps
<1>8. ASSUME req[r].at \in DocSteps PROVE req[r].doc \in 1..saved
  BY <1>0, <1>8 DEF RequestOK
<1>9. ASSUME req[r].at \in VehicleSteps PROVE req[r].owner \in Vehicles /\ vehicle[req[r].owner] \in Vehicle
  BY <1>0, <1>9 DEF RequestOK
<1>10. CASE Deactivate(r)
  BY <1>10, <1>8, <1>1, <1>6, <1>0, DocWritten DEF Deactivate, At, DocSteps
<1>11. CASE SaveDocument(r)
  <2> DEFINE new == [owner |-> req[r].owner, type |-> req[r].type, status |-> "pending", active |-> TRUE,
                     version |-> IF req[r].doc = NoDoc THEN 1 ELSE doc[req[r].doc].version + 1,
                     prev |-> req[r].doc, reviewed |-> FALSE, content |-> r]
  <2>1. new \in Doc
    <3>1. req[r].doc # NoDoc => doc[req[r].doc].version + 1 \in Nat
      BY <1>0 DEF Request, Doc, DocInv, DocTypeOK
    <3> QED
      BY <3>1, <1>0 DEF Doc, Request
  <2>2. saved' \in 0..MaxDocs /\ saved <= saved' /\ UNCHANGED <<driver, vehicle, stops>>
    BY <1>11, <1>0, BoundsAssumption DEF SaveDocument
  <2> HIDE DEF new
  <2>3. doc' = [doc EXCEPT ![saved + 1] = new]
    BY <1>11 DEF SaveDocument, new
  <2>4. doc' \in [DocIds -> Doc]
    BY <2>1, <2>3 DEF DocInv, DocTypeOK
  <2>5. req' \in [Requests -> Request] /\ \A s \in Requests : RequestOK(req'[s], saved')
    BY <1>11, <1>5, <2>2, Moved DEF SaveDocument
  <2> QED
    BY <2>2, <2>4, <2>5 DEF DocInv, DocTypeOK
<1>12. CASE WriteEdit(r)
  <2>1. req[r].doc \in 1..saved /\ Goto(r, AfterChange(req[r].owner))
    BY <1>12, <1>8 DEF WriteEdit, At, DocSteps
  <2>2. CASE WriteDoc(req[r].doc, [doc[req[r].doc] EXCEPT !.status = "pending", !.content = r])
    BY <2>1, <2>2, <1>0, <1>1, <1>5, DocWritten
  <2>3. CASE UNCHANGED <<papers, stops>>
    BY <2>1, <2>3, <1>2, <1>5
  <2> QED
    BY <1>12, <2>2, <2>3 DEF WriteEdit
<1>13. CASE WriteRemoved(r)
  BY <1>13, <1>8, <1>1, <1>6, <1>0, DocWritten DEF WriteRemoved, At, DocSteps
<1>14. CASE CheckCompleteness(r)
  <2>1. IsComplete(req[r].owner) \in BOOLEAN
    BY DEF IsComplete
  <2> QED
    BY <1>14, <2>1, <1>3, <1>6 DEF CheckCompleteness
<1>15. CASE WriteApproved(r)
  BY <1>15, <1>8, <1>1, <1>6, <1>0, DocWritten DEF WriteApproved, At, DocSteps
<1>16. CASE WriteRejected(r)
  <2>1. (IF req[r].owner = Driver THEN "recount" ELSE "done") \in Steps \ (DocSteps \cup VehicleSteps)
    BY <1>6
  <2> QED
    BY <1>16, <2>1, <1>8, <1>1, <1>0, DocWritten DEF WriteRejected, At, DocSteps
<1>17. CASE Recount(r)
  BY <1>17, <1>3, <1>6 DEF Recount
<1>18. CASE WriteFlag(r)
  <2>0. Goto(r, "done") /\ req[r].value \in BOOLEAN /\ req[r].owner \in Owners
    BY <1>18, <1>0 DEF WriteFlag, Request
  <2>1. CASE req[r].owner = Driver
    <3>1. driver' \in [verified : BOOLEAN, vouched : BOOLEAN] /\ UNCHANGED <<doc, saved, vehicle, stops>>
      BY <1>18, <2>0, <2>1 DEF WriteFlag, DocInv, DocTypeOK
    <3>2. req' \in [Requests -> Request] /\ \A s \in Requests : RequestOK(req'[s], saved')
      BY <2>0, <3>1, <1>0, <1>6, Moved
    <3> QED
      BY <3>1, <3>2 DEF DocInv, DocTypeOK
  <2>2. CASE req[r].owner # Driver
    <3>1. req[r].owner \in Vehicles
      BY <2>0, <2>2 DEF Owners
    <3>2. [vehicle[req[r].owner] EXCEPT !.complete = req[r].value] \in Vehicle
      BY <3>1, <2>0, <1>0 DEF Vehicle
    <3>3. WriteVehicle(req[r].owner, [vehicle[req[r].owner] EXCEPT !.complete = req[r].value])
      BY <1>18, <2>2 DEF WriteFlag
    <3> QED
      BY <2>0, <3>1, <3>2, <3>3, <1>6, VehicleWritten
  <2> QED
    BY <2>1, <2>2
<1>19. CASE WriteVouched(r)
  <2>1. driver' \in [verified : BOOLEAN, vouched : BOOLEAN] /\ UNCHANGED <<doc, saved, vehicle, stops>>
    BY <1>19, <1>0 DEF WriteVouched, Request
  <2>2. req' \in [Requests -> Request] /\ \A s \in Requests : RequestOK(req'[s], saved')
    BY <1>19, <2>1, <1>0, <1>6, Moved DEF WriteVouched
  <2> QED
    BY <2>1, <2>2 DEF DocInv, DocTypeOK
<1>20. CASE CheckFleet(r)
  <2> DEFINE primary == req[r].value \/ ~ \E v \in Vehicles : Exists(v) /\ vehicle[v].active
             step == IF primary THEN "demote" ELSE "add"
  <2>1. primary \in BOOLEAN /\ step \in VehicleSteps
    BY DEF VehicleSteps
  <2>2. req' = [req EXCEPT ![r].at = step, ![r].value = primary] /\ UNCHANGED <<papers, stops>>
    BY <1>20 DEF CheckFleet
  <2>3. req[r].owner \in Vehicles
    BY <1>20, <1>9 DEF CheckFleet, At, VehicleSteps
  <2> HIDE DEF primary, step
  <2> QED
    BY <2>1, <2>2, <2>3, <1>3, <1>7
<1>21. CASE DemoteAll(r)
  <2>1. vehicle' \in [Vehicles -> Vehicle] /\ UNCHANGED <<doc, saved, driver, stops>> /\ Goto(r, "add")
    BY <1>21, <1>0 DEF DemoteAll, Vehicle
  <2>2. req[r].owner \in Vehicles
    BY <1>21, <1>9 DEF DemoteAll, At, VehicleSteps
  <2> QED
    BY <2>1, <2>2, <1>4, <1>7 DEF VehicleSteps
<1>22. CASE AddVehicle(r)
  <2>1. req[r].owner \in Vehicles /\ req[r].value \in BOOLEAN
    BY <1>22, <1>9, <1>0 DEF AddVehicle, At, VehicleSteps, Request
  <2>2. [status |-> "pending", active |-> TRUE, complete |-> FALSE, primary |-> req[r].value] \in Vehicle
    BY <2>1 DEF Vehicle
  <2> QED
    BY <1>22, <2>1, <2>2, <1>6, VehicleWritten DEF AddVehicle
<1>23. CASE DemoteOthers(r)
  <2>1. vehicle' \in [Vehicles -> Vehicle] /\ UNCHANGED <<doc, saved, driver, stops>> /\ Goto(r, "promote")
    BY <1>23, <1>0 DEF DemoteOthers, Vehicle
  <2>2. req[r].owner \in Vehicles
    BY <1>23, <1>9 DEF DemoteOthers, At, VehicleSteps
  <2> QED
    BY <2>1, <2>2, <1>4, <1>7 DEF VehicleSteps
<1>24. CASE Promote(r)
  <2>1. req[r].owner \in Vehicles /\ req[r].value \in BOOLEAN /\ vehicle[req[r].owner] \in Vehicle
    BY <1>24, <1>9, <1>0 DEF Promote, At, VehicleSteps, Request
  <2>2. [vehicle[req[r].owner] EXCEPT !.primary = req[r].value] \in Vehicle
    BY <2>1 DEF Vehicle
  <2> QED
    BY <1>24, <2>1, <2>2, <1>6, VehicleWritten DEF Promote
<1>25. CASE Retire(r)
  <2>1. req[r].owner \in Vehicles /\ vehicle[req[r].owner] \in Vehicle
    BY <1>25, <1>9 DEF Retire, At, VehicleSteps
  <2>2. [vehicle[req[r].owner] EXCEPT !.active = FALSE] \in Vehicle
    BY <2>1 DEF Vehicle
  <2> QED
    BY <1>25, <2>1, <2>2, <1>6, VehicleWritten DEF Retire
<1>26. CASE CheckVehicleDocuments(r)
  <2>1. req[r].owner \in Vehicles /\ UNCHANGED <<papers, stops>>
    BY <1>26, <1>9 DEF CheckVehicleDocuments, At, VehicleSteps
  <2>2. Goto(r, "verifyVehicle") \/ Goto(r, "refused")
    BY <1>26 DEF CheckVehicleDocuments
  <2> QED
    BY <2>1, <2>2, <1>2, <1>6, <1>7 DEF VehicleSteps
<1>27. CASE WriteVerified(r)
  <2>1. req[r].owner \in Vehicles /\ vehicle[req[r].owner] \in Vehicle
    BY <1>27, <1>9 DEF WriteVerified, At, VehicleSteps
  <2>2. [vehicle[req[r].owner] EXCEPT !.status = "verified", !.complete = TRUE] \in Vehicle
    BY <2>1 DEF Vehicle
  <2> QED
    BY <1>27, <2>1, <2>2, <1>6, VehicleWritten DEF WriteVerified
<1>28. CASE WriteVehicleRejected(r)
  <2>1. req[r].owner \in Vehicles /\ vehicle[req[r].owner] \in Vehicle
    BY <1>28, <1>9 DEF WriteVehicleRejected, At, VehicleSteps
  <2>2. [vehicle[req[r].owner] EXCEPT !.status = "rejected", !.complete = FALSE] \in Vehicle
    BY <2>1 DEF Vehicle
  <2> QED
    BY <1>28, <2>1, <2>2, <1>6, VehicleWritten DEF WriteVehicleRejected
<1> QED
  BY <1>10, <1>11, <1>12, <1>13, <1>14, <1>15, <1>16, <1>17, <1>18, <1>19, <1>20, <1>21, <1>22,
     <1>23, <1>24, <1>25, <1>26, <1>27, <1>28 DEF Step

(* DocInv is inductive: what a request uses at a step was found by the steps *)
(* before it, and saved documents stay.                                       *)
THEOREM DocInvariance == DocSpec => []DocInv
<1>1. ASSUME DocInv, Stop PROVE DocInv'
  <2>1. UNCHANGED <<doc, saved, driver, vehicle>> /\ stops' \in 0..MaxStops
    BY <1>1, BoundsAssumption DEF Stop, papers, DocInv, DocTypeOK
  <2>2. ASSUME NEW r \in Requests PROVE req'[r] \in Request /\ RequestOK(req'[r], saved')
    <3>1. req[r] \in Request /\ RequestOK(req[r], saved)
      BY <1>1 DEF DocInv, DocTypeOK
    <3>2. [req[r] EXCEPT !.at = "lost"] \in Request /\ RequestOK([req[r] EXCEPT !.at = "lost"], saved)
      BY <3>1 DEF Request, RequestOK, Steps, DocSteps, VehicleSteps
    <3>3. req'[r] = req[r] \/ req'[r] = [req[r] EXCEPT !.at = "lost"]
      BY <1>1 DEF Stop
    <3> QED
      BY <2>1, <3>1, <3>2, <3>3
  <2>3. req' = [r \in Requests |-> req'[r]]
    BY <1>1 DEF Stop
  <2> QED
    BY <1>1, <2>1, <2>2, <2>3 DEF DocInv, DocTypeOK
<1>2. DocInv /\ [DocNext]_docVars => DocInv'
  <2>1. ASSUME DocInv, UNCHANGED docVars PROVE DocInv'
    BY <2>1 DEF docVars, papers, DocInv, DocTypeOK
  <2> QED
    BY <1>1, <2>1, StepInv, ReceiveInv DEF DocNext
<1> QED
  BY <1>2, DocInitInv, PTL DEF DocSpec

(* Documents, vehicles, flags and requests are always well typed. *)
THEOREM DocTypeCorrect == DocSpec => []DocTypeOK
<1>1. DocInv => DocTypeOK
  BY DEF DocInv
<1> QED
  BY <1>1, DocInvariance, PTL

-------------------------------------------------------------------------------
(* Receiving a request changes nothing but its record. *)
Accepted(r) ==
    /\ UNCHANGED <<doc, saved, driver, vehicle, stops>>
    /\ \A s \in Requests : s # r => req'[s] = req[s]
    /\ req'[r].at \in {"deactivate", "save", "edit", "remove", "approve", "reject", "vouch", "fleet",
                       "demoteOthers", "promote", "retire", "documents", "rejectVehicle"}
    /\ req'[r].at = "deactivate" => req'[r].doc \in Current(req'[r].owner, req'[r].type)
    /\ req'[r].at = "save" => req'[r].doc = NoDoc

LEMMA ReceivedShape ==
    ASSUME DocInv, NEW r \in Requests, Receive(r)
    PROVE  Accepted(r)
<1>0. /\ NoRequest \in Request /\ Driver \in Owners /\ Vehicles \subseteq Owners
      /\ \A o \in Owners : Types[o] \subseteq AllTypes
      /\ \A d \in DocIds : doc[d].owner \in Owners
  BY DEF NoRequest, Request, DocOps, Steps, Owners, AllTypes, DocInv, DocTypeOK, Doc
<1>1. ASSUME NEW op, NEW new \in Request, Received(r, op, new),
             new.at \in {"deactivate", "save", "edit", "remove", "approve", "reject", "vouch", "fleet",
                         "demoteOthers", "promote", "retire", "documents", "rejectVehicle"},
             new.at = "deactivate" => new.doc \in Current(new.owner, new.type),
             new.at = "save" => new.doc = NoDoc
      PROVE  Accepted(r)
  <2>1. UNCHANGED <<doc, saved, driver, vehicle, stops>> /\ req' = [req EXCEPT ![r] = [new EXCEPT !.op = op]]
    BY <1>1 DEF Received, papers
  <2>2. /\ \A s \in Requests : s # r => req'[s] = req[s]
        /\ req'[r].at = new.at /\ req'[r].owner = new.owner /\ req'[r].type = new.type
        /\ req'[r].doc = new.doc
    BY <2>1 DEF DocInv, DocTypeOK, Request
  <2> QED
    BY <1>1, <2>1, <2>2 DEF Accepted
<1>2. ASSUME NEW o \in Owners, NEW ty \in Types[o], StartUpload(r, o, ty) PROVE Accepted(r)
  <2>1. ASSUME NEW d \in Current(o, ty),
               Received(r, "upload", [NoRequest EXCEPT !.owner = o, !.type = ty, !.doc = d, !.at = "deactivate"])
        PROVE  Accepted(r)
    <3> DEFINE new == [NoRequest EXCEPT !.owner = o, !.type = ty, !.doc = d, !.at = "deactivate"]
    <3>1. /\ new \in Request /\ new.at = "deactivate" /\ new.doc = d
          /\ new.owner = o /\ new.type = ty
      BY <1>0 DEF NoRequest, Request, Steps, Current
    <3> HIDE DEF new
    <3>2. Received(r, "upload", new)
      BY <2>1 DEF new
    <3> QED
      BY <3>1, <3>2, <1>1
  <2>2. ASSUME Received(r, "upload", [NoRequest EXCEPT !.owner = o, !.type = ty, !.at = "save"])
        PROVE  Accepted(r)
    <3> DEFINE new == [NoRequest EXCEPT !.owner = o, !.type = ty, !.at = "save"]
    <3>1. new \in Request /\ new.at = "save" /\ new.doc = NoDoc
      BY <1>0 DEF NoRequest, Request, Steps
    <3> HIDE DEF new
    <3>2. Received(r, "upload", new)
      BY <2>2 DEF new
    <3> QED
      BY <3>1, <3>2, <1>1
  <2> QED
    BY <1>2, <2>1, <2>2 DEF StartUpload
<1>3. ASSUME NEW d \in DocIds, EditDocument(r, d)
      PROVE  Accepted(r)
  <2> DEFINE new == [NoRequest EXCEPT !.owner = doc[d].owner, !.doc = d, !.at = "edit"]
  <2>1. new \in Request /\ new.at = "edit"
    BY <1>0 DEF NoRequest, Request, Steps
  <2> HIDE DEF new
  <2>2. Received(r, "edit", new)
    BY <1>3 DEF EditDocument, new
  <2> QED
    BY <2>1, <2>2, <1>1
<1>4. ASSUME NEW d \in DocIds, DeleteVehicleDocument(r, d)
      PROVE  Accepted(r)
  <2> DEFINE new == [NoRequest EXCEPT !.owner = doc[d].owner, !.doc = d, !.at = "remove"]
  <2>1. new \in Request /\ new.at = "remove"
    BY <1>0 DEF NoRequest, Request, Steps
  <2> HIDE DEF new
  <2>2. Received(r, "remove", new)
    BY <1>4 DEF DeleteVehicleDocument, new
  <2> QED
    BY <2>1, <2>2, <1>1
<1>5. ASSUME NEW d \in DocIds, ApproveDocument(r, d)
      PROVE  Accepted(r)
  <2> DEFINE new == [NoRequest EXCEPT !.owner = doc[d].owner, !.doc = d, !.at = "approve"]
  <2>1. new \in Request /\ new.at = "approve"
    BY <1>0 DEF NoRequest, Request, Steps
  <2> HIDE DEF new
  <2>2. Received(r, "approve", new)
    BY <1>5 DEF ApproveDocument, new
  <2> QED
    BY <2>1, <2>2, <1>1
<1>6. ASSUME NEW d \in DocIds, RejectDocument(r, d)
      PROVE  Accepted(r)
  <2> DEFINE new == [NoRequest EXCEPT !.owner = doc[d].owner, !.doc = d, !.at = "reject"]
  <2>1. new \in Request /\ new.at = "reject"
    BY <1>0 DEF NoRequest, Request, Steps
  <2> HIDE DEF new
  <2>2. Received(r, "reject", new)
    BY <1>6 DEF RejectDocument, new
  <2> QED
    BY <2>1, <2>2, <1>1
<1>7. ASSUME NEW b \in BOOLEAN, VerifyDriver(r, b)
      PROVE  Accepted(r)
  <2> DEFINE new == [NoRequest EXCEPT !.value = b, !.at = "vouch"]
  <2>1. new \in Request /\ new.at = "vouch"
    BY <1>0 DEF NoRequest, Request, Steps
  <2> HIDE DEF new
  <2>2. Received(r, "verifyDriver", new)
    BY <1>7 DEF VerifyDriver, new
  <2> QED
    BY <2>1, <2>2, <1>1
<1>8. ASSUME NEW v \in Vehicles, NEW b \in BOOLEAN, CreateVehicle(r, v, b)
      PROVE  Accepted(r)
  <2> DEFINE new == [NoRequest EXCEPT !.owner = v, !.value = b, !.at = "fleet"]
  <2>1. new \in Request /\ new.at = "fleet"
    BY <1>0 DEF NoRequest, Request, Steps
  <2> HIDE DEF new
  <2>2. Received(r, "create", new)
    BY <1>8 DEF CreateVehicle, new
  <2> QED
    BY <2>1, <2>2, <1>1
<1>9. ASSUME NEW v \in Vehicles, NEW b \in BOOLEAN, UpdateVehicle(r, v, b)
      PROVE  Accepted(r)
  <2> DEFINE new == [NoRequest EXCEPT !.owner = v, !.value = b, !.at = IF b THEN "demoteOthers" ELSE "promote"]
  <2>1. new \in Request /\ new.at \in {"demoteOthers", "promote"}
    BY <1>0 DEF NoRequest, Request, Steps
  <2> HIDE DEF new
  <2>2. Received(r, "update", new)
    BY <1>9 DEF UpdateVehicle, new
  <2> QED
    BY <2>1, <2>2, <1>1
<1>10. ASSUME NEW v \in Vehicles, SetPrimaryVehicle(r, v)
      PROVE  Accepted(r)
  <2> DEFINE new == [NoRequest EXCEPT !.owner = v, !.value = TRUE, !.at = "demoteOthers"]
  <2>1. new \in Request /\ new.at = "demoteOthers"
    BY <1>0 DEF NoRequest, Request, Steps
  <2> HIDE DEF new
  <2>2. Received(r, "setPrimary", new)
    BY <1>10 DEF SetPrimaryVehicle, new
  <2> QED
    BY <2>1, <2>2, <1>1
<1>11. ASSUME NEW v \in Vehicles, DeleteVehicle(r, v)
      PROVE  Accepted(r)
  <2> DEFINE new == [NoRequest EXCEPT !.owner = v, !.at = "retire"]
  <2>1. new \in Request /\ new.at = "retire"
    BY <1>0 DEF NoRequest, Request, Steps
  <2> HIDE DEF new
  <2>2. Received(r, "delete", new)
    BY <1>11 DEF DeleteVehicle, new
  <2> QED
    BY <2>1, <2>2, <1>1
<1>12. ASSUME NEW v \in Vehicles, ApproveVehicle(r, v)
      PROVE  Accepted(r)
  <2> DEFINE new == [NoRequest EXCEPT !.owner = v, !.at = "documents"]
  <2>1. new \in Request /\ new.at = "documents"
    BY <1>0 DEF NoRequest, Request, Steps
  <2> HIDE DEF new
  <2>2. Received(r, "approveVehicle", new)
    BY <1>12 DEF ApproveVehicle, new
  <2> QED
    BY <2>1, <2>2, <1>1
<1>13. ASSUME NEW v \in Vehicles, RejectVehicle(r, v)
      PROVE  Accepted(r)
  <2> DEFINE new == [NoRequest EXCEPT !.owner = v, !.at = "rejectVehicle"]
  <2>1. new \in Request /\ new.at = "rejectVehicle"
    BY <1>0 DEF NoRequest, Request, Steps
  <2> HIDE DEF new
  <2>2. Received(r, "rejectVehicle", new)
    BY <1>13 DEF RejectVehicle, new
  <2> QED
    BY <2>1, <2>2, <1>1
<1>14. ASSUME NEW ty \in Types[Driver], UploadDriverDocument(r, ty) PROVE Accepted(r)
  BY <1>14, <1>2, <1>0 DEF UploadDriverDocument
<1>15. ASSUME NEW v \in Vehicles, NEW ty \in Types[v], UploadVehicleDocument(r, v, ty) PROVE Accepted(r)
  BY <1>15, <1>2, <1>0 DEF UploadVehicleDocument
<1> QED
  BY <1>3, <1>4, <1>5, <1>6, <1>7, <1>8, <1>9, <1>10, <1>11, <1>12, <1>13, <1>14, <1>15 DEF Receive, DocumentRoutes, VehicleRoutes, ReviewRoutes

(* What no step does to a document that is saved: change its place, put it    *)
(* back in force, forget its review, or change what it says and leave it       *)
(* verified.                                                                   *)
KeptDoc(old, new) ==
    /\ new.owner = old.owner /\ new.type = old.type /\ new.version = old.version /\ new.prev = old.prev
    /\ new.active => old.active
    /\ old.reviewed => new.reviewed
    /\ new.status = "verified" => new.reviewed \/ old.status = "verified"
    /\ new.status = "verified" => new.content = old.content

Kept(r) ==
    /\ saved <= saved'
    /\ \A d \in 1..saved : KeptDoc(doc[d], doc'[d])
    /\ \A s \in Requests : s # r => req'[s] = req[s]

LEMMA StepKept ==
    ASSUME DocInv, NEW r \in Requests, Step(r)
    PROVE  Kept(r)
<1>0. /\ saved \in Nat /\ req \in [Requests -> Request] /\ doc \in [DocIds -> Doc] /\ RequestOK(req[r], saved)
      /\ \A d \in 1..saved : d \in DocIds /\ doc[d] \in Doc
  BY BoundsAssumption DEF DocInv, DocTypeOK, DocIds
<1>1. \A d \in 1..saved : KeptDoc(doc[d], doc[d])
  BY DEF KeptDoc
<1>2. ASSUME UNCHANGED <<doc, saved>> PROVE \A d \in 1..saved : KeptDoc(doc[d], doc'[d])
  BY <1>1, <1>2
<1>3. ASSUME NEW step, Goto(r, step) PROVE \A s \in Requests : s # r => req'[s] = req[s]
  BY <1>0, <1>3 DEF Goto
<1>4. ASSUME NEW step, NEW value, req' = [req EXCEPT ![r].at = step, ![r].value = value]
      PROVE  \A s \in Requests : s # r => req'[s] = req[s]
  BY <1>0, <1>4
<1>5. ASSUME NEW d \in 1..saved, NEW new, NEW step, WriteDoc(d, new), Goto(r, step), KeptDoc(doc[d], new)
      PROVE  Kept(r)
  <2>1. saved' = saved /\ \A e \in 1..saved : KeptDoc(doc[e], doc'[e])
    BY <1>0, <1>1, <1>5 DEF WriteDoc
  <2> QED
    BY <1>0, <1>3, <1>5, <2>1 DEF Kept
<1>6. ASSUME NEW d \in 1..saved
      PROVE  /\ KeptDoc(doc[d], [doc[d] EXCEPT !.active = FALSE])
             /\ KeptDoc(doc[d], [doc[d] EXCEPT !.status = "pending", !.content = r])
             /\ KeptDoc(doc[d], [doc[d] EXCEPT !.status = "verified", !.reviewed = TRUE])
             /\ KeptDoc(doc[d], [doc[d] EXCEPT !.status = "rejected"])
  <2>1. doc[d] \in Doc
    BY <1>0
  <2>2. KeptDoc(doc[d], [doc[d] EXCEPT !.active = FALSE])
    BY <2>1 DEF Doc, KeptDoc
  <2>3. KeptDoc(doc[d], [doc[d] EXCEPT !.status = "pending", !.content = r])
    BY <2>1 DEF Doc, KeptDoc
  <2>4. KeptDoc(doc[d], [doc[d] EXCEPT !.status = "verified", !.reviewed = TRUE])
    BY <2>1 DEF Doc, KeptDoc
  <2>5. KeptDoc(doc[d], [doc[d] EXCEPT !.status = "rejected"])
    BY <2>1 DEF Doc, KeptDoc
  <2> QED
    BY <2>2, <2>3, <2>4, <2>5
<1>7. req[r].at \in DocSteps => req[r].doc \in 1..saved
  BY <1>0 DEF RequestOK
<1>8. CASE Deactivate(r)
  <2> DEFINE d == req[r].doc
             new == [doc[req[r].doc] EXCEPT !.active = FALSE]
             step == "save"
  <2>1. d \in 1..saved
    BY <1>8, <1>7 DEF Deactivate, At, DocSteps
  <2>2. KeptDoc(doc[d], new)
    BY <2>1, <1>6
  <2>3. WriteDoc(d, new) /\ Goto(r, step)
    BY <1>8 DEF Deactivate
  <2> HIDE DEF d, new, step
  <2> QED
    BY <2>1, <2>2, <2>3, <1>5
<1>9. CASE SaveDocument(r)
  <2>1. saved' = saved + 1 /\ \A d \in 1..saved : doc'[d] = doc[d]
    BY <1>9, <1>0 DEF SaveDocument
  <2>2. \A s \in Requests : s # r => req'[s] = req[s]
    BY <1>9, <1>3 DEF SaveDocument
  <2> QED
    BY <2>1, <2>2, <1>0, <1>1 DEF Kept
<1>10. CASE WriteEdit(r)
  <2>1. req[r].doc \in 1..saved /\ \A s \in Requests : s # r => req'[s] = req[s]
    BY <1>10, <1>3, <1>7 DEF WriteEdit, At, DocSteps
  <2>2. CASE WriteDoc(req[r].doc, [doc[req[r].doc] EXCEPT !.status = "pending", !.content = r])
    <3> DEFINE d == req[r].doc
               new == [doc[req[r].doc] EXCEPT !.status = "pending", !.content = r]
               step == AfterChange(req[r].owner)
    <3>1. KeptDoc(doc[d], new)
      BY <2>1, <1>6
    <3>2. WriteDoc(d, new) /\ Goto(r, step) /\ d \in 1..saved
      BY <1>10, <2>1, <2>2 DEF WriteEdit
    <3> HIDE DEF d, new, step
    <3> QED
      BY <3>1, <3>2, <1>5
  <2>3. CASE UNCHANGED <<papers, stops>>
    BY <2>1, <2>3, <1>0, <1>2 DEF Kept, papers
  <2> QED
    BY <1>10, <2>2, <2>3 DEF WriteEdit
<1>11. CASE WriteRemoved(r)
  <2> DEFINE d == req[r].doc
             new == [doc[req[r].doc] EXCEPT !.active = FALSE]
             step == "count"
  <2>1. d \in 1..saved
    BY <1>11, <1>7 DEF WriteRemoved, At, DocSteps
  <2>2. KeptDoc(doc[d], new)
    BY <2>1, <1>6
  <2>3. WriteDoc(d, new) /\ Goto(r, step)
    BY <1>11 DEF WriteRemoved
  <2> HIDE DEF d, new, step
  <2> QED
    BY <2>1, <2>2, <2>3, <1>5
<1>12. CASE WriteApproved(r)
  <2> DEFINE d == req[r].doc
             new == [doc[req[r].doc] EXCEPT !.status = "verified", !.reviewed = TRUE]
             step == "recount"
  <2>1. d \in 1..saved
    BY <1>12, <1>7 DEF WriteApproved, At, DocSteps
  <2>2. KeptDoc(doc[d], new)
    BY <2>1, <1>6
  <2>3. WriteDoc(d, new) /\ Goto(r, step)
    BY <1>12 DEF WriteApproved
  <2> HIDE DEF d, new, step
  <2> QED
    BY <2>1, <2>2, <2>3, <1>5
<1>13. CASE WriteRejected(r)
  <2> DEFINE d == req[r].doc
             new == [doc[req[r].doc] EXCEPT !.status = "rejected"]
             step == IF req[r].owner = Driver THEN "recount" ELSE "done"
  <2>1. d \in 1..saved
    BY <1>13, <1>7 DEF WriteRejected, At, DocSteps
  <2>2. KeptDoc(doc[d], new)
    BY <2>1, <1>6
  <2>3. WriteDoc(d, new) /\ Goto(r, step)
    BY <1>13 DEF WriteRejected
  <2> HIDE DEF d, new, step
  <2> QED
    BY <2>1, <2>2, <2>3, <1>5
<1>14. CASE CheckCompleteness(r) \/ Recount(r) \/ CheckFleet(r)
  <2>1. UNCHANGED <<doc, saved>> /\ \A s \in Requests : s # r => req'[s] = req[s]
    <3>1. CASE CheckCompleteness(r)
      BY <3>1, <1>4 DEF CheckCompleteness, papers
    <3>2. CASE Recount(r)
      BY <3>2, <1>4 DEF Recount, papers
    <3>3. CASE CheckFleet(r)
      BY <3>3, <1>0 DEF CheckFleet, papers
    <3> QED
      BY <1>14, <3>1, <3>2, <3>3
  <2> QED
    BY <2>1, <1>0, <1>2 DEF Kept
<1>15. CASE WriteFlag(r) \/ WriteVouched(r) \/ DemoteAll(r) \/ AddVehicle(r) \/ DemoteOthers(r) \/ Promote(r)
            \/ Retire(r) \/ CheckVehicleDocuments(r) \/ WriteVerified(r) \/ WriteVehicleRejected(r)
  <2>1. UNCHANGED <<doc, saved>> /\ \E step : Goto(r, step)
    BY <1>15 DEF WriteFlag, WriteVouched, DemoteAll, AddVehicle, DemoteOthers, Promote, Retire,
                 CheckVehicleDocuments, WriteVerified, WriteVehicleRejected, WriteVehicle, papers
  <2> QED
    BY <2>1, <1>0, <1>2, <1>3 DEF Kept
<1> QED
  BY <1>8, <1>9, <1>10, <1>11, <1>12, <1>13, <1>14, <1>15 DEF Step

-------------------------------------------------------------------------------
(* A flag about to be set, like one that is set, rests on reviews that have    *)
(* been done.                                                                  *)
ReviewInv ==
    /\ \A d \in 1..saved : doc[d].status = "verified" => doc[d].reviewed
    /\ \A r \in Requests : req[r].at = "writeFlag" /\ req[r].value => Reviewed(req[r].owner)
    /\ \A r \in Requests : req[r].at = "verifyVehicle" => Reviewed(req[r].owner)
    /\ VerifiedWasReviewed

LEMMA CompleteReviewed ==
    ASSUME DocInv, \A d \in 1..saved : doc[d].status = "verified" => doc[d].reviewed, NEW o
    PROVE  /\ IsComplete(o) => Reviewed(o)
           /\ (\A ty \in Required[o] : OldestVerified(o, ty)) => Reviewed(o)
<1>1. saved \in Nat /\ \A d \in DocIds : IsDoc(d) => d \in 1..saved
  BY BoundsAssumption DEF DocInv, DocTypeOK, IsDoc, DocIds
<1>2. ASSUME NEW ty, NEW d \in Current(o, ty), Verified(d)
      PROVE  d \in DocIds /\ IsDoc(d) /\ doc[d].owner = o /\ doc[d].type = ty /\ doc[d].reviewed
  BY <1>1, <1>2 DEF Current, Verified
<1>3. ASSUME IsComplete(o) PROVE Reviewed(o)
  BY <1>2, <1>3 DEF IsComplete, Reviewed
<1>4. ASSUME \A ty \in Required[o] : OldestVerified(o, ty) PROVE Reviewed(o)
  BY <1>2, <1>4 DEF OldestVerified, Reviewed
<1> QED
  BY <1>3, <1>4

LEMMA ReviewedKept ==
    ASSUME DocInv, saved <= saved', saved' \in 0..MaxDocs, \A d \in 1..saved : KeptDoc(doc[d], doc'[d]),
           NEW o, Reviewed(o)
    PROVE  Reviewed(o)'
<1> SUFFICES ASSUME NEW ty \in Required[o]
             PROVE  \E d \in DocIds : (IsDoc(d) /\ doc[d].owner = o /\ doc[d].type = ty /\ doc[d].reviewed)'
  BY DEF Reviewed
<1>1. PICK d \in DocIds : IsDoc(d) /\ doc[d].owner = o /\ doc[d].type = ty /\ doc[d].reviewed
  BY DEF Reviewed
<1>2. d \in 1..saved /\ d <= saved'
  BY <1>1, BoundsAssumption DEF IsDoc, DocIds, DocInv, DocTypeOK
<1> QED
  BY <1>1, <1>2 DEF KeptDoc, IsDoc

(* A step keeps ReviewInv when what it sets rests on reviews. *)
LEMMA ReviewStep ==
    ASSUME DocInv, DocInv', ReviewInv, saved <= saved',
           \A d \in 1..saved : KeptDoc(doc[d], doc'[d]),
           \A d \in (saved + 1)..saved' : doc'[d].status # "verified",
           \A s \in Requests : req'[s].at = "writeFlag" /\ req'[s].value => Reviewed(req'[s].owner),
           \A s \in Requests : req'[s].at = "verifyVehicle" => Reviewed(req'[s].owner),
           driver'.verified => driver'.vouched \/ Reviewed(Driver),
           \A v \in Vehicles : vehicle'[v].complete \/ vehicle'[v].status = "verified" => Reviewed(v)
    PROVE  ReviewInv'
<1>0. saved' \in 0..MaxDocs /\ saved \in Nat
  BY BoundsAssumption DEF DocInv, DocTypeOK
<1>1. \A d \in 1..saved' : doc'[d].status = "verified" => doc'[d].reviewed
  BY <1>0 DEF ReviewInv, KeptDoc
<1>2. ASSUME NEW o, Reviewed(o) PROVE Reviewed(o)'
  BY <1>0, <1>2, ReviewedKept
<1>3. ASSUME NEW s \in Requests,
             (req'[s].at = "writeFlag" /\ req'[s].value) \/ req'[s].at = "verifyVehicle"
      PROVE  Reviewed(req[s].owner)'
  <2>1. PICK o : o = req'[s].owner
    OBVIOUS
  <2>2. Reviewed(o)'
    BY <1>2, <1>3, <2>1
  <2> QED
    BY <2>1, <2>2 DEF Reviewed
<1>4. VerifiedWasReviewed'
  BY <1>2 DEF VerifiedWasReviewed
<1> QED
  BY <1>1, <1>3, <1>4 DEF ReviewInv

LEMMA ReviewInit == DocInit => ReviewInv
<1> SUFFICES ASSUME DocInit PROVE ReviewInv
  OBVIOUS
<1>1. PICK n \in 0..Cardinality(DOMAIN Held), fleet \in SUBSET Fleet :
      \E status \in [1..n -> {"pending", "verified", "rejected"}], reviewed \in SUBSET fleet :
         StartingWith(n, fleet, status, reviewed)
  BY Zenon DEF DocInit
<1>2. PICK status \in [1..n -> {"pending", "verified", "rejected"}], reviewed \in SUBSET fleet :
         StartingWith(n, fleet, status, reviewed)
  BY <1>1, Zenon
<1>3. ASSUME NEW d \in 1..saved, doc[d].status = "verified" PROVE doc[d].reviewed
  <2>1. saved = n /\ n \in 0..MaxDocs
    BY <1>2, HeldTyped DEF StartingWith
  <2>2. d \in DocIds /\ ~ d > n /\ d \in 1..n
    BY <2>1, BoundsAssumption DEF DocIds
  <2>3. doc[d] = [NoDocument EXCEPT
                    !.owner = Held[d].owner, !.type = Held[d].type, !.status = status[d],
                    !.active = TRUE, !.version = 1,
                    !.reviewed = status[d] = "verified" \/ (Held[d].owner = Driver /\ fleet # {})]
    BY <1>2, <2>2 DEF StartingWith
  <2>4. doc[d].status = status[d]
    BY <2>3 DEF NoDocument
  <2>5. doc[d].reviewed = (status[d] = "verified" \/ (Held[d].owner = Driver /\ fleet # {}))
    BY <2>3 DEF NoDocument
  <2> QED
    BY <1>3, <2>4, <2>5
<1>4. \A o : IsComplete(o) => Reviewed(o)
  BY <1>3, DocInitInv, CompleteReviewed
<1>5. driver.verified => Reviewed(Driver)
  BY <1>2, <1>4 DEF StartingWith
<1>6. ASSUME NEW v \in Vehicles, vehicle[v].complete \/ vehicle[v].status = "verified" PROVE Reviewed(v)
  <2>1. PICK first \in Vehicles :
               vehicle = [w \in Vehicles |->
                               IF w \notin fleet THEN NoVehicle
                               ELSE [status |-> IF w \in reviewed THEN "verified" ELSE "pending",
                                     active |-> TRUE, primary |-> w = first, complete |-> IsComplete(w)]]
    BY <1>2 DEF StartingWith
  <2>2. \A w \in reviewed : IsComplete(w)
    BY <1>2 DEF StartingWith
  <2>3. IsComplete(v)
    BY <1>6, <2>1, <2>2 DEF NoVehicle
  <2> QED
    BY <2>3, <1>4
<1>7. \A r \in Requests : req[r].at = "idle"
  BY DEF DocInit, NoRequest
<1> QED
  BY <1>3, <1>5, <1>6, <1>7 DEF ReviewInv, VerifiedWasReviewed

LEMMA ReviewKeptByStep ==
    ASSUME DocInv, DocInv', ReviewInv, NEW r \in Requests, Step(r)
    PROVE  ReviewInv'
<1>0. /\ Kept(r) /\ req \in [Requests -> Request] /\ req[r] \in Request /\ saved \in Nat
      /\ RequestOK(req[r], saved) /\ vehicle \in [Vehicles -> Vehicle] /\ doc \in [DocIds -> Doc]
      /\ saved \in 0..MaxDocs
  BY StepKept, BoundsAssumption DEF DocInv, DocTypeOK
<1>1. /\ driver.verified => driver.vouched \/ Reviewed(Driver)
      /\ \A v \in Vehicles : vehicle[v].complete \/ vehicle[v].status = "verified" => Reviewed(v)
  BY DEF ReviewInv, VerifiedWasReviewed
<1>2. \A o : (IsComplete(o) => Reviewed(o)) /\ ((\A ty \in Required[o] : OldestVerified(o, ty)) => Reviewed(o))
  BY CompleteReviewed DEF ReviewInv
<1>3. ASSUME \A d \in (saved + 1)..saved' : doc'[d].status # "verified",
             req'[r].at = "writeFlag" /\ req'[r].value => Reviewed(req'[r].owner),
             req'[r].at = "verifyVehicle" => Reviewed(req'[r].owner),
             driver'.verified => driver'.vouched \/ Reviewed(Driver),
             \A v \in Vehicles : vehicle'[v].complete \/ vehicle'[v].status = "verified" => Reviewed(v)
      PROVE  ReviewInv'
  <2>1. \A s \in Requests : req'[s].at = "writeFlag" /\ req'[s].value => Reviewed(req'[s].owner)
    BY <1>3, <1>0 DEF Kept, ReviewInv
  <2>2. \A s \in Requests : req'[s].at = "verifyVehicle" => Reviewed(req'[s].owner)
    BY <1>3, <1>0 DEF Kept, ReviewInv
  <2> QED
    BY <1>0, <1>3, <2>1, <2>2, ReviewStep DEF Kept
<1>4. saved' = saved => \A d \in (saved + 1)..saved' : doc'[d].status # "verified"
  BY <1>0
<1>5. ASSUME NEW step, step \notin {"writeFlag", "verifyVehicle"}, Goto(r, step)
      PROVE  req'[r].at \notin {"writeFlag", "verifyVehicle"}
  <2>1. req'[r].at = step
    BY <1>0, <1>5 DEF Goto, Request
  <2> QED
    BY <2>1, <1>5
<1>6. AfterChange(req[r].owner) \notin {"writeFlag", "verifyVehicle"}
  BY DEF AfterChange
<1>7. CASE Deactivate(r) \/ WriteEdit(r) \/ WriteRemoved(r) \/ WriteApproved(r) \/ WriteRejected(r)
  <2>1. saved' = saved /\ UNCHANGED <<driver, vehicle>>
    BY <1>7 DEF Deactivate, WriteEdit, WriteRemoved, WriteApproved, WriteRejected, WriteDoc, papers
  <2>2. req'[r].at \notin {"writeFlag", "verifyVehicle"}
    BY <1>7, <1>5, <1>6 DEF Deactivate, WriteEdit, WriteRemoved, WriteApproved, WriteRejected
  <2> QED
    BY <2>1, <2>2, <1>1, <1>3, <1>4
<1>8. CASE SaveDocument(r)
  <2>1. UNCHANGED <<driver, vehicle>> /\ req'[r].at \notin {"writeFlag", "verifyVehicle"}
    BY <1>8, <1>5, <1>6 DEF SaveDocument
  <2>2. saved' = saved + 1 /\ saved + 1 \in DocIds
    BY <1>8, <1>0, BoundsAssumption DEF SaveDocument, DocIds
  <2>3. doc'[saved + 1].status = "pending"
    BY <1>8, <1>0, <2>2 DEF SaveDocument
  <2>4. \A d \in (saved + 1)..saved' : d = saved + 1
    BY <1>0, <2>2
  <2> QED
    BY <2>1, <2>3, <2>4, <1>1, <1>3
<1>9. CASE CheckCompleteness(r) \/ Recount(r)
  <2>1. UNCHANGED <<doc, saved, driver, vehicle>>
    BY <1>9 DEF CheckCompleteness, Recount, papers
  <2>2. req'[r].at = "writeFlag" /\ req'[r].owner = req[r].owner /\ (req'[r].value => IsComplete(req[r].owner))
    <3>1. CASE CheckCompleteness(r)
      <4>1. req'[r] = [req[r] EXCEPT !.at = "writeFlag", !.value = IsComplete(req[r].owner)]
        BY <3>1, <1>0 DEF CheckCompleteness
      <4>2. req'[r].at = "writeFlag" /\ req'[r].owner = req[r].owner /\ req'[r].value = IsComplete(req[r].owner)
        BY <4>1, <1>0 DEF Request
      <4> QED
        BY <4>2
    <3>2. CASE Recount(r)
      <4>1. PICK complete \in BOOLEAN :
              /\ complete => MaySeeComplete(req[r].owner)
              /\ req' = [req EXCEPT ![r].at = "writeFlag", ![r].value = complete]
        BY <3>2 DEF Recount
      <4>2. req'[r].at = "writeFlag" /\ req'[r].owner = req[r].owner /\ req'[r].value = complete
        BY <4>1, <1>0 DEF Request
      <4> QED
        BY <4>1, <4>2 DEF MaySeeComplete
    <3> QED
      BY <1>9, <3>1, <3>2
  <2> QED
    BY <2>1, <2>2, <1>1, <1>2, <1>3, <1>4
<1>10. CASE WriteFlag(r)
  <2>1. saved' = saved /\ req'[r].at \notin {"writeFlag", "verifyVehicle"}
    BY <1>10, <1>5 DEF WriteFlag, WriteVehicle
  <2>2. req[r].value => Reviewed(req[r].owner)
    BY <1>10 DEF WriteFlag, At, ReviewInv
  <2>3. CASE req[r].owner = Driver
    <3>1. UNCHANGED vehicle /\ driver'.vouched = driver.vouched /\ driver'.verified = req[r].value
      BY <1>10, <2>3 DEF WriteFlag, DocInv, DocTypeOK
    <3> QED
      BY <2>1, <2>2, <2>3, <3>1, <1>1, <1>3, <1>4
  <2>4. CASE req[r].owner # Driver
    <3>1. UNCHANGED driver /\ vehicle' = [vehicle EXCEPT ![req[r].owner] = [vehicle[req[r].owner] EXCEPT !.complete = req[r].value]]
      BY <1>10, <2>4 DEF WriteFlag, WriteVehicle
    <3>2. ASSUME NEW v \in Vehicles, vehicle'[v].complete \/ vehicle'[v].status = "verified" PROVE Reviewed(v)
      <4>1. CASE v = req[r].owner
        <5>1. vehicle'[v].complete = req[r].value /\ vehicle'[v].status = vehicle[v].status
          BY <3>1, <4>1, <1>0 DEF Vehicle
        <5> QED
          BY <5>1, <4>1, <3>2, <2>2, <1>1
      <4>2. CASE v # req[r].owner
        BY <4>2, <3>1, <3>2, <1>0, <1>1
      <4> QED
        BY <4>1, <4>2
    <3> QED
      BY <2>1, <3>1, <3>2, <1>1, <1>3, <1>4
  <2> QED
    BY <2>3, <2>4
<1>11. CASE WriteVouched(r)
  <2>1. saved' = saved /\ UNCHANGED vehicle /\ driver' = [verified |-> req[r].value, vouched |-> req[r].value]
        /\ req'[r].at \notin {"writeFlag", "verifyVehicle"}
    BY <1>11, <1>5 DEF WriteVouched
  <2> QED
    BY <2>1, <1>1, <1>3, <1>4
<1>12. CASE CheckFleet(r)
  <2>1. saved' = saved /\ UNCHANGED <<driver, vehicle>>
    BY <1>12 DEF CheckFleet, papers
  <2>2. req'[r].at \notin {"writeFlag", "verifyVehicle"}
    BY <1>12, <1>0 DEF CheckFleet, Request
  <2> QED
    BY <2>1, <2>2, <1>1, <1>3, <1>4
<1>13. CASE DemoteAll(r) \/ DemoteOthers(r)
  <2>1. saved' = saved /\ UNCHANGED driver /\ req'[r].at \notin {"writeFlag", "verifyVehicle"}
    BY <1>13, <1>5 DEF DemoteAll, DemoteOthers
  <2>2. ASSUME NEW v \in Vehicles PROVE vehicle'[v].complete = vehicle[v].complete /\ vehicle'[v].status = vehicle[v].status
    <3>1. vehicle'[v] = vehicle[v] \/ vehicle'[v] = [vehicle[v] EXCEPT !.primary = FALSE]
      BY <1>13 DEF DemoteAll, DemoteOthers
    <3> QED
      BY <3>1, <1>0 DEF Vehicle
  <2> QED
    BY <2>1, <2>2, <1>1, <1>3, <1>4
<1>14. ASSUME NEW o \in Vehicles, NEW new, WriteVehicle(o, new), Goto(r, "done"),
              new.complete \/ new.status = "verified" => Reviewed(o)
       PROVE  ReviewInv'
  <2>1. saved' = saved /\ UNCHANGED driver /\ req'[r].at \notin {"writeFlag", "verifyVehicle"}
    BY <1>14, <1>5 DEF WriteVehicle
  <2>2. \A v \in Vehicles : vehicle'[v] = IF v = o THEN new ELSE vehicle[v]
    BY <1>14, <1>0 DEF WriteVehicle
  <2> QED
    BY <2>1, <2>2, <1>14, <1>1, <1>3, <1>4
<1>15. req[r].at \in VehicleSteps => req[r].owner \in Vehicles /\ vehicle[req[r].owner] \in Vehicle
  BY <1>0 DEF RequestOK
<1>16. CASE AddVehicle(r)
  <2> DEFINE new == [status |-> "pending", active |-> TRUE, complete |-> FALSE, primary |-> req[r].value]
  <2>1. req[r].owner \in Vehicles
    BY <1>16, <1>15 DEF AddVehicle, At, VehicleSteps
  <2>2. WriteVehicle(req[r].owner, new) /\ Goto(r, "done")
    BY <1>16 DEF AddVehicle
  <2>3. ~ new.complete /\ new.status # "verified"
    OBVIOUS
  <2> HIDE DEF new
  <2> QED
    BY <2>1, <2>2, <2>3, <1>14
<1>17. CASE Promote(r) \/ Retire(r)
  <2>1. req[r].owner \in Vehicles /\ vehicle[req[r].owner] \in Vehicle
    BY <1>17, <1>15 DEF Promote, Retire, At, VehicleSteps
  <2>2. PICK new : /\ WriteVehicle(req[r].owner, new) /\ Goto(r, "done")
                   /\ \/ new = [vehicle[req[r].owner] EXCEPT !.primary = req[r].value]
                      \/ new = [vehicle[req[r].owner] EXCEPT !.active = FALSE]
    BY <1>17 DEF Promote, Retire
  <2>3. new.complete = vehicle[req[r].owner].complete /\ new.status = vehicle[req[r].owner].status
    BY <2>1, <2>2 DEF Vehicle
  <2> QED
    BY <2>1, <2>2, <2>3, <1>1, <1>14
<1>18. CASE CheckVehicleDocuments(r)
  <2>1. saved' = saved /\ UNCHANGED <<driver, vehicle>>
    BY <1>18 DEF CheckVehicleDocuments, papers
  <2>2. CASE /\ \A ty \in Required[req[r].owner] : OldestVerified(req[r].owner, ty)
             /\ Goto(r, "verifyVehicle")
    <3>1. Reviewed(req[r].owner)
      BY <2>2, <1>2
    <3>2. req'[r].at = "verifyVehicle" /\ req'[r].owner = req[r].owner
      BY <2>2, <1>0 DEF Goto, Request
    <3> QED
      BY <2>1, <3>1, <3>2, <1>1, <1>3, <1>4
  <2>3. CASE Goto(r, "refused")
    <3>1. req'[r].at \notin {"writeFlag", "verifyVehicle"}
      BY <2>3, <1>5
    <3> QED
      BY <2>1, <3>1, <1>1, <1>3, <1>4
  <2> QED
    BY <1>18, <2>2, <2>3 DEF CheckVehicleDocuments
<1>19. CASE WriteVerified(r)
  <2>1. req[r].owner \in Vehicles
    BY <1>19, <1>15 DEF WriteVerified, At, VehicleSteps
  <2>2. Reviewed(req[r].owner)
    BY <1>19 DEF WriteVerified, At, ReviewInv
  <2> QED
    BY <1>19, <2>1, <2>2, <1>14 DEF WriteVerified
<1>20. CASE WriteVehicleRejected(r)
  <2> DEFINE new == [vehicle[req[r].owner] EXCEPT !.status = "rejected", !.complete = FALSE]
  <2>1. req[r].owner \in Vehicles /\ vehicle[req[r].owner] \in Vehicle
    BY <1>20, <1>15 DEF WriteVehicleRejected, At, VehicleSteps
  <2>2. ~ new.complete /\ new.status # "verified"
    BY <2>1 DEF Vehicle
  <2>3. WriteVehicle(req[r].owner, new) /\ Goto(r, "done")
    BY <1>20 DEF WriteVehicleRejected
  <2> HIDE DEF new
  <2> QED
    BY <2>1, <2>2, <2>3, <1>14
<1> QED
  BY <1>7, <1>8, <1>9, <1>10, <1>11, <1>12, <1>13, <1>16, <1>17, <1>18, <1>19, <1>20 DEF Step

LEMMA ReviewInvariance == DocSpec => []ReviewInv
<1>1. ASSUME DocInv, DocInv', ReviewInv, UNCHANGED <<doc, saved, driver, vehicle>>,
             \A s \in Requests : req'[s].at \in {"writeFlag", "verifyVehicle"} => req'[s] = req[s]
      PROVE  ReviewInv'
  <2>1. saved \in Nat /\ \A d \in 1..saved : KeptDoc(doc[d], doc'[d])
    BY <1>1, BoundsAssumption DEF KeptDoc, DocInv, DocTypeOK
  <2>2. saved <= saved' /\ \A d \in (saved + 1)..saved' : doc'[d].status # "verified"
    BY <1>1, <2>1
  <2> QED
    BY <1>1, <2>1, <2>2, ReviewStep DEF ReviewInv, VerifiedWasReviewed
<1>2. ASSUME DocInv, DocInv', ReviewInv, NEW r \in Requests, Receive(r) PROVE ReviewInv'
  <2>1. Accepted(r)
    BY <1>2, ReceivedShape
  <2> QED
    BY <2>1, <1>1, <1>2 DEF Accepted
<1>3. ASSUME DocInv, DocInv', ReviewInv, Stop PROVE ReviewInv'
  <2>1. \A s \in Requests : req'[s] = req[s] \/ req'[s] = [req[s] EXCEPT !.at = "lost"]
    BY <1>3 DEF Stop
  <2>2. \A s \in Requests : req'[s] = req[s] \/ req'[s].at = "lost"
    BY <1>3, <2>1 DEF DocInv, DocTypeOK, Request
  <2> QED
    BY <1>1, <1>3, <2>2 DEF Stop, papers
<1>4. ASSUME DocInv, DocInv', ReviewInv, UNCHANGED docVars PROVE ReviewInv'
  BY <1>1, <1>4 DEF docVars, papers
<1>5. DocInv /\ DocInv' /\ ReviewInv /\ [DocNext]_docVars => ReviewInv'
  BY <1>2, <1>3, <1>4, ReviewKeptByStep DEF DocNext
<1> QED
  BY <1>5, ReviewInit, DocInvariance, PTL DEF DocSpec

(* A driver is verified and a vehicle complete or verified only on documents  *)
(* that have been reviewed, whatever overlaps the counting.                   *)
THEOREM VerifiedOnReviews == DocSpec => []VerifiedWasReviewed
<1>1. ReviewInv => VerifiedWasReviewed
  BY DEF ReviewInv
<1> QED
  BY <1>1, ReviewInvariance, PTL

(* An approval is of what the document says: only an edit changes that, and   *)
(* an edit takes the approval back even when it was let in before.            *)
THEOREM ApprovalIsOfContent == DocSpec => VerifiedStaysAsReviewed
<1> DEFINE Same == \A d \in DocIds : IsDoc(d) /\ Verified(d) /\ Verified(d)' => doc'[d].content = doc[d].content
<1>1. ASSUME DocInv, NEW r \in Requests, Step(r) PROVE Same
  <2>1. Kept(r) /\ \A d \in DocIds : IsDoc(d) => d \in 1..saved
    BY <1>1, StepKept DEF IsDoc, DocIds, DocInv, DocTypeOK
  <2> QED
    BY <2>1 DEF Kept, KeptDoc, Verified
<1>2. ASSUME DocInv, NEW r \in Requests, Receive(r) PROVE Same
  BY <1>2, ReceivedShape DEF Accepted
<1>3. DocInv /\ [DocNext]_docVars => [Same]_docVars
  <2>1. ASSUME Stop PROVE Same
    BY <2>1 DEF Stop, papers
  <2> HIDE DEF Same
  <2> QED
    BY <1>1, <1>2, <2>1 DEF DocNext
<1> QED
  BY <1>3, DocInvariance, PTL DEF DocSpec, VerifiedStaysAsReviewed

-------------------------------------------------------------------------------
(* What an upload in progress knows of the version it replaces. *)
Replaces(q) ==
    q.at \in {"deactivate", "save"} /\ q.doc # NoDoc =>
       /\ q.doc \in 1..saved
       /\ doc[q.doc].owner = q.owner /\ doc[q.doc].type = q.type
       /\ q.at = "save" => ~ doc[q.doc].active

VersionInv ==
    /\ VersionsInOrder
    /\ \A r \in Requests : Replaces(req[r])

LEMMA VersionStep ==
    ASSUME DocInv, DocInv', VersionInv, saved' = saved,
           \A d \in 1..saved : KeptDoc(doc[d], doc'[d]),
           \A s \in Requests : \/ req'[s] = req[s]
                               \/ req'[s].at \notin {"deactivate", "save"}
                               \/ Replaces(req[s])'
    PROVE  VersionInv'
<1>0. saved \in Nat /\ saved' \in 0..MaxDocs /\ doc \in [DocIds -> Doc] /\ doc' \in [DocIds -> Doc]
      /\ \A d \in DocIds : (IsDoc(d) <=> d \in 1..saved) /\ (IsDoc(d)' <=> d \in 1..saved)
  BY BoundsAssumption DEF DocInv, DocTypeOK, IsDoc, DocIds
<1>1. VersionsInOrder'
  <2> SUFFICES ASSUME NEW d \in DocIds, IsDoc(d)', doc'[d].prev # NoDoc
               PROVE  (LET p == doc[d].prev
                       IN p < d /\ ~ doc[p].active /\ doc[p].version < doc[d].version
                          /\ doc[p].owner = doc[d].owner /\ doc[p].type = doc[d].type)'
    BY DEF VersionsInOrder
  <2> DEFINE p == doc[d].prev
  <2>1. d \in 1..saved /\ doc'[d].prev = p /\ doc'[d].version = doc[d].version
        /\ doc'[d].owner = doc[d].owner /\ doc'[d].type = doc[d].type
    BY <1>0 DEF KeptDoc
  <2>2. p < d /\ ~ doc[p].active /\ doc[p].version < doc[d].version
        /\ doc[p].owner = doc[d].owner /\ doc[p].type = doc[d].type
    BY <2>1, <1>0 DEF VersionInv, VersionsInOrder
  <2>3. p \in 1..saved
    BY <2>1, <2>2, <1>0 DEF Doc, NoDoc, DocIds
  <2>4. KeptDoc(doc[p], doc'[p])
    BY <2>3
  <2> QED
    BY <2>1, <2>2, <2>4 DEF KeptDoc
<1>2. ASSUME NEW s \in Requests PROVE Replaces(req[s])'
  <2>1. CASE req'[s] = req[s]
    BY <2>1 DEF VersionInv, Replaces, KeptDoc
  <2>2. CASE req'[s].at \notin {"deactivate", "save"}
    BY <2>2 DEF Replaces
  <2> QED
    BY <2>1, <2>2
<1> QED
  BY <1>1, <1>2 DEF VersionInv

LEMMA VersionKeptByStep ==
    ASSUME DocInv, DocInv', VersionInv, NEW r \in Requests, Step(r)
    PROVE  VersionInv'
<1>0. /\ Kept(r) /\ req \in [Requests -> Request] /\ req[r] \in Request /\ saved \in Nat
      /\ RequestOK(req[r], saved) /\ doc \in [DocIds -> Doc] /\ saved \in 0..MaxDocs
  BY StepKept, BoundsAssumption DEF DocInv, DocTypeOK
<1>1. ASSUME saved' = saved, req'[r].at \notin {"deactivate", "save"} PROVE VersionInv'
  BY <1>0, <1>1, VersionStep DEF Kept
<1>2. ASSUME NEW step, step \notin {"deactivate", "save"}, Goto(r, step)
      PROVE  req'[r].at \notin {"deactivate", "save"}
  <2>1. req'[r].at = step
    BY <1>0, <1>2 DEF Goto, Request
  <2> QED
    BY <2>1, <1>2
<1>3. CASE Deactivate(r)
  <2>1. req[r].doc \in 1..saved /\ req[r].doc \in DocIds /\ req[r].doc # NoDoc
    BY <1>3, <1>0, BoundsAssumption DEF Deactivate, At, RequestOK, DocSteps, NoDoc, DocIds
  <2>2. saved' = saved /\ doc'[req[r].doc] = [doc[req[r].doc] EXCEPT !.active = FALSE]
    BY <1>3, <1>0, <2>1 DEF Deactivate, WriteDoc
  <2>3. doc[req[r].doc].owner = req[r].owner /\ doc[req[r].doc].type = req[r].type
    BY <1>3, <2>1 DEF Deactivate, At, VersionInv, Replaces
  <2>4. ~ doc'[req[r].doc].active /\ doc'[req[r].doc].owner = req[r].owner /\ doc'[req[r].doc].type = req[r].type
    <3>1. doc[req[r].doc] \in Doc
      BY <2>1, <1>0
    <3> QED
      BY <3>1, <2>2, <2>3 DEF Doc
  <2>5. req'[r].at = "save" /\ req'[r].doc = req[r].doc /\ req'[r].owner = req[r].owner /\ req'[r].type = req[r].type
    BY <1>3, <1>0 DEF Deactivate, Goto, Request
  <2>6. Replaces(req[r])'
    BY <2>1, <2>2, <2>4, <2>5 DEF Replaces
  <2> QED
    BY <1>0, <2>2, <2>6, VersionStep DEF Kept
<1>4. CASE SaveDocument(r)
  <2>1. saved' = saved + 1 /\ saved + 1 \in DocIds /\ \A d \in 1..saved : doc'[d] = doc[d]
    BY <1>4, <1>0, BoundsAssumption DEF SaveDocument, DocIds
  <2>2. /\ doc'[saved + 1].owner = req[r].owner /\ doc'[saved + 1].type = req[r].type
        /\ doc'[saved + 1].prev = req[r].doc
        /\ doc'[saved + 1].version = IF req[r].doc = NoDoc THEN 1 ELSE doc[req[r].doc].version + 1
    BY <1>4, <1>0, <2>1 DEF SaveDocument
  <2>3. req[r].doc # NoDoc => /\ req[r].doc \in 1..saved
                              /\ doc[req[r].doc].owner = req[r].owner /\ doc[req[r].doc].type = req[r].type
                              /\ ~ doc[req[r].doc].active
    BY <1>4 DEF SaveDocument, At, VersionInv, Replaces
  <2>4. \A d \in 1..saved : d \in DocIds /\ IsDoc(d) /\ doc[d].version \in Nat /\ doc[d].prev \in DocIds \cup {NoDoc}
    BY <1>0, BoundsAssumption DEF IsDoc, DocIds, Doc
  <2>5. VersionsInOrder'
    <3> SUFFICES ASSUME NEW d \in DocIds, IsDoc(d)', doc'[d].prev # NoDoc
                 PROVE  (LET p == doc[d].prev
                         IN p < d /\ ~ doc[p].active /\ doc[p].version < doc[d].version
                            /\ doc[p].owner = doc[d].owner /\ doc[p].type = doc[d].type)'
      BY DEF VersionsInOrder
    <3>1. CASE d = saved + 1
      <4>1. req[r].doc # NoDoc /\ req[r].doc \in 1..saved
        BY <3>1, <2>2, <2>3
      <4>2. doc'[req[r].doc] = doc[req[r].doc] /\ req[r].doc < saved + 1 /\ doc[req[r].doc].version \in Nat
        BY <4>1, <2>1, <2>4, <1>0
      <4> QED
        BY <3>1, <4>1, <4>2, <2>2, <2>3
    <3>2. CASE d # saved + 1
      <4>1. d \in 1..saved
        BY <3>2, <2>1, <1>0 DEF IsDoc, DocIds
      <4>2. doc[d].prev # NoDoc /\ doc'[d] = doc[d]
        BY <4>1, <2>1
      <4>3. /\ doc[d].prev < d /\ ~ doc[doc[d].prev].active /\ doc[doc[d].prev].version < doc[d].version
            /\ doc[doc[d].prev].owner = doc[d].owner /\ doc[doc[d].prev].type = doc[d].type
        BY <4>1, <4>2, <2>4 DEF VersionInv, VersionsInOrder
      <4>4. doc[d].prev \in 1..saved
        BY <4>1, <4>2, <4>3, <2>4, <1>0 DEF DocIds, NoDoc
      <4> QED
        BY <4>2, <4>3, <4>4, <2>1
    <3> QED
      BY <3>1, <3>2
  <2>6. ASSUME NEW s \in Requests PROVE Replaces(req[s])'
    <3>1. CASE s = r
      <4>1. AfterChange(req[r].owner) \notin {"deactivate", "save"}
        BY DEF AfterChange
      <4>2. req'[r].at \notin {"deactivate", "save"}
        BY <1>4, <1>2, <4>1 DEF SaveDocument
      <4> QED
        BY <3>1, <4>2 DEF Replaces
    <3>2. CASE s # r
      <4>1. req'[s] = req[s] /\ Replaces(req[s])
        BY <3>2, <1>0 DEF Kept, VersionInv
      <4> QED
        BY <4>1, <2>1, <1>0 DEF Replaces
    <3> QED
      BY <3>1, <3>2
  <2> QED
    BY <2>5, <2>6 DEF VersionInv
<1>5. CASE WriteEdit(r) \/ WriteRemoved(r) \/ WriteApproved(r) \/ WriteRejected(r)
  <2>1. saved' = saved
    BY <1>5 DEF WriteEdit, WriteRemoved, WriteApproved, WriteRejected, WriteDoc, papers
  <2>2. PICK step : step \notin {"deactivate", "save"} /\ Goto(r, step)
    BY <1>5 DEF WriteEdit, WriteRemoved, WriteApproved, WriteRejected, AfterChange
  <2> QED
    BY <2>1, <2>2, <1>1, <1>2
<1>6. CASE CheckCompleteness(r) \/ Recount(r) \/ CheckFleet(r)
  <2>1. saved' = saved
    BY <1>6 DEF CheckCompleteness, Recount, CheckFleet, papers
  <2>2. req'[r].at \in {"writeFlag", "demote", "add"}
    <3>1. CASE CheckCompleteness(r)
      BY <3>1, <1>0 DEF CheckCompleteness, Request
    <3>2. CASE Recount(r)
      BY <3>2, <1>0 DEF Recount, Request
    <3>3. CASE CheckFleet(r)
      BY <3>3, <1>0 DEF CheckFleet, Request
    <3> QED
      BY <1>6, <3>1, <3>2, <3>3
  <2> QED
    BY <2>1, <2>2, <1>1
<1>7. CASE WriteFlag(r) \/ WriteVouched(r) \/ DemoteAll(r) \/ AddVehicle(r) \/ DemoteOthers(r) \/ Promote(r)
           \/ Retire(r) \/ CheckVehicleDocuments(r) \/ WriteVerified(r) \/ WriteVehicleRejected(r)
  <2>1. saved' = saved
    BY <1>7 DEF WriteFlag, WriteVouched, DemoteAll, AddVehicle, DemoteOthers, Promote, Retire,
                CheckVehicleDocuments, WriteVerified, WriteVehicleRejected, WriteVehicle, papers
  <2>2. PICK step : step \notin {"deactivate", "save"} /\ Goto(r, step)
    BY <1>7 DEF WriteFlag, WriteVouched, DemoteAll, AddVehicle, DemoteOthers, Promote, Retire,
                CheckVehicleDocuments, WriteVerified, WriteVehicleRejected
  <2> QED
    BY <2>1, <2>2, <1>1, <1>2
<1> QED
  BY <1>3, <1>4, <1>5, <1>6, <1>7 DEF Step

LEMMA VersionInit == DocInit => VersionInv
<1> SUFFICES ASSUME DocInit PROVE VersionInv
  OBVIOUS
<1>1. PICK n \in 0..Cardinality(DOMAIN Held), fleet \in SUBSET Fleet :
      \E status \in [1..n -> {"pending", "verified", "rejected"}], reviewed \in SUBSET fleet :
         StartingWith(n, fleet, status, reviewed)
  BY Zenon DEF DocInit
<1>2. PICK status \in [1..n -> {"pending", "verified", "rejected"}], reviewed \in SUBSET fleet :
         StartingWith(n, fleet, status, reviewed)
  BY <1>1, Zenon
<1>3. ASSUME NEW d \in DocIds PROVE doc[d].prev = NoDoc
  <2> DEFINE was == status[d] = "verified" \/ (Held[d].owner = Driver /\ fleet # {})
  <2>1. \/ doc[d] = NoDocument
        \/ doc[d] = [NoDocument EXCEPT
                       !.owner = Held[d].owner, !.type = Held[d].type, !.status = status[d],
                       !.active = TRUE, !.version = 1, !.reviewed = was]
    BY <1>2 DEF StartingWith
  <2>2. /\ "prev" \in DOMAIN NoDocument
        /\ NoDocument.prev = NoDoc
    BY DEF NoDocument
  <2> HIDE DEF was
  <2>3. CASE doc[d] = NoDocument
    BY <2>2, <2>3
  <2>4. CASE doc[d] # NoDocument
    BY <2>1, <2>2, <2>4
  <2> QED
    BY <2>3, <2>4
<1>4. \A r \in Requests : req[r].at = "idle"
  BY DEF DocInit, NoRequest
<1> QED
  BY <1>3, <1>4 DEF VersionInv, VersionsInOrder, Replaces

LEMMA VersionInvariance == DocSpec => []VersionInv
<1>1. ASSUME DocInv, DocInv', VersionInv, UNCHANGED <<doc, saved>>,
             \A s \in Requests : \/ req'[s] = req[s]
                                 \/ req'[s].at \notin {"deactivate", "save"}
                                 \/ Replaces(req[s])'
      PROVE  VersionInv'
  <2>1. \A d \in 1..saved : KeptDoc(doc[d], doc'[d])
    BY <1>1 DEF KeptDoc
  <2> QED
    BY <1>1, <2>1, VersionStep
<1>2. ASSUME DocInv, DocInv', VersionInv, NEW r \in Requests, Receive(r) PROVE VersionInv'
  <2>1. Accepted(r)
    BY <1>2, ReceivedShape
  <2>2. req'[r].at \in {"deactivate", "save"} => Replaces(req[r])'
    <3>1. CASE req'[r].at = "deactivate"
      <4>1. req'[r].doc \in Current(req'[r].owner, req'[r].type) /\ UNCHANGED <<doc, saved>>
        BY <3>1, <2>1 DEF Accepted
      <4>2. req'[r].doc \in 1..saved /\ doc[req'[r].doc].owner = req'[r].owner /\ doc[req'[r].doc].type = req'[r].type
        BY <4>1, <1>2, BoundsAssumption DEF Current, IsDoc, DocIds, DocInv, DocTypeOK
      <4> QED
        BY <3>1, <4>1, <4>2 DEF Replaces
    <3>2. CASE req'[r].at = "save"
      BY <3>2, <2>1 DEF Accepted, Replaces
    <3> QED
      BY <3>1, <3>2
  <2> QED
    BY <2>1, <2>2, <1>1, <1>2 DEF Accepted
<1>3. ASSUME DocInv, DocInv', VersionInv, Stop PROVE VersionInv'
  <2>1. \A s \in Requests : req'[s] = req[s] \/ req'[s] = [req[s] EXCEPT !.at = "lost"]
    BY <1>3 DEF Stop
  <2>2. \A s \in Requests : req'[s] = req[s] \/ req'[s].at = "lost"
    BY <1>3, <2>1 DEF DocInv, DocTypeOK, Request
  <2> QED
    BY <1>1, <1>3, <2>2 DEF Stop, papers
<1>4. ASSUME DocInv, DocInv', VersionInv, UNCHANGED docVars PROVE VersionInv'
  BY <1>1, <1>4 DEF docVars, papers
<1>5. DocInv /\ DocInv' /\ VersionInv /\ [DocNext]_docVars => VersionInv'
  BY <1>2, <1>3, <1>4, VersionKeptByStep DEF DocNext
<1> QED
  BY <1>5, VersionInit, DocInvariance, PTL DEF DocSpec

(* A new version follows the one it replaces, which stays out of force, also  *)
(* when uploads of one type overlap.                                          *)
THEOREM VersionsFollow == DocSpec => []VersionsInOrder
<1>1. VersionInv => VersionsInOrder
  BY DEF VersionInv
<1> QED
  BY <1>1, VersionInvariance, PTL

-------------------------------------------------------------------------------
(***************************************************************************)
(* Theorems about the vehicles and papers of Documents: a driver who may not *)
(* have vehicles gets none, the fleet keeps a primary vehicle, and what has  *)
(* been uploaded stays in force until it is removed; for any vehicles,       *)
(* document types, requests and restarts.                                    *)
(*                                                                         *)
(* FleetInv says what a request is for at each step it can be at, and what   *)
(* it relies on: the vehicle it is about to add is not there yet and the      *)
(* driver may have it; one that is not made primary joins others.             *)
(***************************************************************************)

(* The driver may have vehicles. *)
Sponsored == Reviewed(Driver) \/ \E r \in Requests : req[r].op = "verifyDriver" /\ req[r].value

Adding == {"fleet", "demote", "add"}
OnVehicle == {"documents", "verifyVehicle", "rejectVehicle", "demoteOthers", "promote", "retire"}

(* What a request is for, at the step it has come to. *)
Purpose(q) ==
    /\ q.at = "idle" => q.op = "none"
    /\ q.op = "verifyDriver" => q.at \in {"vouch"} \cup Ended
    /\ q.at = "vouch" => q.op = "verifyDriver"
    /\ q.op = "update" => q.at \in {"demoteOthers", "promote"} \cup Ended
    /\ q.at \in Adding => q.op = "create"
    /\ q.at = "remove" => q.op = "remove"
    /\ q.op = "remove" => q.doc \in 1..saved
    /\ q.at \in {"demote", "demoteOthers"} => q.value
    /\ q.at = "promote" /\ ~ q.value => q.op = "update"

(* What it relies on: a vehicle that is not there yet, a driver who may have  *)
(* one and another vehicle that is primary; or a vehicle that is there.       *)
Relies(q) ==
    /\ q.at \in Adding => ~ Exists(q.owner) /\ Sponsored
    /\ q.at = "add" /\ ~ q.value => \E v \in Vehicles : Exists(v)
    /\ q.at \in OnVehicle => Exists(q.owner)

FleetInv ==
    /\ \A r \in Requests : Purpose(req[r]) /\ Relies(req[r])
    /\ \A q, r \in Requests : q # r /\ req[q].op = "create" /\ req[r].op = "create" => req[q].owner # req[r].owner
    /\ \A v \in Vehicles : vehicle[v].primary => Exists(v)
    /\ driver.vouched => \E r \in Requests : req[r].op = "verifyDriver" /\ req[r].value
    /\ FleetOfVerifiedDriver /\ PrimaryKept /\ PapersKept

-------------------------------------------------------------------------------
(* What a step makes of the record of its request. *)
Follows ==
    { <<"deactivate", "save">>, <<"save", "done">>, <<"save", "count">>, <<"edit", "done">>,
      <<"edit", "count">>, <<"remove", "count">>, <<"count", "writeFlag">>, <<"approve", "recount">>,
      <<"reject", "recount">>, <<"reject", "done">>, <<"recount", "writeFlag">>, <<"writeFlag", "done">>,
      <<"vouch", "done">>, <<"fleet", "demote">>, <<"fleet", "add">>, <<"demote", "add">>,
      <<"add", "done">>, <<"demoteOthers", "promote">>, <<"promote", "done">>, <<"retire", "done">>,
      <<"documents", "verifyVehicle">>, <<"documents", "refused">>, <<"verifyVehicle", "done">>,
      <<"rejectVehicle", "done">> }

SameRequest(old, new) ==
    new.op = old.op /\ new.owner = old.owner /\ new.type = old.type /\ new.doc = old.doc

GoesOn(r) ==
    /\ SameRequest(req[r], req'[r])
    /\ <<req[r].at, req'[r].at>> \in Follows
    /\ req[r].at \notin {"count", "recount", "fleet"} => req'[r].value = req[r].value
    /\ req'[r].at = "demote" => req'[r].value
    /\ req[r].at = "fleet" /\ ~ req'[r].value => \E v \in Vehicles : Exists(v)

LEMMA StepGoesOn == ASSUME DocInv, NEW r \in Requests, Step(r) PROVE GoesOn(r)
<1>0. req \in [Requests -> Request] /\ req[r] \in Request
  BY DEF DocInv, DocTypeOK
<1>1. ASSUME NEW step, Goto(r, step), <<req[r].at, step>> \in Follows, step # "demote", req[r].at # "fleet"
      PROVE  GoesOn(r)
  <2>1. SameRequest(req[r], req'[r]) /\ req'[r].at = step /\ req'[r].value = req[r].value
    BY <1>0, <1>1 DEF Goto, Request, SameRequest
  <2> QED
    BY <1>1, <2>1 DEF GoesOn
<1>2. ASSUME NEW step, NEW value, req' = [req EXCEPT ![r].at = step, ![r].value = value],
             <<req[r].at, step>> \in Follows, req[r].at \in {"count", "recount", "fleet"},
             step = "demote" => value, req[r].at = "fleet" /\ ~ value => \E v \in Vehicles : Exists(v)
      PROVE  GoesOn(r)
  <2>1. SameRequest(req[r], req'[r]) /\ req'[r].at = step /\ req'[r].value = value
    BY <1>0, <1>2 DEF Request, SameRequest
  <2> QED
    BY <1>2, <2>1 DEF GoesOn
<1>3. CASE CheckCompleteness(r) \/ Recount(r)
  <2> DEFINE step == "writeFlag"
  <2>1. PICK complete : req' = [req EXCEPT ![r].at = step, ![r].value = complete]
    BY <1>3 DEF CheckCompleteness, Recount
  <2>2. req[r].at \in {"count", "recount"} /\ step = "writeFlag"
    BY <1>3 DEF CheckCompleteness, Recount, At
  <2>3. <<req[r].at, step>> \in Follows
    BY <2>2 DEF Follows
  <2>4. step # "demote" /\ req[r].at # "fleet" /\ req[r].at \in {"count", "recount", "fleet"}
    BY <2>2
  <2> HIDE DEF step
  <2> QED
    BY <2>1, <2>3, <2>4, <1>2, Zenon
<1>5. CASE CheckFleet(r)
  <2> DEFINE primary == req[r].value \/ ~ \E v \in Vehicles : Exists(v) /\ vehicle[v].active
             step == IF primary THEN "demote" ELSE "add"
  <2>1. req[r].at = "fleet" /\ req' = [req EXCEPT ![r].at = step, ![r].value = primary]
    BY <1>5 DEF CheckFleet, At
  <2>2. ~ primary => \E v \in Vehicles : Exists(v)
    OBVIOUS
  <2>3. (step = "demote" /\ primary) \/ (step = "add" /\ ~ primary)
    OBVIOUS
  <2> HIDE DEF primary, step
  <2>4. <<req[r].at, step>> \in Follows
    BY <2>1, <2>3 DEF Follows
  <2> QED
    BY <2>1, <2>2, <2>3, <2>4, <1>2
<1>6. CASE Deactivate(r) \/ WriteRemoved(r) \/ WriteApproved(r) \/ WriteFlag(r) \/ WriteVouched(r)
           \/ DemoteAll(r) \/ AddVehicle(r) \/ DemoteOthers(r) \/ Promote(r) \/ Retire(r)
           \/ WriteVerified(r) \/ WriteVehicleRejected(r)
  BY <1>6, <1>1 DEF Deactivate, WriteRemoved, WriteApproved, WriteFlag, WriteVouched, DemoteAll, AddVehicle,
                    DemoteOthers, Promote, Retire, WriteVerified, WriteVehicleRejected, At, Follows
<1>7. CASE SaveDocument(r) \/ WriteEdit(r) \/ WriteRejected(r) \/ CheckVehicleDocuments(r)
  BY <1>7, <1>1 DEF SaveDocument, WriteEdit, WriteRejected, CheckVehicleDocuments, AfterChange, At, Follows
<1> QED
  BY <1>3, <1>5, <1>6, <1>7 DEF Step

(* What a step does to the vehicles. *)
LEMMA StepVehicles ==
    ASSUME DocInv, NEW r \in Requests, Step(r), Relies(req[r]), NEW v \in Vehicles
    PROVE  /\ Exists(v) => Exists(v)'
           /\ Exists(v)' => Exists(v) \/ (req[r].at = "add" /\ v = req[r].owner)
           /\ req[r].at \notin {"demote", "add", "demoteOthers", "promote"} =>
                vehicle'[v].primary = vehicle[v].primary
<1>0. vehicle \in [Vehicles -> Vehicle] /\ vehicle[v] \in Vehicle /\ req[r] \in Request /\ RequestOK(req[r], saved)
  BY DEF DocInv, DocTypeOK
<1>1. CASE UNCHANGED vehicle
  BY <1>1 DEF Exists
<1>2. ASSUME NEW o \in Vehicles, NEW new, WriteVehicle(o, new),
             new.primary = vehicle[o].primary, new.status = vehicle[o].status \/ (new.status # "absent" /\ Exists(o))
      PROVE  /\ Exists(v) <=> Exists(v)'
             /\ vehicle'[v].primary = vehicle[v].primary
  BY <1>0, <1>2 DEF WriteVehicle, Exists
<1>3. CASE WriteFlag(r)
  <2>1. CASE req[r].owner = Driver
    BY <1>1, <1>3, <2>1 DEF WriteFlag
  <2>2. CASE req[r].owner # Driver
    <3> DEFINE o == req[r].owner
               new == [vehicle[o] EXCEPT !.complete = req[r].value]
    <3>1. o \in Vehicles /\ WriteVehicle(o, new)
      BY <1>0, <1>3, <2>2 DEF WriteFlag, Request, Owners
    <3>2. new.primary = vehicle[o].primary /\ new.status = vehicle[o].status
      BY <1>0, <3>1 DEF Vehicle
    <3> HIDE DEF new
    <3> QED
      BY <1>2, <3>1, <3>2
  <2> QED
    BY <2>1, <2>2
<1>4. CASE Retire(r) \/ WriteVerified(r) \/ WriteVehicleRejected(r)
  <2> DEFINE o == req[r].owner
  <2>1. o \in Vehicles /\ Exists(o) /\ vehicle[o] \in Vehicle
    BY <1>0, <1>4 DEF Retire, WriteVerified, WriteVehicleRejected, At, RequestOK, VehicleSteps, Relies, OnVehicle
  <2>2. PICK new : WriteVehicle(o, new) /\ new.primary = vehicle[o].primary /\ new.status # "absent"
    <3>1. CASE Retire(r)
      BY <2>1, <3>1 DEF Retire, Vehicle, Exists
    <3>2. CASE WriteVerified(r)
      <4> DEFINE new == [vehicle[o] EXCEPT !.status = "verified", !.complete = TRUE]
      <4>1. new.primary = vehicle[o].primary /\ new.status = "verified"
        BY <2>1 DEF Vehicle
      <4>2. WriteVehicle(o, new)
        BY <3>2 DEF WriteVerified
      <4> HIDE DEF new
      <4> QED
        BY <4>1, <4>2
    <3>3. CASE WriteVehicleRejected(r)
      <4> DEFINE new == [vehicle[o] EXCEPT !.status = "rejected", !.complete = FALSE]
      <4>1. new.primary = vehicle[o].primary /\ new.status = "rejected"
        BY <2>1 DEF Vehicle
      <4>2. WriteVehicle(o, new)
        BY <3>3 DEF WriteVehicleRejected
      <4> HIDE DEF new
      <4> QED
        BY <4>1, <4>2
    <3> QED
      BY <1>4, <3>1, <3>2, <3>3
  <2> QED
    BY <1>2, <2>1, <2>2
<1>5. CASE Promote(r)
  <2>1. req[r].at = "promote" /\ vehicle' = [vehicle EXCEPT ![req[r].owner].primary = req[r].value]
    BY <1>0, <1>5 DEF Promote, At, WriteVehicle
  <2>2. vehicle'[v].status = vehicle[v].status
    BY <1>0, <2>1 DEF Vehicle
  <2> QED
    BY <2>1, <2>2 DEF Exists
<1>6. CASE DemoteAll(r) \/ DemoteOthers(r)
  <2>1. vehicle'[v] = vehicle[v] \/ vehicle'[v] = [vehicle[v] EXCEPT !.primary = FALSE]
    BY <1>6 DEF DemoteAll, DemoteOthers
  <2>2. vehicle'[v].status = vehicle[v].status
    BY <1>0, <2>1 DEF Vehicle
  <2> QED
    BY <1>6, <2>2 DEF Exists, DemoteAll, DemoteOthers, At
<1>7. CASE AddVehicle(r)
  <2>1. /\ req[r].at = "add"
        /\ vehicle'[v] = IF v = req[r].owner THEN [status |-> "pending", active |-> TRUE, complete |-> FALSE,
                                                   primary |-> req[r].value] ELSE vehicle[v]
    BY <1>0, <1>7 DEF AddVehicle, WriteVehicle, At
  <2> QED
    BY <2>1 DEF Exists
<1>8. CASE Deactivate(r) \/ SaveDocument(r) \/ WriteEdit(r) \/ WriteRemoved(r) \/ CheckCompleteness(r)
           \/ WriteApproved(r) \/ WriteRejected(r) \/ Recount(r) \/ WriteVouched(r) \/ CheckFleet(r)
           \/ CheckVehicleDocuments(r)
  BY <1>1, <1>8 DEF Deactivate, SaveDocument, WriteEdit, WriteRemoved, CheckCompleteness, WriteApproved,
                    WriteRejected, Recount, WriteVouched, CheckFleet, CheckVehicleDocuments, WriteDoc, papers
<1> QED
  BY <1>3, <1>4, <1>5, <1>6, <1>7, <1>8 DEF Step

-------------------------------------------------------------------------------
(* What a request has become once it is received. *)
Opened(q) ==
    \/ q.op = "upload" /\ q.at \in {"deactivate", "save"}
    \/ q.op \in {"edit", "approve", "reject"} /\ q.at = q.op
    \/ q.op = "remove" /\ q.at = "remove" /\ q.doc \in 1..saved
    \/ q.op = "verifyDriver" /\ q.at = "vouch"
    \/ /\ q.op = "create" /\ q.at = "fleet" /\ driver.verified /\ ~ Exists(q.owner)
       /\ \A s \in Requests : req[s].op = "create" => req[s].owner # q.owner
    \/ /\ <<q.op, q.at>> \in {<<"update", "demoteOthers">>, <<"update", "promote">>, <<"setPrimary", "demoteOthers">>,
                              <<"delete", "retire">>, <<"approveVehicle", "documents">>,
                              <<"rejectVehicle", "rejectVehicle">>}
       /\ (q.at = "demoteOthers" => q.value) /\ Exists(q.owner)

LEMMA ReceivedOpened == ASSUME DocInv, NEW r \in Requests, Receive(r) PROVE req[r].at = "idle" /\ Opened(req'[r])
<1>0. /\ NoRequest \in Request /\ Driver \in Owners /\ Vehicles \subseteq Owners
      /\ \A o \in Owners : Types[o] \subseteq AllTypes
      /\ \A d \in DocIds : doc[d].owner \in Owners /\ (IsDoc(d) => d \in 1..saved)
  BY BoundsAssumption DEF NoRequest, Request, DocOps, Steps, Owners, AllTypes, DocInv, DocTypeOK, Doc, IsDoc, DocIds
<1>1. ASSUME NEW op, NEW new \in Request, Received(r, op, new)
      PROVE  /\ req[r].at = "idle"
             /\ req'[r].op = op /\ req'[r].at = new.at /\ req'[r].owner = new.owner
             /\ req'[r].doc = new.doc /\ req'[r].value = new.value
  <2>1. req[r].at = "idle" /\ req' = [req EXCEPT ![r] = [new EXCEPT !.op = op]]
    BY <1>1 DEF Received, At
  <2> QED
    BY <2>1 DEF DocInv, DocTypeOK, Request
<1>2. ASSUME NEW o \in Owners, NEW ty \in Types[o], StartUpload(r, o, ty)
      PROVE  req[r].at = "idle" /\ Opened(req'[r])
  <2>1. ASSUME NEW d \in Current(o, ty),
               Received(r, "upload", [NoRequest EXCEPT !.owner = o, !.type = ty, !.doc = d, !.at = "deactivate"])
        PROVE  req[r].at = "idle" /\ Opened(req'[r])
    <3> DEFINE new == [NoRequest EXCEPT !.owner = o, !.type = ty, !.doc = d, !.at = "deactivate"]
    <3>1. new \in Request /\ new.at = "deactivate"
      BY <1>0 DEF NoRequest, Request, Steps, Current
    <3> HIDE DEF new
    <3>2. Received(r, "upload", new)
      BY <2>1 DEF new
    <3>3. req[r].at = "idle" /\ req'[r].op = "upload" /\ req'[r].at = new.at
      BY <3>1, <3>2, <1>1
    <3> QED
      BY <3>1, <3>3 DEF Opened
  <2>2. ASSUME Received(r, "upload", [NoRequest EXCEPT !.owner = o, !.type = ty, !.at = "save"])
        PROVE  req[r].at = "idle" /\ Opened(req'[r])
    <3> DEFINE new == [NoRequest EXCEPT !.owner = o, !.type = ty, !.at = "save"]
    <3>1. new \in Request /\ new.at = "save"
      BY <1>0 DEF NoRequest, Request, Steps
    <3> HIDE DEF new
    <3>2. Received(r, "upload", new)
      BY <2>2 DEF new
    <3>3. req[r].at = "idle" /\ req'[r].op = "upload" /\ req'[r].at = new.at
      BY <3>1, <3>2, <1>1
    <3> QED
      BY <3>1, <3>3 DEF Opened
  <2> QED
    BY <1>2, <2>1, <2>2 DEF StartUpload
<1>3. ASSUME NEW d \in DocIds, IsDoc(d), NEW op \in {"edit", "remove", "approve", "reject"},
             Received(r, op, [NoRequest EXCEPT !.owner = doc[d].owner, !.doc = d, !.at = op])
      PROVE  req[r].at = "idle" /\ Opened(req'[r])
  <2> DEFINE new == [NoRequest EXCEPT !.owner = doc[d].owner, !.doc = d, !.at = op]
  <2>1. new \in Request /\ new.at = op /\ new.doc = d /\ d \in 1..saved
    BY <1>0, <1>3 DEF NoRequest, Request, Steps
  <2>2. Received(r, op, new)
    BY <1>3
  <2> HIDE DEF new
  <2>3. req[r].at = "idle" /\ req'[r].op = op /\ req'[r].at = new.at /\ req'[r].doc = new.doc
    BY <2>1, <2>2, <1>1
  <2> QED
    BY <2>1, <2>2, <2>3 DEF Opened
<1>4. ASSUME NEW b \in BOOLEAN, VerifyDriver(r, b) PROVE req[r].at = "idle" /\ Opened(req'[r])
  <2> DEFINE new == [NoRequest EXCEPT !.value = b, !.at = "vouch"]
  <2>1. new \in Request /\ new.at = "vouch"
    BY <1>0 DEF NoRequest, Request, Steps
  <2>2. Received(r, "verifyDriver", new)
    BY <1>4 DEF VerifyDriver
  <2> HIDE DEF new
  <2>3. req[r].at = "idle" /\ req'[r].op = "verifyDriver" /\ req'[r].at = new.at
    BY <2>1, <2>2, <1>1
  <2> QED
    BY <2>1, <2>2, <2>3 DEF Opened
<1>5. ASSUME NEW v \in Vehicles, NEW b \in BOOLEAN, CreateVehicle(r, v, b)
      PROVE  req[r].at = "idle" /\ Opened(req'[r])
  <2> DEFINE new == [NoRequest EXCEPT !.owner = v, !.value = b, !.at = "fleet"]
  <2>1. new \in Request /\ new.at = "fleet" /\ new.owner = v
    BY <1>0 DEF NoRequest, Request, Steps
  <2>2. /\ Received(r, "create", new)
        /\ driver.verified /\ ~ Exists(v) /\ \A s \in Requests : req[s].op = "create" => req[s].owner # v
    BY <1>5 DEF CreateVehicle
  <2> HIDE DEF new
  <2>3. req[r].at = "idle" /\ req'[r].op = "create" /\ req'[r].at = new.at /\ req'[r].owner = new.owner
    BY <2>1, <2>2, <1>1
  <2> QED
    BY <2>1, <2>2, <2>3 DEF Opened
<1>6. ASSUME NEW new \in Request, NEW op, Received(r, op, new), Exists(new.owner),
             <<op, new.at>> \in {<<"update", "demoteOthers">>, <<"update", "promote">>, <<"setPrimary", "demoteOthers">>,
                                 <<"delete", "retire">>, <<"approveVehicle", "documents">>,
                                 <<"rejectVehicle", "rejectVehicle">>},
             new.at = "demoteOthers" => new.value
      PROVE  req[r].at = "idle" /\ Opened(req'[r])
  <2>1. /\ req[r].at = "idle" /\ req'[r].op = op /\ req'[r].at = new.at
        /\ req'[r].owner = new.owner /\ req'[r].value = new.value
    BY <1>6, <1>1
  <2> QED
    BY <2>1, <1>6 DEF Opened
<1>7. ASSUME NEW v \in Vehicles, NEW b \in BOOLEAN, UpdateVehicle(r, v, b) PROVE req[r].at = "idle" /\ Opened(req'[r])
  <2> DEFINE new == [NoRequest EXCEPT !.owner = v, !.value = b, !.at = IF b THEN "demoteOthers" ELSE "promote"]
  <2>1. new \in Request /\ new.owner = v /\ new.value = b
    BY <1>0 DEF NoRequest, Request, Steps
  <2>2. (new.at = "demoteOthers" /\ b) \/ (new.at = "promote" /\ ~ b)
    BY <1>0 DEF NoRequest, Request
  <2>3. Received(r, "update", new) /\ Exists(v)
    BY <1>7 DEF UpdateVehicle
  <2> HIDE DEF new
  <2> QED
    BY <2>1, <2>2, <2>3, <1>6
<1>8. ASSUME NEW v \in Vehicles, SetPrimaryVehicle(r, v) PROVE req[r].at = "idle" /\ Opened(req'[r])
  <2> DEFINE new == [NoRequest EXCEPT !.owner = v, !.value = TRUE, !.at = "demoteOthers"]
  <2>1. new \in Request /\ new.owner = v /\ new.value /\ new.at = "demoteOthers"
    BY <1>0 DEF NoRequest, Request, Steps
  <2>2. Received(r, "setPrimary", new) /\ Exists(v)
    BY <1>8 DEF SetPrimaryVehicle
  <2> HIDE DEF new
  <2> QED
    BY <2>1, <2>2, <1>6
<1>9. ASSUME NEW v \in Vehicles, DeleteVehicle(r, v) \/ ApproveVehicle(r, v) \/ RejectVehicle(r, v)
      PROVE  req[r].at = "idle" /\ Opened(req'[r])
  <2>1. CASE DeleteVehicle(r, v)
    <3> DEFINE new == [NoRequest EXCEPT !.owner = v, !.at = "retire"]
    <3>1. new \in Request /\ new.owner = v /\ new.at = "retire"
      BY <1>0 DEF NoRequest, Request, Steps
    <3>2. Received(r, "delete", new) /\ Exists(v)
      BY <2>1 DEF DeleteVehicle
    <3> HIDE DEF new
    <3> QED
      BY <3>1, <3>2, <1>6
  <2>2. CASE ApproveVehicle(r, v)
    <3> DEFINE new == [NoRequest EXCEPT !.owner = v, !.at = "documents"]
    <3>1. new \in Request /\ new.owner = v /\ new.at = "documents"
      BY <1>0 DEF NoRequest, Request, Steps
    <3>2. Received(r, "approveVehicle", new) /\ Exists(v)
      BY <2>2 DEF ApproveVehicle
    <3> HIDE DEF new
    <3> QED
      BY <3>1, <3>2, <1>6
  <2>3. CASE RejectVehicle(r, v)
    <3> DEFINE new == [NoRequest EXCEPT !.owner = v, !.at = "rejectVehicle"]
    <3>1. new \in Request /\ new.owner = v /\ new.at = "rejectVehicle"
      BY <1>0 DEF NoRequest, Request, Steps
    <3>2. Received(r, "rejectVehicle", new) /\ Exists(v)
      BY <2>3 DEF RejectVehicle
    <3> HIDE DEF new
    <3> QED
      BY <3>1, <3>2, <1>6
  <2> QED
    BY <1>9, <2>1, <2>2, <2>3
<1>10. ASSUME NEW ty \in Types[Driver], UploadDriverDocument(r, ty) PROVE req[r].at = "idle" /\ Opened(req'[r])
  BY <1>10, <1>2, <1>0 DEF UploadDriverDocument
<1>11. ASSUME NEW v \in Vehicles, NEW ty \in Types[v], UploadVehicleDocument(r, v, ty)
       PROVE  req[r].at = "idle" /\ Opened(req'[r])
  BY <1>11, <1>2, <1>0 DEF UploadVehicleDocument
<1>12. ASSUME NEW d \in DocIds,
              EditDocument(r, d) \/ DeleteVehicleDocument(r, d) \/ ApproveDocument(r, d) \/ RejectDocument(r, d)
       PROVE  req[r].at = "idle" /\ Opened(req'[r])
  BY <1>12, <1>3 DEF EditDocument, DeleteVehicleDocument, ApproveDocument, RejectDocument
<1> QED
  BY <1>4, <1>5, <1>7, <1>8, <1>9, <1>10, <1>11, <1>12 DEF Receive, DocumentRoutes, VehicleRoutes, ReviewRoutes

LEMMA OpenedFits ==
    ASSUME FleetInv, VerifiedWasReviewed, NEW q, Opened(q)
    PROVE  Purpose(q) /\ Relies(q)
<1>1. driver.verified => Sponsored
  BY DEF FleetInv, VerifiedWasReviewed, Sponsored
<1> QED
  BY <1>1 DEF Opened, Purpose, Relies, Ended, Adding, OnVehicle

-------------------------------------------------------------------------------
(* What no step takes back: the documents there are, what a request is, and    *)
(* the vehicles there are.                                                     *)
Lasts ==
    /\ saved <= saved'
    /\ \A d \in 1..saved : KeptDoc(doc[d], doc'[d])
    /\ \A s \in Requests : req[s].op # "none" =>
          /\ SameRequest(req[s], req'[s])
          /\ req[s].op \in {"verifyDriver", "update"} => req'[s].value = req[s].value
    /\ \A v \in Vehicles : Exists(v) => Exists(v)'

Vouched == \E r \in Requests : req[r].op = "verifyDriver" /\ req[r].value
Unset   == \E r \in Requests : req[r].op = "update" /\ ~ req[r].value

Removing(o, ty) ==
    \E r \in Requests : req[r].op = "remove" /\ doc[req[r].doc].owner = o /\ doc[req[r].doc].type = ty

LEMMA Lasting ==
    ASSUME DocInv, DocInv', FleetInv, Lasts
    PROVE  /\ Sponsored => Sponsored'
           /\ Vouched => Vouched'
           /\ Unset => Unset'
           /\ \A o, ty : Removing(o, ty) => Removing(o, ty)'
<1>1. Vouched => Vouched'
  BY DEF Vouched, Lasts, SameRequest
<1>2. Unset => Unset'
  BY DEF Unset, Lasts, SameRequest
<1>3. Reviewed(Driver) => Reviewed(Driver)'
  <2>1. saved' \in 0..MaxDocs
    BY DEF DocInv, DocTypeOK
  <2> QED
    BY <2>1, ReviewedKept DEF Lasts
<1>4. Sponsored => Sponsored'
  BY <1>1, <1>3 DEF Sponsored, Vouched
<1>5. ASSUME NEW o, NEW ty, Removing(o, ty) PROVE Removing(o, ty)'
  <2>1. PICK r \in Requests : req[r].op = "remove" /\ doc[req[r].doc].owner = o /\ doc[req[r].doc].type = ty
    BY <1>5 DEF Removing
  <2>2. req[r].doc \in 1..saved
    BY <2>1 DEF FleetInv, Purpose
  <2>3. req'[r].op = "remove" /\ req'[r].doc = req[r].doc
    BY <2>1 DEF Lasts, SameRequest
  <2>4. doc'[req[r].doc].owner = o /\ doc'[req[r].doc].type = ty
    BY <2>1, <2>2 DEF Lasts, KeptDoc
  <2> QED
    BY <2>3, <2>4 DEF Removing
<1> QED
  BY <1>1, <1>2, <1>4, <1>5

LEMMA StepLasts == ASSUME DocInv, DocInv', FleetInv, NEW r \in Requests, Step(r) PROVE Lasts
<1>1. Kept(r) /\ GoesOn(r) /\ Purpose(req[r]) /\ Relies(req[r])
  BY StepKept, StepGoesOn DEF FleetInv
<1>2. \A v \in Vehicles : Exists(v) => Exists(v)'
  BY <1>1, StepVehicles
<1>3. req[r].at \notin {"idle", "count", "recount", "fleet"} => req'[r].value = req[r].value
  BY <1>1 DEF GoesOn
<1>4. req[r].op \in {"verifyDriver", "update"} => req'[r].value = req[r].value
  BY <1>1, <1>3 DEF Purpose, Ended
<1>5. ASSUME NEW s \in Requests, s # r PROVE SameRequest(req[s], req'[s]) /\ req'[s].value = req[s].value
  BY <1>1, <1>5 DEF Kept, SameRequest
<1>6. SameRequest(req[r], req'[r])
  BY <1>1 DEF GoesOn
<1> QED
  BY <1>1, <1>2, <1>4, <1>5, <1>6 DEF Lasts, Kept

LEMMA ReceiveLasts == ASSUME DocInv, FleetInv, NEW r \in Requests, Receive(r) PROVE Lasts
<1>1. Accepted(r) /\ req[r].at = "idle"
  BY ReceivedShape, ReceivedOpened
<1>2. req[r].op = "none"
  BY <1>1 DEF FleetInv, Purpose
<1>3. \A s \in Requests : req[s].op # "none" => req'[s] = req[s]
  BY <1>1, <1>2 DEF Accepted
<1>4. saved \in Nat /\ UNCHANGED <<doc, saved, vehicle>>
  BY <1>1, BoundsAssumption DEF Accepted, DocInv, DocTypeOK
<1> QED
  BY <1>3, <1>4 DEF Lasts, SameRequest, KeptDoc, Exists

LEMMA StopLasts == ASSUME DocInv, Stop PROVE Lasts
<1>1. ASSUME NEW s \in Requests PROVE SameRequest(req[s], req'[s]) /\ req'[s].value = req[s].value
  <2>1. req'[s] = req[s] \/ req'[s] = [req[s] EXCEPT !.at = "lost"]
    BY DEF Stop
  <2> QED
    BY <2>1 DEF DocInv, DocTypeOK, Request, SameRequest
<1>2. saved \in Nat /\ UNCHANGED <<doc, saved, vehicle>>
  BY BoundsAssumption DEF Stop, papers, DocInv, DocTypeOK
<1> QED
  BY <1>1, <1>2 DEF Lasts, KeptDoc, Exists

-------------------------------------------------------------------------------
(* The requests keep to their purpose and to what they rely on. *)
LEMMA StepFits ==
    ASSUME DocInv, DocInv', FleetInv, NEW r \in Requests, Step(r)
    PROVE  /\ \A s \in Requests : (Purpose(req[s]) /\ Relies(req[s]))'
           /\ \A q, s \in Requests : q # s /\ req'[q].op = "create" /\ req'[s].op = "create" =>
                 req'[q].owner # req'[s].owner
<1>0. /\ Kept(r) /\ GoesOn(r) /\ Lasts /\ saved \in Nat /\ saved' \in Nat
      /\ \A s \in Requests : Purpose(req[s]) /\ Relies(req[s]) /\ RequestOK(req[s], saved)
  BY StepKept, StepGoesOn, StepLasts, BoundsAssumption DEF FleetInv, DocInv, DocTypeOK
<1>1. Sponsored => Sponsored'
  BY <1>0, Lasting
<1>2. ASSUME NEW v \in Vehicles PROVE Exists(v)' => Exists(v) \/ (req[r].at = "add" /\ v = req[r].owner)
  BY <1>0, StepVehicles
<1>3. Purpose(req[r])'
  BY <1>0 DEF GoesOn, Follows, SameRequest, Purpose, Kept, Ended, Adding
<1>4. Relies(req[r])'
  <2>1. PICK o : o = req[r].owner /\ o = req'[r].owner
    BY <1>0 DEF GoesOn, SameRequest
  <2>2. req[r].at \in VehicleSteps => o \in Vehicles
    BY <2>1, <1>0 DEF RequestOK
  <2>3. req'[r].at \in Adding => req[r].at \in {"fleet", "demote"}
    BY <1>0 DEF GoesOn, Follows, Adding
  <2>4. req'[r].at \in Adding => ~ Exists(o) /\ Sponsored /\ o \in Vehicles /\ req[r].at # "add"
    BY <2>1, <2>2, <2>3, <1>0 DEF Relies, Adding, VehicleSteps
  <2>5. req'[r].at \in Adding => ~ Exists(o)' /\ Sponsored'
    BY <2>4, <1>1, <1>2
  <2>6. req'[r].at = "add" /\ ~ req'[r].value => req[r].at = "fleet"
    BY <2>3, <1>0 DEF GoesOn, Purpose, Adding
  <2>7. req'[r].at = "add" /\ ~ req'[r].value => \E v \in Vehicles : Exists(v)'
    BY <2>6, <1>0 DEF GoesOn, Lasts
  <2>8. req'[r].at \in OnVehicle => req[r].at \in OnVehicle /\ req[r].at \in VehicleSteps
    BY <1>0 DEF GoesOn, Follows, OnVehicle, VehicleSteps
  <2>9. req'[r].at \in OnVehicle => Exists(o) /\ o \in Vehicles
    BY <2>1, <2>2, <2>8, <1>0 DEF Relies
  <2>10. req'[r].at \in OnVehicle => Exists(o)'
    BY <2>9, <1>0 DEF Lasts
  <2> QED
    BY <2>1, <2>5, <2>7, <2>10 DEF Relies, Exists
<1>5. ASSUME NEW s \in Requests, s # r PROVE (Purpose(req[s]) /\ Relies(req[s]))'
  <2>1. PICK o : o = req[s].owner
    OBVIOUS
  <2>2. req'[s] = req[s]
    BY <1>0, <1>5 DEF Kept
  <2>3. Purpose(req[s])'
    BY <2>2, <1>0 DEF Purpose, Kept
  <2>4. req[s].at \in VehicleSteps => o \in Vehicles
    BY <2>1, <1>0 DEF RequestOK
  <2>5. req[s].at \in Adding /\ req[r].at = "add" => o # req[r].owner
    BY <2>1, <1>0, <1>5 DEF FleetInv, Purpose, Adding
  <2>6. req[s].at \in Adding => ~ Exists(o) /\ Sponsored /\ o \in Vehicles
    BY <2>1, <2>4, <1>0 DEF Relies, Adding, VehicleSteps
  <2>7. req[s].at \in Adding => ~ Exists(o)' /\ Sponsored'
    BY <2>5, <2>6, <1>1, <1>2
  <2>8. req[s].at = "add" /\ ~ req[s].value => \E v \in Vehicles : Exists(v)'
    BY <1>0 DEF Relies, Lasts
  <2>9. req[s].at \in OnVehicle => Exists(o) /\ o \in Vehicles
    BY <2>1, <2>4, <1>0 DEF Relies, OnVehicle, VehicleSteps
  <2>10. req[s].at \in OnVehicle => Exists(o)'
    BY <2>9, <1>0 DEF Lasts
  <2> QED
    BY <2>1, <2>2, <2>3, <2>7, <2>8, <2>10 DEF Relies, Exists
<1>6. \A s \in Requests : req'[s].op = req[s].op /\ req'[s].owner = req[s].owner
  BY <1>0 DEF Kept, GoesOn, SameRequest
<1> QED
  BY <1>3, <1>4, <1>5, <1>6 DEF FleetInv

-------------------------------------------------------------------------------
(* A step keeps a primary vehicle, or is about to make one. *)
LEMMA StepPrimary ==
    ASSUME DocInv, DocInv', FleetInv, NEW r \in Requests, Step(r)
    PROVE  /\ PrimaryKept'
           /\ \A v \in Vehicles : vehicle'[v].primary => Exists(v)'
<1>0. /\ Kept(r) /\ GoesOn(r) /\ Lasts /\ Purpose(req[r]) /\ Relies(req[r])
      /\ RequestOK(req[r], saved) /\ vehicle \in [Vehicles -> Vehicle]
      /\ \A v \in Vehicles : vehicle[v].primary => Exists(v)
  BY StepKept, StepGoesOn, StepLasts DEF FleetInv, DocInv, DocTypeOK
<1>1. Unset => Unset'
  BY <1>0, Lasting
<1>2. stops' = stops
  BY DEF Step, Deactivate, SaveDocument, WriteEdit, WriteRemoved, CheckCompleteness, WriteApproved, WriteRejected,
         Recount, WriteFlag, WriteVouched, CheckFleet, DemoteAll, AddVehicle, DemoteOthers, Promote, Retire,
         CheckVehicleDocuments, WriteVerified, WriteVehicleRejected, WriteDoc, WriteVehicle, papers
<1>3. req[r].at \in VehicleSteps => req[r].owner \in Vehicles
  BY <1>0 DEF RequestOK
<1>4. CASE req[r].at \in {"demote", "demoteOthers"}
  <2>1. req[r].value /\ req'[r].value /\ req'[r].at \in {"add", "promote"}
    BY <1>0, <1>4 DEF GoesOn, Follows, Purpose
  <2>2. DemoteAll(r) \/ DemoteOthers(r)
    BY <1>4 DEF Step, Deactivate, SaveDocument, WriteEdit, WriteRemoved, CheckCompleteness, WriteApproved,
                WriteRejected, Recount, WriteFlag, WriteVouched, CheckFleet, AddVehicle, Promote, Retire,
                CheckVehicleDocuments, WriteVerified, WriteVehicleRejected, At
  <2>3. ASSUME NEW v \in Vehicles, vehicle'[v].primary PROVE Exists(v)'
    <3>1. vehicle[v] \in Vehicle /\ (vehicle'[v] = vehicle[v] \/ vehicle'[v] = [vehicle[v] EXCEPT !.primary = FALSE])
      BY <1>0, <2>2 DEF DemoteAll, DemoteOthers
    <3>2. vehicle[v].primary
      BY <2>3, <3>1 DEF Vehicle
    <3> QED
      BY <3>2, <1>0 DEF Lasts
  <2> QED
    BY <2>1, <2>3 DEF PrimaryKept, At
<1>5. CASE req[r].at = "promote"
  <2>1. req[r].owner \in Vehicles /\ Exists(req[r].owner)
    BY <1>0, <1>3, <1>5 DEF Relies, OnVehicle, VehicleSteps
  <2>2. Promote(r)
    BY <1>5 DEF Step, Deactivate, SaveDocument, WriteEdit, WriteRemoved, CheckCompleteness, WriteApproved,
                WriteRejected, Recount, WriteFlag, WriteVouched, CheckFleet, AddVehicle, DemoteAll, DemoteOthers,
                Retire, CheckVehicleDocuments, WriteVerified, WriteVehicleRejected, At
  <2>3. vehicle' = [vehicle EXCEPT ![req[r].owner].primary = req[r].value]
    BY <2>2, <1>0 DEF Promote, WriteVehicle
  <2>4. \A v \in Vehicles : vehicle'[v].primary => Exists(v)
    BY <2>1, <2>3, <1>0 DEF Vehicle
  <2>5. CASE req[r].value
    <3>1. vehicle'[req[r].owner].primary
      BY <2>1, <2>3, <2>5, <1>0 DEF Vehicle
    <3> QED
      BY <3>1, <2>1, <2>4, <1>0 DEF PrimaryKept, Lasts
  <2>6. CASE ~ req[r].value
    <3>1. Unset
      BY <2>6, <1>0, <1>5 DEF Unset, Purpose
    <3> QED
      BY <3>1, <1>1, <2>4, <1>0 DEF PrimaryKept, Unset, Lasts
  <2> QED
    BY <2>5, <2>6
<1>6. CASE req[r].at = "add"
  <2>1. req[r].owner \in Vehicles /\ ~ Exists(req[r].owner) /\ req'[r].at = "done"
    BY <1>0, <1>3, <1>6 DEF Relies, Adding, VehicleSteps, GoesOn, Follows
  <2>2. AddVehicle(r)
    BY <1>6 DEF Step, Deactivate, SaveDocument, WriteEdit, WriteRemoved, CheckCompleteness, WriteApproved,
                WriteRejected, Recount, WriteFlag, WriteVouched, CheckFleet, DemoteAll, DemoteOthers, Promote,
                Retire, CheckVehicleDocuments, WriteVerified, WriteVehicleRejected, At
  <2>3. \A v \in Vehicles :
          vehicle'[v] = IF v = req[r].owner THEN [status |-> "pending", active |-> TRUE, complete |-> FALSE,
                                                  primary |-> req[r].value] ELSE vehicle[v]
    BY <2>2, <1>0 DEF AddVehicle, WriteVehicle
  <2>4. vehicle'[req[r].owner].status = "pending" /\ vehicle'[req[r].owner].primary = req[r].value
    BY <2>1, <2>3
  <2>5. ASSUME NEW v \in Vehicles, vehicle'[v].primary PROVE Exists(v)'
    <3>1. CASE v = req[r].owner
      BY <3>1, <2>4 DEF Exists
    <3>2. CASE v # req[r].owner
      BY <3>2, <2>3, <2>5, <1>0 DEF Lasts
    <3> QED
      BY <3>1, <3>2
  <2>6. CASE req[r].value
    BY <2>1, <2>4, <2>5, <2>6 DEF PrimaryKept
  <2>7. CASE ~ req[r].value
    <3>1. PrimaryKept /\ \E v \in Vehicles : Exists(v)
      BY <2>7, <1>0, <1>6 DEF FleetInv, Relies
    <3>2. ASSUME NEW w \in Vehicles, vehicle[w].primary PROVE vehicle'[w].primary
      BY <3>2, <2>1, <2>3, <1>0
    <3>3. ASSUME NEW s \in Requests, req[s].at \in {"add", "promote"}, req[s].value PROVE req'[s] = req[s]
      BY <3>3, <2>7, <1>0 DEF Kept
    <3> QED
      BY <3>1, <3>2, <3>3, <2>5, <1>1, <1>2 DEF PrimaryKept, Unset, At
  <2> QED
    BY <2>6, <2>7
<1>7. CASE req[r].at \notin {"demote", "add", "demoteOthers", "promote"}
  <2>1. ASSUME NEW v \in Vehicles
        PROVE  vehicle'[v].primary = vehicle[v].primary /\ (Exists(v)' => Exists(v))
    BY <1>0, <1>7, StepVehicles
  <2>2. PrimaryKept
    BY DEF FleetInv
  <2>3. ASSUME NEW s \in Requests, req[s].at \in {"add", "promote"} PROVE req'[s] = req[s]
    BY <2>3, <1>0, <1>7 DEF Kept
  <2>4. \A v \in Vehicles : vehicle'[v].primary => Exists(v)'
    BY <2>1, <1>0 DEF Lasts
  <2> QED
    BY <2>1, <2>2, <2>3, <2>4, <1>1, <1>2 DEF PrimaryKept, Unset, At
<1> QED
  BY <1>4, <1>5, <1>6, <1>7

(* A step leaves documents in force, but for an upload between its two writes  *)
(* and for a removal.                                                          *)
LEMMA StepInForce ==
    ASSUME DocInv, NEW r \in Requests, Step(r)
    PROVE  /\ stops' = stops
           /\ \A e \in 1..saved : doc[e].active =>
                 doc'[e].active \/ (req[r].at \in {"deactivate", "remove"} /\ e = req[r].doc)
           /\ req[r].at # "save" => saved' = saved
           /\ req[r].at = "save" =>
                 /\ saved' = saved + 1 /\ saved' \in DocIds
                 /\ doc'[saved'].active /\ doc'[saved'].owner = req[r].owner /\ doc'[saved'].type = req[r].type
<1>0. /\ saved \in Nat /\ saved \in 0..MaxDocs /\ doc \in [DocIds -> Doc] /\ RequestOK(req[r], saved)
      /\ \A e \in 1..saved : e \in DocIds /\ doc[e] \in Doc
  BY BoundsAssumption DEF DocInv, DocTypeOK, DocIds
<1>1. CASE Deactivate(r) \/ WriteRemoved(r)
  <2>1. req[r].at \in {"deactivate", "remove"} /\ UNCHANGED <<saved, stops>>
    BY <1>1 DEF Deactivate, WriteRemoved, WriteDoc, At
  <2>2. \A e \in DocIds : e # req[r].doc => doc'[e] = doc[e]
    BY <1>0, <1>1 DEF Deactivate, WriteRemoved, WriteDoc
  <2> QED
    BY <2>1, <2>2, <1>0
<1>2. CASE SaveDocument(r)
  <2>1. /\ req[r].at = "save" /\ saved' = saved + 1 /\ saved + 1 \in DocIds /\ stops' = stops
        /\ \A e \in 1..saved : doc'[e] = doc[e]
    BY <1>0, <1>2, BoundsAssumption DEF SaveDocument, At, DocIds
  <2>2. doc'[saved + 1].active /\ doc'[saved + 1].owner = req[r].owner /\ doc'[saved + 1].type = req[r].type
    BY <1>0, <1>2, <2>1 DEF SaveDocument
  <2> QED
    BY <2>1, <2>2
<1>3. ASSUME NEW d \in 1..saved, NEW new, WriteDoc(d, new), new.active = doc[d].active
      PROVE  /\ UNCHANGED <<saved, stops>>
             /\ \A e \in 1..saved : doc[e].active => doc'[e].active
  BY <1>0, <1>3 DEF WriteDoc
<1>4. CASE WriteEdit(r)
  <2>1. req[r].doc \in 1..saved /\ doc[req[r].doc] \in Doc /\ req[r].at # "save"
    BY <1>0, <1>4 DEF WriteEdit, At, RequestOK, DocSteps
  <2>2. CASE WriteDoc(req[r].doc, [doc[req[r].doc] EXCEPT !.status = "pending", !.content = r])
    <3> DEFINE new == [doc[req[r].doc] EXCEPT !.status = "pending", !.content = r]
    <3>1. new.active = doc[req[r].doc].active
      BY <2>1 DEF Doc
    <3>2. WriteDoc(req[r].doc, new)
      BY <2>2
    <3> HIDE DEF new
    <3> QED
      BY <3>1, <3>2, <2>1, <1>3
  <2>3. CASE UNCHANGED <<papers, stops>>
    BY <2>1, <2>3 DEF papers
  <2> QED
    BY <1>4, <2>2, <2>3 DEF WriteEdit
<1>5. CASE WriteApproved(r)
  <2> DEFINE new == [doc[req[r].doc] EXCEPT !.status = "verified", !.reviewed = TRUE]
  <2>1. req[r].doc \in 1..saved /\ doc[req[r].doc] \in Doc /\ req[r].at # "save"
    BY <1>0, <1>5 DEF WriteApproved, At, RequestOK, DocSteps
  <2>2. new.active = doc[req[r].doc].active
    BY <2>1 DEF Doc
  <2>3. WriteDoc(req[r].doc, new)
    BY <1>5 DEF WriteApproved
  <2> HIDE DEF new
  <2> QED
    BY <2>1, <2>2, <2>3, <1>3
<1>6. CASE WriteRejected(r)
  <2> DEFINE new == [doc[req[r].doc] EXCEPT !.status = "rejected"]
  <2>1. req[r].doc \in 1..saved /\ doc[req[r].doc] \in Doc /\ req[r].at # "save"
    BY <1>0, <1>6 DEF WriteRejected, At, RequestOK, DocSteps
  <2>2. new.active = doc[req[r].doc].active
    BY <2>1 DEF Doc
  <2>3. WriteDoc(req[r].doc, new)
    BY <1>6 DEF WriteRejected
  <2> HIDE DEF new
  <2> QED
    BY <2>1, <2>2, <2>3, <1>3
<1>7. CASE CheckCompleteness(r) \/ Recount(r) \/ WriteFlag(r) \/ WriteVouched(r) \/ CheckFleet(r) \/ DemoteAll(r)
           \/ AddVehicle(r) \/ DemoteOthers(r) \/ Promote(r) \/ Retire(r) \/ CheckVehicleDocuments(r)
           \/ WriteVerified(r) \/ WriteVehicleRejected(r)
  <2>1. UNCHANGED <<doc, saved, stops>> /\ req[r].at # "save"
    BY <1>7 DEF At, CheckCompleteness, Recount, WriteFlag, WriteVouched, CheckFleet, DemoteAll, AddVehicle,
                DemoteOthers, Promote, Retire, CheckVehicleDocuments, WriteVerified, WriteVehicleRejected,
                WriteVehicle, papers
  <2> QED
    BY <2>1
<1> QED
  BY <1>1, <1>2, <1>4, <1>5, <1>6, <1>7 DEF Step

LEMMA StepPapers ==
    ASSUME DocInv, DocInv', VersionInv, FleetInv, NEW r \in Requests, Step(r)
    PROVE  PapersKept'
<1>0. /\ Kept(r) /\ GoesOn(r) /\ Lasts /\ Purpose(req[r]) /\ RequestOK(req[r], saved) /\ Replaces(req[r])
      /\ saved \in Nat /\ saved' \in 0..MaxDocs
      /\ \A e \in DocIds : (IsDoc(e) <=> e \in 1..saved) /\ (IsDoc(e)' <=> e \in 1..saved')
  BY StepKept, StepGoesOn, StepLasts, BoundsAssumption DEF FleetInv, VersionInv, DocInv, DocTypeOK, IsDoc, DocIds
<1>1. /\ stops' = stops
      /\ \A e \in 1..saved : doc[e].active =>
            doc'[e].active \/ (req[r].at \in {"deactivate", "remove"} /\ e = req[r].doc)
      /\ req[r].at # "save" => saved' = saved
      /\ req[r].at = "save" =>
            /\ saved' = saved + 1 /\ saved' \in DocIds
            /\ doc'[saved'].active /\ doc'[saved'].owner = req[r].owner /\ doc'[saved'].type = req[r].type
  BY StepInForce
<1> SUFFICES ASSUME NEW d \in DocIds, IsDoc(d)'
             PROVE  \/ Current(doc[d].owner, doc[d].type)' # {}
                    \/ \E s \in Requests : (At(s, "save") /\ req[s].owner = doc[d].owner /\ req[s].type = doc[d].type)'
                    \/ Removing(doc[d].owner, doc[d].type)'
                    \/ stops' > 0
  BY DEF PapersKept, Removing
<1>2. PICK o, ty : o = doc'[d].owner /\ ty = doc'[d].type
  OBVIOUS
<1> SUFFICES \/ Current(o, ty)' # {}
             \/ \E s \in Requests : req'[s].at = "save" /\ req'[s].owner = o /\ req'[s].type = ty
             \/ Removing(o, ty)'
             \/ stops' > 0
  BY <1>2 DEF Current, Removing, At
<1>3. ASSUME NEW e \in DocIds, e \in 1..saved', doc'[e].owner = o, doc'[e].type = ty, doc'[e].active
      PROVE  Current(o, ty)' # {}
  BY <1>3, <1>0 DEF Current
<1>4. ASSUME d \notin 1..saved PROVE Current(o, ty)' # {}
  BY <1>4, <1>2, <1>3, <1>0, <1>1
<1>5. ASSUME d \in 1..saved
      PROVE  \/ Current(o, ty)' # {}
             \/ \E s \in Requests : req'[s].at = "save" /\ req'[s].owner = o /\ req'[s].type = ty
             \/ Removing(o, ty)'
             \/ stops' > 0
  <2>1. doc[d].owner = o /\ doc[d].type = ty /\ IsDoc(d)
    BY <1>5, <1>2, <1>0 DEF Kept, KeptDoc
  <2>2. \/ Current(o, ty) # {}
        \/ \E s \in Requests : req[s].at = "save" /\ req[s].owner = o /\ req[s].type = ty
        \/ Removing(o, ty)
        \/ stops > 0
    BY <2>1 DEF FleetInv, PapersKept, At, Removing
  <2>3. ASSUME Removing(o, ty) PROVE Removing(o, ty)'
    BY <2>3, <1>0, Lasting
  <2>4. CASE Current(o, ty) # {}
    <3>1. PICK e \in DocIds : e \in 1..saved /\ doc[e].owner = o /\ doc[e].type = ty /\ doc[e].active
      BY <2>4, <1>0 DEF Current
    <3>2. doc'[e].owner = o /\ doc'[e].type = ty /\ e \in 1..saved'
      BY <3>1, <1>0 DEF Kept, KeptDoc
    <3>3. CASE doc'[e].active
      BY <3>1, <3>2, <3>3, <1>3
    <3>4. CASE req[r].at = "deactivate" /\ e = req[r].doc
      <4>1. req[r].owner = o /\ req[r].type = ty
        BY <3>1, <3>4, <1>0, BoundsAssumption DEF Replaces, NoDoc
      <4>2. req'[r].at = "save" /\ req'[r].owner = o /\ req'[r].type = ty
        BY <3>4, <4>1, <1>0 DEF GoesOn, Follows, SameRequest
      <4> QED
        BY <4>2 DEF At
    <3>5. CASE req[r].at = "remove" /\ e = req[r].doc
      <4>1. Removing(o, ty)
        BY <3>1, <3>5, <1>0 DEF Removing, Purpose
      <4> QED
        BY <4>1, <2>3
    <3> QED
      BY <3>1, <3>3, <3>4, <3>5, <1>1
  <2>5. ASSUME NEW s \in Requests, req[s].at = "save", req[s].owner = o, req[s].type = ty
        PROVE  \/ Current(o, ty)' # {}
               \/ req'[s].at = "save" /\ req'[s].owner = o /\ req'[s].type = ty
    <3>1. CASE s = r
      BY <3>1, <2>5, <1>1, <1>3, <1>0
    <3>2. CASE s # r
      BY <3>2, <2>5, <1>0 DEF Kept, At
    <3> QED
      BY <3>1, <3>2
  <2> QED
    BY <2>2, <2>3, <2>4, <2>5, <1>1
<1> QED
  BY <1>4, <1>5

-------------------------------------------------------------------------------
LEMMA FleetKeptByStep ==
    ASSUME DocInv, DocInv', VersionInv, FleetInv, NEW r \in Requests, Step(r)
    PROVE  FleetInv'
<1>0. /\ Lasts /\ Kept(r) /\ Relies(req[r]) /\ Purpose(req[r]) /\ RequestOK(req[r], saved)
      /\ driver \in [verified : BOOLEAN, vouched : BOOLEAN]
  BY StepLasts, StepKept DEF FleetInv, DocInv, DocTypeOK
<1>1. (Sponsored => Sponsored') /\ (Vouched => Vouched')
  BY <1>0, Lasting
<1>2. driver'.vouched => Vouched'
  <2>1. CASE WriteVouched(r)
    <3>1. driver'.vouched = req[r].value /\ req[r].op = "verifyDriver"
      BY <2>1, <1>0 DEF WriteVouched, At, Purpose
    <3> QED
      BY <3>1, <1>1 DEF Vouched
  <2>2. CASE ~ WriteVouched(r)
    <3>1. driver' = driver \/ driver' = [driver EXCEPT !.verified = req[r].value]
      BY <2>2 DEF Step, Deactivate, SaveDocument, WriteEdit, WriteRemoved, CheckCompleteness, WriteApproved,
                  WriteRejected, Recount, WriteFlag, CheckFleet, DemoteAll, AddVehicle, DemoteOthers, Promote, Retire,
                  CheckVehicleDocuments, WriteVerified, WriteVehicleRejected, WriteDoc, WriteVehicle, papers
    <3>2. driver'.vouched = driver.vouched
      BY <3>1, <1>0
    <3> QED
      BY <3>2, <1>1 DEF FleetInv, Vouched
  <2> QED
    BY <2>1, <2>2
<1>3. FleetOfVerifiedDriver'
  <2>1. ASSUME NEW v \in Vehicles, Exists(v)' PROVE Sponsored'
    <3>1. Exists(v) \/ req[r].at = "add"
      BY <1>0, <2>1, StepVehicles
    <3>2. Sponsored
      BY <3>1, <1>0 DEF FleetInv, FleetOfVerifiedDriver, Sponsored, Relies, Adding
    <3> QED
      BY <3>2, <1>1
  <2> QED
    BY <2>1 DEF FleetOfVerifiedDriver, Sponsored
<1> QED
  BY <1>2, <1>3, StepFits, StepPrimary, StepPapers DEF FleetInv, Vouched

LEMMA FleetKeptByReceive ==
    ASSUME DocInv, DocInv', VerifiedWasReviewed, FleetInv, NEW r \in Requests, Receive(r)
    PROVE  FleetInv'
<1>0. /\ Lasts /\ Accepted(r) /\ req[r].at = "idle" /\ Opened(req'[r])
      /\ Purpose(req'[r]) /\ Relies(req'[r])
  BY ReceiveLasts, ReceivedShape, ReceivedOpened, OpenedFits
<1>1. /\ (Sponsored => Sponsored') /\ (Vouched => Vouched') /\ (Unset => Unset')
      /\ \A o, ty : Removing(o, ty) => Removing(o, ty)'
  BY <1>0, Lasting
<1>2. UNCHANGED <<doc, saved, driver, vehicle, stops>> /\ \A s \in Requests : s # r => req'[s] = req[s]
  BY <1>0 DEF Accepted
<1>3. \A s \in Requests : Purpose(req'[s]) /\ Relies(req'[s])
  BY <1>0, <1>2 DEF FleetInv
<1>4. \A s \in Requests : (Purpose(req[s]) /\ Relies(req[s]))'
  BY <1>1, <1>2, <1>3 DEF Purpose, Relies, Exists
<1>5. \A q, s \in Requests : q # s /\ req'[q].op = "create" /\ req'[s].op = "create" => req'[q].owner # req'[s].owner
  <2>1. req'[r].op = "create" => \A s \in Requests : req[s].op = "create" => req[s].owner # req'[r].owner
    BY <1>0 DEF Opened
  <2> QED
    BY <2>1, <1>2 DEF FleetInv
<1>6. FleetOfVerifiedDriver'
  BY <1>1, <1>2 DEF FleetInv, FleetOfVerifiedDriver, Sponsored, Exists
<1>7. ASSUME NEW s \in Requests, req[s].at # "idle" PROVE req'[s] = req[s]
  BY <1>0, <1>2, <1>7
<1>8. PrimaryKept'
  BY <1>1, <1>2, <1>7 DEF FleetInv, PrimaryKept, Unset, Exists, At
<1>9. PapersKept'
  <2>1. \A o, ty : Current(o, ty)' = Current(o, ty)
    BY <1>2 DEF Current, IsDoc
  <2>2. \A d : IsDoc(d)' <=> IsDoc(d)
    BY <1>2 DEF IsDoc
  <2> QED
    BY <1>1, <1>2, <1>7, <2>1, <2>2 DEF FleetInv, PapersKept, Removing, At
<1>10. /\ \A v \in Vehicles : vehicle'[v].primary => Exists(v)'
       /\ driver'.vouched => Vouched'
  BY <1>1, <1>2 DEF FleetInv, Exists, Vouched
<1> QED
  BY <1>4, <1>5, <1>6, <1>8, <1>9, <1>10 DEF FleetInv, Vouched

LEMMA FleetKeptByStop ==
    ASSUME DocInv, DocInv', FleetInv, Stop
    PROVE  FleetInv'
<1>0. Lasts /\ stops' > 0
  BY StopLasts, BoundsAssumption DEF Stop, DocInv, DocTypeOK
<1>1. (Sponsored => Sponsored') /\ (Vouched => Vouched')
  BY <1>0, Lasting
<1>2. UNCHANGED <<doc, saved, driver, vehicle>>
  BY DEF Stop, papers
<1>3. ASSUME NEW s \in Requests
      PROVE  /\ req'[s].op = req[s].op /\ req'[s].owner = req[s].owner /\ req'[s].doc = req[s].doc
             /\ req'[s] = req[s] \/ req'[s].at = "lost"
  <2>1. req'[s] = req[s] \/ req'[s] = [req[s] EXCEPT !.at = "lost"]
    BY DEF Stop
  <2> QED
    BY <2>1 DEF DocInv, DocTypeOK, Request
<1>4. ASSUME NEW s \in Requests PROVE (Purpose(req[s]) /\ Relies(req[s]))'
  <2>1. CASE req'[s] = req[s]
    BY <1>1, <1>2, <2>1 DEF FleetInv, Purpose, Relies, Exists
  <2>2. CASE req'[s].at = "lost"
    BY <1>2, <1>3, <2>2 DEF FleetInv, Purpose, Relies, Ended, Adding, OnVehicle
  <2> QED
    BY <1>3, <2>1, <2>2
<1>5. FleetOfVerifiedDriver'
  BY <1>1, <1>2 DEF FleetInv, FleetOfVerifiedDriver, Sponsored, Exists
<1>6. PrimaryKept' /\ PapersKept'
  BY <1>0 DEF PrimaryKept, PapersKept
<1>7. /\ \A v \in Vehicles : vehicle'[v].primary => Exists(v)'
      /\ driver'.vouched => Vouched'
  BY <1>1, <1>2 DEF FleetInv, Exists, Vouched
<1> QED
  BY <1>3, <1>4, <1>5, <1>6, <1>7 DEF FleetInv, Vouched

LEMMA FleetInit == DocInit => FleetInv
<1> SUFFICES ASSUME DocInit PROVE FleetInv
  OBVIOUS
<1>1. PICK n \in 0..Cardinality(DOMAIN Held), fleet \in SUBSET Fleet :
      \E status \in [1..n -> {"pending", "verified", "rejected"}], reviewed \in SUBSET fleet :
         StartingWith(n, fleet, status, reviewed)
  BY Zenon DEF DocInit
<1>2. PICK status \in [1..n -> {"pending", "verified", "rejected"}], reviewed \in SUBSET fleet :
         StartingWith(n, fleet, status, reviewed)
  BY <1>1, Zenon
<1>3. PICK first \in Vehicles :
        /\ fleet # {} => first \in fleet
        /\ vehicle = [v \in Vehicles |->
                        IF v \notin fleet THEN NoVehicle
                        ELSE [status |-> IF v \in reviewed THEN "verified" ELSE "pending",
                              active |-> TRUE, primary |-> v = first, complete |-> IsComplete(v)]]
  BY <1>2 DEF StartingWith
<1>4. ASSUME NEW v \in Vehicles
      PROVE  /\ Exists(v) => v \in fleet
             /\ v \in fleet => Exists(v) /\ vehicle[v].primary = (v = first)
             /\ vehicle[v].primary => Exists(v)
  <2>1. CASE v \in fleet
    BY <1>3, <2>1 DEF Exists
  <2>2. CASE v \notin fleet
    BY <1>3, <2>2 DEF Exists, NoVehicle
  <2> QED
    BY <2>1, <2>2
<1>5. ASSUME NEW d \in DocIds, IsDoc(d)
      PROVE  doc[d].active /\ (doc[d].owner = Driver /\ fleet # {} => doc[d].reviewed)
  <2> DEFINE was == status[d] = "verified" \/ (Held[d].owner = Driver /\ fleet # {})
  <2>1. saved = n /\ n \in 0..MaxDocs
    BY <1>2, HeldTyped DEF StartingWith
  <2>2. ~ d > n
    BY <1>5, <2>1, BoundsAssumption DEF IsDoc, DocIds
  <2>3. doc[d] = [NoDocument EXCEPT !.owner = Held[d].owner, !.type = Held[d].type, !.status = status[d],
                                    !.active = TRUE, !.version = 1, !.reviewed = was]
    BY <1>2, <2>2 DEF StartingWith
  <2>4. doc[d].owner = Held[d].owner /\ doc[d].active
    BY <2>3 DEF NoDocument
  <2>5. doc[d].reviewed = was
    BY <2>3 DEF NoDocument
  <2> QED
    BY <2>4, <2>5
<1>6. fleet # {} => Reviewed(Driver)
  <2>1. fleet # {} => \A ty \in Required[Driver] : Current(Driver, ty) # {}
    BY <1>2 DEF StartingWith
  <2> QED
    BY <2>1, <1>5 DEF Reviewed, Current
<1>7. req = [r \in Requests |-> NoRequest] /\ \A r \in Requests : req[r].op = "none" /\ req[r].at = "idle"
  BY DEF DocInit, NoRequest
<1>8. \A r \in Requests : Purpose(req[r]) /\ Relies(req[r])
  BY <1>7 DEF Purpose, Relies, Adding, OnVehicle
<1>9. FleetOfVerifiedDriver /\ PrimaryKept
  BY <1>3, <1>4, <1>6 DEF FleetOfVerifiedDriver, PrimaryKept
<1>10. PapersKept
  BY <1>5 DEF PapersKept, Current
<1>11. ~ driver.vouched
  BY <1>2 DEF StartingWith
<1> QED
  BY <1>4, <1>7, <1>8, <1>9, <1>10, <1>11 DEF FleetInv

LEMMA FleetInvariance == DocSpec => []FleetInv
<1>1. ASSUME DocInv, DocInv', ReviewInv, VersionInv, FleetInv, [DocNext]_docVars PROVE FleetInv'
  <2>1. CASE UNCHANGED docVars
    BY <1>1, <2>1 DEF docVars, papers, FleetInv, Purpose, Relies, Sponsored, Reviewed, IsDoc, Exists,
                      FleetOfVerifiedDriver, PrimaryKept, PapersKept, Current, At
  <2>2. VerifiedWasReviewed
    BY <1>1 DEF ReviewInv
  <2> QED
    BY <1>1, <2>1, <2>2, FleetKeptByStep, FleetKeptByReceive, FleetKeptByStop DEF DocNext
<1> QED
  BY <1>1, FleetInit, DocInvariance, ReviewInvariance, VersionInvariance, PTL DEF DocSpec

(* A driver whose documents nobody has approved, and whom nobody has vouched   *)
(* for, gets no vehicle, whatever overlaps the request.                        *)
THEOREM FleetIsVerified == DocSpec => []FleetOfVerifiedDriver
<1>1. FleetInv => FleetOfVerifiedDriver
  BY DEF FleetInv
<1> QED
  BY <1>1, FleetInvariance, PTL

(* Choices of the primary vehicle that overlap may leave two, but none only    *)
(* between the two writes of a choice, after a restart between them, or when   *)
(* the driver asked for it.                                                    *)
THEOREM FleetKeepsPrimary == DocSpec => []PrimaryKept
<1>1. FleetInv => PrimaryKept
  BY DEF FleetInv
<1> QED
  BY <1>1, FleetInvariance, PTL

(* Uploads, edits and reviews that overlap keep a document of each type that    *)
(* has been uploaded in force; only a removal, or a restart between the two     *)
(* writes of an upload, takes the last one out.                                 *)
THEOREM PapersStayInForce == DocSpec => []PapersKept
<1>1. FleetInv => PapersKept
  BY DEF FleetInv
<1> QED
  BY <1>1, FleetInvariance, PTL
===============================================================================
