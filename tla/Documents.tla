------------------------------ MODULE Documents -------------------------------
(***************************************************************************)
(* The papers of one driver and of the driver's vehicles: upload, edit and  *)
(* removal by the driver, approval and rejection by administrators, the      *)
(* flags computed from them, and the vehicles that depend on those flags.    *)
(* Different drivers share none of this.                                     *)
(*                                                                         *)
(* A request is a numbered task, one action is one access to the database.   *)
(* Documents are numbered in the order in which they are saved.              *)
(***************************************************************************)
EXTENDS Integers, FiniteSets

CONSTANTS
    Driver,         \* the driver, as owner of driver documents
    Vehicles,       \* the vehicles the driver may have
    Fleet,          \* those there are at the start
    Types,          \* the document types of a driver or a vehicle
    Required,       \* those required of a driver or a vehicle
    Held,           \* owner and type of the documents there are at the start
    MaxDocs,        \* bound: documents saved
    MaxRequests,    \* bound: requests made
    RequestOps,     \* bound: sets of kinds of request, those made in a behaviour are in one
    MaxStops        \* bound: restarts of the API processes

Owners   == {Driver} \cup Vehicles
Requests == 1..MaxRequests
DocIds   == 1..MaxDocs
NoDoc    == 0

ASSUME OwnersAssumption ==
    /\ Driver \notin Vehicles /\ Fleet \subseteq Vehicles
    /\ \A o \in Owners : Required[o] \subseteq Types[o]
ASSUME BoundsAssumption == MaxDocs \in Nat /\ MaxRequests \in Nat /\ MaxStops \in Nat
ASSUME HeldAssumption ==
    /\ \E n \in 0..MaxDocs : DOMAIN Held = 1..n
    /\ \A d \in DOMAIN Held : Held[d].owner \in {Driver} \cup Fleet
                              /\ Held[d].type \in Types[Held[d].owner]

VARIABLES
    doc,        \* driver and vehicle documents
    saved,      \* how many there are
    driver,     \* user: isDriverVerified with hasCompleteDocumentation, driverVerifiedAt
    vehicle,    \* vehicles
    req,        \* the requests
    stops       \* restarts so far

papers   == <<doc, saved, driver, vehicle>>
docVars  == <<papers, req, stops>>

-------------------------------------------------------------------------------
AllTypes == UNION {Types[o] : o \in Owners}

(* content: the request whose details the document carries, 0 at the start;   *)
(* reviewed: verifiedAt is set; prev: previousVersionId.                       *)
Doc == [owner : Owners, type : AllTypes \cup {"none"}, status : {"pending", "verified", "rejected"},
        active : BOOLEAN, version : Nat, prev : DocIds \cup {NoDoc},
        reviewed : BOOLEAN, content : Requests \cup {0}]

NoDocument == [owner |-> Driver, type |-> "none", status |-> "pending", active |-> FALSE,
               version |-> 0, prev |-> NoDoc, reviewed |-> FALSE, content |-> 0]

(* complete: hasCompleteDocumentation. *)
Vehicle == [status : {"absent", "pending", "verified", "rejected"}, active : BOOLEAN,
            primary : BOOLEAN, complete : BOOLEAN]
NoVehicle == [status |-> "absent", active |-> FALSE, primary |-> FALSE, complete |-> FALSE]

DocOps == {"none", "upload", "edit", "remove", "approve", "reject", "verifyDriver", "create",
           "setPrimary", "update", "delete", "approveVehicle", "rejectVehicle"}
Steps == { "idle", "deactivate", "save", "edit", "remove", "count", "approve", "reject", "recount",
           "writeFlag", "vouch", "fleet", "demote", "add", "demoteOthers", "promote", "retire",
           "documents", "verifyVehicle", "rejectVehicle", "done", "refused", "lost" }
Ended == {"done", "refused", "lost"}

(* value: what the request is about to write into a flag, or what was asked.  *)
Request == [op : DocOps, at : Steps, owner : Owners, type : AllTypes \cup {"none"},
            doc : DocIds \cup {NoDoc}, value : BOOLEAN]
NoRequest == [op |-> "none", at |-> "idle", owner |-> Driver, type |-> "none", doc |-> NoDoc,
              value |-> FALSE]

IsDoc(d)    == d \in DocIds /\ d <= saved
Exists(v)   == vehicle[v].status # "absent"
Current(o, ty) == {d \in DocIds : IsDoc(d) /\ doc[d].owner = o /\ doc[d].type = ty /\ doc[d].active}
Verified(d) == doc[d].status = "verified"

(* checkDocumentCompleteness: some document of each required type is verified. *)
IsComplete(o) == \A ty \in Required[o] : \E d \in Current(o, ty) : Verified(d)

(* The state a run starts in: the driver has uploaded the first n documents of *)
(* Held, each has been reviewed or not, and some vehicles of Fleet have been    *)
(* added, which takes a driver whose documents were verified at the time.       *)
StartingWith(n, fleet, status, reviewed) ==
    /\ \A d \in 1..n : Held[d].owner \in {Driver} \cup fleet
    /\ saved = n
    /\ doc = [d \in DocIds |->
                IF d > n THEN NoDocument
                ELSE [NoDocument EXCEPT
                        !.owner = Held[d].owner, !.type = Held[d].type, !.status = status[d],
                        !.active = TRUE, !.version = 1,
                        !.reviewed = status[d] = "verified" \/ (Held[d].owner = Driver /\ fleet # {})]]
    /\ driver = [verified |-> IsComplete(Driver), vouched |-> FALSE]
    /\ fleet # {} => \A ty \in Required[Driver] : Current(Driver, ty) # {}
    /\ \A v \in reviewed : IsComplete(v)
    /\ \E first \in Vehicles :
         /\ fleet # {} => first \in fleet
         /\ vehicle = [v \in Vehicles |->
                         IF v \notin fleet THEN NoVehicle
                         ELSE [status |-> IF v \in reviewed THEN "verified" ELSE "pending",
                               active |-> TRUE, primary |-> v = first, complete |-> IsComplete(v)]]

DocInit ==
    /\ \E n \in 0..Cardinality(DOMAIN Held), fleet \in SUBSET Fleet :
       \E status \in [1..n -> {"pending", "verified", "rejected"}], reviewed \in SUBSET fleet :
          StartingWith(n, fleet, status, reviewed)
    /\ req = [r \in Requests |-> NoRequest]
    /\ stops = 0

-------------------------------------------------------------------------------
At(r, step) == req[r].at = step
Goto(r, step) == req' = [req EXCEPT ![r].at = step]

(* A request is received; new is what its first read leaves in its record. *)
Received(r, op, new) ==
    /\ At(r, "idle") /\ \A q \in Requests : q < r => ~ At(q, "idle")
    /\ \E ops \in RequestOps : \A q \in Requests : (IF q < r THEN req[q].op ELSE op) \in ops
    /\ req' = [req EXCEPT ![r] = [new EXCEPT !.op = op]]
    /\ UNCHANGED <<papers, stops>>

WriteDoc(d, new) ==
    /\ doc' = [doc EXCEPT ![d] = new]
    /\ UNCHANGED <<saved, driver, vehicle, stops>>

WriteVehicle(v, new) ==
    /\ vehicle' = [vehicle EXCEPT ![v] = new]
    /\ UNCHANGED <<doc, saved, driver, stops>>

-------------------------------------------------------------------------------
(* Upload: createDriverDocument and createVehicleDocument mark the active      *)
(* document of the type inactive and save a new version.                       *)

StartUpload(r, o, ty) ==
    \/ \E d \in Current(o, ty) :
          Received(r, "upload", [NoRequest EXCEPT !.owner = o, !.type = ty, !.doc = d, !.at = "deactivate"])
    \/ /\ Current(o, ty) = {}
       /\ Received(r, "upload", [NoRequest EXCEPT !.owner = o, !.type = ty, !.at = "save"])

UploadDriverDocument(r, ty) == StartUpload(r, Driver, ty)

UploadVehicleDocument(r, v, ty) == Exists(v) /\ StartUpload(r, v, ty)

(* Mutant: the version being replaced is left active. *)
DeactivateKeeps(r) ==
    /\ At(r, "deactivate")
    /\ UNCHANGED <<papers, stops>>
    /\ Goto(r, "save")

Deactivate(r) ==
    /\ At(r, "deactivate")
    /\ WriteDoc(req[r].doc, [doc[req[r].doc] EXCEPT !.active = FALSE])
    /\ Goto(r, "save")

(* A vehicle's upload goes on to count its documents, a driver's does not. *)
AfterChange(o) == IF o = Driver THEN "done" ELSE "count"

(* Mutant: a new version takes over the flag of the one it replaces. *)
SaveDocumentCopies(r) ==
    /\ At(r, "save")
    /\ saved < MaxDocs
    /\ saved' = saved + 1
    /\ doc' = [doc EXCEPT ![saved + 1] =
                 [owner |-> req[r].owner, type |-> req[r].type, status |-> "pending",
                  active |-> req[r].doc = NoDoc \/ doc[req[r].doc].active,
                  version |-> IF req[r].doc = NoDoc THEN 1 ELSE doc[req[r].doc].version + 1,
                  prev |-> req[r].doc, reviewed |-> FALSE, content |-> r]]
    /\ Goto(r, AfterChange(req[r].owner))
    /\ UNCHANGED <<driver, vehicle, stops>>

SaveDocument(r) ==
    /\ At(r, "save")
    /\ saved < MaxDocs
    /\ saved' = saved + 1
    /\ doc' = [doc EXCEPT ![saved + 1] =
                 [owner |-> req[r].owner, type |-> req[r].type, status |-> "pending", active |-> TRUE,
                  version |-> IF req[r].doc = NoDoc THEN 1 ELSE doc[req[r].doc].version + 1,
                  prev |-> req[r].doc, reviewed |-> FALSE, content |-> r]]
    /\ Goto(r, AfterChange(req[r].owner))
    /\ UNCHANGED <<driver, vehicle, stops>>

-------------------------------------------------------------------------------
(* Edits and removals are refused for a verified document, when it is read.   *)

EditDocument(r, d) ==
    /\ IsDoc(d) /\ ~ Verified(d)
    /\ Received(r, "edit", [NoRequest EXCEPT !.owner = doc[d].owner, !.doc = d, !.at = "edit"])

(* Mutants: an edited document gets a status of its own; it keeps its status. *)
WriteEditResubmits(r) ==
    /\ At(r, "edit")
    /\ WriteDoc(req[r].doc, [doc[req[r].doc] EXCEPT !.status = "resubmitted", !.content = r])
    /\ Goto(r, AfterChange(req[r].owner))

WriteEditKeepsStatus(r) ==
    /\ At(r, "edit")
    /\ WriteDoc(req[r].doc, [doc[req[r].doc] EXCEPT !.content = r])
    /\ Goto(r, AfterChange(req[r].owner))

(* New details always make the document pending again.  updateVehicleDocument *)
(* may also change no more than the file name.                                 *)
WriteEdit(r) ==
    /\ At(r, "edit")
    /\ LET d == req[r].doc
       IN \/ WriteDoc(d, [doc[d] EXCEPT !.status = "pending", !.content = r])
          \/ req[r].owner # Driver /\ UNCHANGED <<papers, stops>>
    /\ Goto(r, AfterChange(req[r].owner))

DeleteVehicleDocument(r, d) ==
    /\ IsDoc(d) /\ ~ Verified(d) /\ doc[d].owner # Driver
    /\ Received(r, "remove", [NoRequest EXCEPT !.owner = doc[d].owner, !.doc = d, !.at = "remove"])

WriteRemoved(r) ==
    /\ At(r, "remove")
    /\ WriteDoc(req[r].doc, [doc[req[r].doc] EXCEPT !.active = FALSE])
    /\ Goto(r, "count")

(* updateVehicleDocumentationStatus *)
CheckCompleteness(r) ==
    /\ At(r, "count")
    /\ req' = [req EXCEPT ![r].at = "writeFlag", ![r].value = IsComplete(req[r].owner)]
    /\ UNCHANGED <<papers, stops>>

-------------------------------------------------------------------------------
(* Reviews: the document is looked up, then overwritten whatever it is by now. *)

ApproveDocument(r, d) ==
    /\ IsDoc(d)
    /\ Received(r, "approve", [NoRequest EXCEPT !.owner = doc[d].owner, !.doc = d, !.at = "approve"])

WriteApproved(r) ==
    /\ At(r, "approve")
    /\ WriteDoc(req[r].doc, [doc[req[r].doc] EXCEPT !.status = "verified", !.reviewed = TRUE])
    /\ Goto(r, "recount")

RejectDocument(r, d) ==
    /\ IsDoc(d)
    /\ Received(r, "reject", [NoRequest EXCEPT !.owner = doc[d].owner, !.doc = d, !.at = "reject"])

(* Rejecting a vehicle's document counts nothing. *)
WriteRejected(r) ==
    /\ At(r, "reject")
    /\ WriteDoc(req[r].doc, [doc[req[r].doc] EXCEPT !.status = "rejected"])
    /\ Goto(r, IF req[r].owner = Driver THEN "recount" ELSE "done")

(* Mutant: a document counts as soon as it has been uploaded. *)
MaySeeUploaded(o) == \A ty \in Required[o] : Current(o, ty) # {}

(* update...DocumentCompletionStatus keeps one active document of each type,   *)
(* which one of several is for the database to say.  A driver's document may    *)
(* also have expired.                                                           *)
MaySeeComplete(o) == IsComplete(o)
MaySeeIncomplete(o) ==
    \/ \E ty \in Required[o] : Current(o, ty) = {} \/ \E d \in Current(o, ty) : ~ Verified(d)
    \/ o = Driver /\ Required[o] # {}

Recount(r) ==
    /\ At(r, "recount")
    /\ \E complete \in BOOLEAN :
          /\ IF complete THEN MaySeeComplete(req[r].owner) ELSE MaySeeIncomplete(req[r].owner)
          /\ req' = [req EXCEPT ![r].at = "writeFlag", ![r].value = complete]
    /\ UNCHANGED <<papers, stops>>

WriteFlag(r) ==
    /\ At(r, "writeFlag")
    /\ IF req[r].owner = Driver
       THEN /\ driver' = [driver EXCEPT !.verified = req[r].value]
            /\ UNCHANGED <<doc, saved, vehicle, stops>>
       ELSE WriteVehicle(req[r].owner, [vehicle[req[r].owner] EXCEPT !.complete = req[r].value])
    /\ Goto(r, "done")

(* verifyDriver: an administrator may set the flags by hand. *)
VerifyDriver(r, verified) ==
    Received(r, "verifyDriver", [NoRequest EXCEPT !.value = verified, !.at = "vouch"])

WriteVouched(r) ==
    /\ At(r, "vouch")
    /\ driver' = [verified |-> req[r].value, vouched |-> req[r].value]
    /\ Goto(r, "done")
    /\ UNCHANGED <<doc, saved, vehicle, stops>>

-------------------------------------------------------------------------------
(* Vehicles.  The first is made primary; making one primary unsets the others. *)

(* Mutant: the driver's verification is not looked at. *)
CreateVehicleUnchecked(r, v, primary) ==
    /\ ~ Exists(v) /\ \A q \in Requests : req[q].op = "create" => req[q].owner # v
    /\ Received(r, "create", [NoRequest EXCEPT !.owner = v, !.value = primary, !.at = "fleet"])

CreateVehicle(r, v, primary) ==
    /\ driver.verified
    /\ ~ Exists(v) /\ \A q \in Requests : req[q].op = "create" => req[q].owner # v
    /\ Received(r, "create", [NoRequest EXCEPT !.owner = v, !.value = primary, !.at = "fleet"])

(* Mutant: the first vehicle is primary only if the driver says so. *)
CheckFleetAsAsked(r) ==
    /\ At(r, "fleet")
    /\ Goto(r, IF req[r].value THEN "demote" ELSE "add")
    /\ UNCHANGED <<papers, stops>>

CheckFleet(r) ==
    /\ At(r, "fleet")
    /\ LET primary == req[r].value \/ ~ \E v \in Vehicles : Exists(v) /\ vehicle[v].active
       IN req' = [req EXCEPT ![r].at = IF primary THEN "demote" ELSE "add", ![r].value = primary]
    /\ UNCHANGED <<papers, stops>>

DemoteAll(r) ==
    /\ At(r, "demote")
    /\ vehicle' = [v \in Vehicles |-> [vehicle[v] EXCEPT !.primary = FALSE]]
    /\ Goto(r, "add")
    /\ UNCHANGED <<doc, saved, driver, stops>>

AddVehicle(r) ==
    /\ At(r, "add")
    /\ WriteVehicle(req[r].owner, [status |-> "pending", active |-> TRUE, complete |-> FALSE,
                                   primary |-> req[r].value])
    /\ Goto(r, "done")

SetPrimaryVehicle(r, v) ==
    /\ Exists(v) /\ vehicle[v].complete
    /\ Received(r, "setPrimary", [NoRequest EXCEPT !.owner = v, !.value = TRUE, !.at = "demoteOthers"])

(* updateVehicle with isPrimary in its body. *)
UpdateVehicle(r, v, primary) ==
    /\ Exists(v)
    /\ Received(r, "update", [NoRequest EXCEPT !.owner = v, !.value = primary,
                                               !.at = IF primary THEN "demoteOthers" ELSE "promote"])

DemoteOthers(r) ==
    /\ At(r, "demoteOthers")
    /\ vehicle' = [v \in Vehicles |->
                     IF v = req[r].owner THEN vehicle[v] ELSE [vehicle[v] EXCEPT !.primary = FALSE]]
    /\ Goto(r, "promote")
    /\ UNCHANGED <<doc, saved, driver, stops>>

Promote(r) ==
    /\ At(r, "promote")
    /\ WriteVehicle(req[r].owner, [vehicle[req[r].owner] EXCEPT !.primary = req[r].value])
    /\ Goto(r, "done")

DeleteVehicle(r, v) ==
    /\ Exists(v)
    /\ Received(r, "delete", [NoRequest EXCEPT !.owner = v, !.at = "retire"])

Retire(r) ==
    /\ At(r, "retire")
    /\ WriteVehicle(req[r].owner, [vehicle[req[r].owner] EXCEPT !.active = FALSE])
    /\ Goto(r, "done")

ApproveVehicle(r, v) ==
    /\ Exists(v) /\ ~ (vehicle[v].complete /\ vehicle[v].status = "verified")
    /\ Received(r, "approveVehicle", [NoRequest EXCEPT !.owner = v, !.at = "documents"])

(* getVehicleDocuments lets the oldest of several active documents of a type   *)
(* decide; one that has expired makes the vehicle incomplete.                  *)
OldestVerified(v, ty) ==
    \E d \in Current(v, ty) : Verified(d) /\ \A e \in Current(v, ty) : d <= e

CheckVehicleDocuments(r) ==
    /\ At(r, "documents")
    /\ \/ /\ \A ty \in Required[req[r].owner] : OldestVerified(req[r].owner, ty)
          /\ Goto(r, "verifyVehicle")
       \/ Goto(r, "refused")
    /\ UNCHANGED <<papers, stops>>

WriteVerified(r) ==
    /\ At(r, "verifyVehicle")
    /\ WriteVehicle(req[r].owner, [vehicle[req[r].owner] EXCEPT !.status = "verified", !.complete = TRUE])
    /\ Goto(r, "done")

RejectVehicle(r, v) ==
    /\ Exists(v)
    /\ Received(r, "rejectVehicle", [NoRequest EXCEPT !.owner = v, !.at = "rejectVehicle"])

WriteVehicleRejected(r) ==
    /\ At(r, "rejectVehicle")
    /\ WriteVehicle(req[r].owner, [vehicle[req[r].owner] EXCEPT !.status = "rejected", !.complete = FALSE])
    /\ Goto(r, "done")

-------------------------------------------------------------------------------
(* A restart loses the requests in progress, of which there are some (it does  *)
(* nothing else), and keeps the database.                                      *)
Stop ==
    /\ stops < MaxStops
    /\ \E r \in Requests : req[r].at \notin {"idle"} \cup Ended
    /\ stops' = stops + 1
    /\ req' = [r \in Requests |-> IF req[r].at \in {"idle"} \cup Ended THEN req[r]
                                  ELSE [req[r] EXCEPT !.at = "lost"]]
    /\ UNCHANGED papers

DocumentRoutes(r) ==
    \/ \E ty \in Types[Driver] : UploadDriverDocument(r, ty)
    \/ \E v \in Vehicles : \E ty \in Types[v] : UploadVehicleDocument(r, v, ty)
    \/ \E d \in DocIds : EditDocument(r, d) \/ DeleteVehicleDocument(r, d)

VehicleRoutes(r) ==
    \E v \in Vehicles :
       \/ \E b \in BOOLEAN : CreateVehicle(r, v, b) \/ UpdateVehicle(r, v, b)
       \/ SetPrimaryVehicle(r, v) \/ DeleteVehicle(r, v)

ReviewRoutes(r) ==
    \/ \E d \in DocIds : ApproveDocument(r, d) \/ RejectDocument(r, d)
    \/ \E v \in Vehicles : ApproveVehicle(r, v) \/ RejectVehicle(r, v)
    \/ \E b \in BOOLEAN : VerifyDriver(r, b)

Receive(r) == DocumentRoutes(r) \/ VehicleRoutes(r) \/ ReviewRoutes(r)

Step(r) ==
    \/ Deactivate(r) \/ SaveDocument(r) \/ WriteEdit(r) \/ WriteRemoved(r) \/ CheckCompleteness(r)
    \/ WriteApproved(r) \/ WriteRejected(r) \/ Recount(r) \/ WriteFlag(r) \/ WriteVouched(r)
    \/ CheckFleet(r) \/ DemoteAll(r) \/ AddVehicle(r) \/ DemoteOthers(r) \/ Promote(r) \/ Retire(r)
    \/ CheckVehicleDocuments(r) \/ WriteVerified(r) \/ WriteVehicleRejected(r)

DocNext == Stop \/ \E r \in Requests : Receive(r) \/ Step(r)

DocSpec == DocInit /\ [][DocNext]_docVars

-------------------------------------------------------------------------------
(* Properties *)

DocTypeOK ==
    /\ doc \in [DocIds -> Doc]
    /\ saved \in 0..MaxDocs
    /\ driver \in [verified : BOOLEAN, vouched : BOOLEAN]
    /\ vehicle \in [Vehicles -> Vehicle]
    /\ req \in [Requests -> Request]
    /\ stops \in 0..MaxStops

Reviewed(o) ==
    \A ty \in Required[o] : \E d \in DocIds :
       IsDoc(d) /\ doc[d].owner = o /\ doc[d].type = ty /\ doc[d].reviewed

(* A driver is verified, a vehicle complete or verified, only when a document  *)
(* of every required type has once been approved, or an administrator has      *)
(* vouched for the driver: no upload, edit, removal or review that overlaps     *)
(* the counting of the documents can make it so.                                *)
VerifiedWasReviewed ==
    /\ driver.verified => driver.vouched \/ Reviewed(Driver)
    /\ \A v \in Vehicles : vehicle[v].complete \/ vehicle[v].status = "verified" => Reviewed(v)

(* A vehicle belongs to a driver whose documents have been approved or who has *)
(* been vouched for, although they may be rejected while it is being added.     *)
FleetOfVerifiedDriver ==
    (\E v \in Vehicles : Exists(v)) =>
       Reviewed(Driver) \/ \E r \in Requests : req[r].op = "verifyDriver" /\ req[r].value

(* Details are never replaced under a document that stays verified: an edit    *)
(* that was let in before the approval takes the approval back.                 *)
VerifiedStaysAsReviewed ==
    [][\A d \in DocIds : IsDoc(d) /\ Verified(d) /\ Verified(d)' => doc'[d].content = doc[d].content]_docVars

(* What has been uploaded stays in force until the driver removes it: uploads  *)
(* of one type that overlap, and edits of the version they replace, leave an    *)
(* active document, but for the moment between the two writes of an upload.     *)
PapersKept ==
    \A d \in DocIds : IsDoc(d) =>
       \/ Current(doc[d].owner, doc[d].type) # {}
       \/ \E r \in Requests : At(r, "save") /\ req[r].owner = doc[d].owner /\ req[r].type = doc[d].type
       \/ \E r \in Requests : /\ req[r].op = "remove"
                              /\ doc[req[r].doc].owner = doc[d].owner
                              /\ doc[req[r].doc].type = doc[d].type
       \/ stops > 0

(* A new version comes after the one it replaces, which is no longer active,   *)
(* also when two uploads replace the same version.                              *)
VersionsInOrder ==
    \A d \in DocIds : IsDoc(d) /\ doc[d].prev # NoDoc =>
       LET p == doc[d].prev
       IN p < d /\ ~ doc[p].active /\ doc[p].version < doc[d].version
          /\ doc[p].owner = doc[d].owner /\ doc[p].type = doc[d].type

(* A driver with vehicles has a primary one, without which no ride is offered: *)
(* choices that overlap may make two primary but never none, except between    *)
(* unsetting the others and setting the chosen one, or when the driver unsets   *)
(* it by an update.                                                             *)
PrimaryKept ==
    (\E v \in Vehicles : Exists(v)) =>
       \/ \E v \in Vehicles : vehicle[v].primary
       \/ \E r \in Requests : (At(r, "add") \/ At(r, "promote")) /\ req[r].value
       \/ \E r \in Requests : req[r].op = "update" /\ ~ req[r].value
       \/ stops > 0
===============================================================================
