------------------------------ MODULE Compliance -------------------------------
(***************************************************************************)
(* What each application makes of a driver's papers and of those of the     *)
(* vehicle: every kind of document, its review, its expiry as time passes,  *)
(* the flags saved on the user and on the vehicle, and the five answers the *)
(* two applications compute, each by its own rules.                         *)
(*                                                                         *)
(* A request is one step here: how requests interleave is in Documents.     *)
(* A paper is the active version of its kind; the only thing that an older  *)
(* version still does is to have the flags counted when it is reviewed.     *)
(***************************************************************************)
EXTENDS Naturals, FiniteSets

CONSTANT Files          \* the sets of papers that are followed together

VARIABLES
    paper,          \* the active document of each kind
    followed,       \* the papers that this behaviour is about
    older,          \* some document has been replaced or deleted
    driver,         \* hasCompleteDocumentation and isDriverVerified of the user
    car,            \* the vehicle: its type, its status and its flag
    counted         \* history: the vehicle's papers are as they were last counted

compVars == <<paper, followed, older, driver, car, counted>>

--------------------------------------------------------------------------------
DriverTypes == {"NRIC", "PASSPORT", "DRIVING_LICENSE", "PSV_LICENSE", "BANK_DETAILS", "OKU_CARD"}
VehicleTypes == {"ROAD_TAX", "GRANT", "CAR_INSURANCE", "E_HAILING_INSURANCE", "KAD_PEMANDU",
                 "TAXI_PERMIT_VEHICLE", "PUSPAKOM_INSPECTION", "CAR_RENTAL_AGREEMENT",
                 "AUTHORIZATION_LETTER"}
Types == DriverTypes \cup VehicleTypes

ASSUME FilesAssumption == Files \subseteq ((SUBSET DriverTypes) \cup (SUBSET VehicleTypes))

(* The day a document expires: past, within 30 days, later, or no day. *)
Expiries == {"none", "past", "soon", "later"}
Dates == {"past", "soon", "later"}
Ahead == {"soon", "later"}

Statuses == {"not_uploaded", "PENDING", "VERIFIED", "REJECTED"}
Paper == [status : Statuses, expiry : Expiries]
NoPaper == [status |-> "not_uploaded", expiry |-> "none"]

Uploaded(t) == paper[t].status /= "not_uploaded"
Verified(t) == paper[t].status = "VERIFIED"
Rejected(t) == paper[t].status = "REJECTED"
Pending(t)  == paper[t].status = "PENDING"

HasExpiry == Types \ {"NRIC", "BANK_DETAILS", "OKU_CARD", "GRANT"}

--------------------------------------------------------------------------------
(* The requirements: the same table of a driver's documents stands in both    *)
(* applications; of a vehicle's, the driver's application has one list for    *)
(* taxis and one for the others, the administrators' has one for all.         *)

DriverRequired == DriverTypes \ {"OKU_CARD"}

CarRequired == {"ROAD_TAX", "GRANT", "CAR_INSURANCE", "PUSPAKOM_INSPECTION"}
TaxiRequired == CarRequired \cup {"KAD_PEMANDU", "TAXI_PERMIT_VEHICLE"}

GetRequiredDocumentTypes(taxi) == IF taxi THEN TaxiRequired ELSE CarRequired

AdminRequired == {"ROAD_TAX", "GRANT", "CAR_INSURANCE", "PUSPAKOM_INSPECTION"}

Expired(t) == paper[t].expiry = "past"
ExpiringSoon(t) == paper[t].expiry = "soon"

--------------------------------------------------------------------------------
(* The counts that write the flags. *)

(* updateDriverDocumentCompletionStatus: verified and not expired. *)
DriverComplete(papers) ==
    \A t \in DriverRequired : papers[t].status = "VERIFIED" /\ papers[t].expiry /= "past"

(* checkDocumentCompleteness asks for the list without the vehicle's type. *)
CheckDocumentCompleteness(papers) ==
    \A t \in GetRequiredDocumentTypes(FALSE) : papers[t].status = "VERIFIED"

(* Mutant: an expired document is not complete, as it is for a driver. *)
AdminVehicleCompleteUnexpired(papers) ==
    \A t \in AdminRequired : papers[t].status = "VERIFIED" /\ papers[t].expiry /= "past"

AdminVehicleComplete(papers) == \A t \in AdminRequired : papers[t].status = "VERIFIED"

(* The papers that are followed are not there yet; the others were reviewed,  *)
(* and the flags counted.                                                     *)
CompInit ==
    /\ followed \in Files
    /\ paper = [t \in Types |-> IF t \in followed THEN NoPaper
                                ELSE [status |-> "VERIFIED",
                                      expiry |-> IF t \in HasExpiry THEN "later" ELSE "none"]]
    /\ older = FALSE
    /\ driver = [complete |-> DriverComplete(paper), verified |-> DriverComplete(paper)]
    /\ \E taxi \in BOOLEAN :
         car = [taxi |-> taxi, status |-> "PENDING", complete |-> AdminVehicleComplete(paper)]
    /\ counted = TRUE

UpdateDriverDocumentCompletionStatus ==
    /\ driver' = [complete |-> DriverComplete(paper'), verified |-> DriverComplete(paper')]
    /\ UNCHANGED <<car, counted>>

(* The price of a permit, which a complete vehicle gets here too, is left out. *)
UpdateVehicleDocumentCompletionStatus ==
    /\ car' = [car EXCEPT !.complete = AdminVehicleComplete(paper')]
    /\ counted' = TRUE
    /\ UNCHANGED driver

UpdateVehicleDocumentationStatus ==
    /\ car' = [car EXCEPT !.complete = CheckDocumentCompleteness(paper')]
    /\ counted' = TRUE
    /\ UNCHANGED driver

Write(t, status, expiry) ==
    paper' = [paper EXCEPT ![t] = [status |-> status, expiry |-> expiry]]

(* A change of the driver leaves the flags of the driver to the next review. *)
UncountedChange == UNCHANGED <<driver, car, counted>>

--------------------------------------------------------------------------------
(* The driver's documents.  An upload replaces the version there is, whatever *)
(* its status; an edit is of an unverified document.                          *)

Upload(t, e) ==
    /\ t \in followed
    /\ Write(t, "PENDING", e)
    /\ older' = (older \/ Uploaded(t))
    /\ UNCHANGED followed

Edit(t, e) ==
    /\ t \in followed /\ Uploaded(t) /\ ~ Verified(t)
    /\ Write(t, "PENDING", e)
    /\ UNCHANGED <<followed, older>>

UploadNRICDocument           == Upload("NRIC", "none") /\ UncountedChange
UploadBankDetailsDocument    == Upload("BANK_DETAILS", "none") /\ UncountedChange
UploadOKUCardDocument        == Upload("OKU_CARD", "none") /\ UncountedChange
UploadPassportDocument       == (\E e \in Ahead : Upload("PASSPORT", e)) /\ UncountedChange
UploadDrivingLicenseDocument == (\E e \in Ahead : Upload("DRIVING_LICENSE", e)) /\ UncountedChange
UploadPSVLicenseDocument     == (\E e \in Ahead : Upload("PSV_LICENSE", e)) /\ UncountedChange

UpdateNRICDocument           == Edit("NRIC", "none") /\ UncountedChange
UpdateBankDetailsDocument    == Edit("BANK_DETAILS", "none") /\ UncountedChange
UpdateOKUCardDocument        == Edit("OKU_CARD", "none") /\ UncountedChange
UpdatePassportDocument       == (\E e \in Ahead : Edit("PASSPORT", e)) /\ UncountedChange
UpdateDrivingLicenseDocument == (\E e \in Ahead : Edit("DRIVING_LICENSE", e)) /\ UncountedChange
UpdatePSVLicenseDocument     == (\E e \in Ahead : Edit("PSV_LICENSE", e)) /\ UncountedChange

(* Administrators review any document that was uploaded, whatever its status. *)
Review(t, status) ==
    /\ t \in followed /\ Uploaded(t)
    /\ Write(t, status, paper[t].expiry)
    /\ UNCHANGED <<followed, older>>

ApproveDriverDocument ==
    (\E t \in DriverTypes : Review(t, "VERIFIED")) /\ UpdateDriverDocumentCompletionStatus
RejectDriverDocument ==
    (\E t \in DriverTypes : Review(t, "REJECTED")) /\ UpdateDriverDocumentCompletionStatus

(* The document named is an older version. *)
ReviewOlder ==
    /\ older
    /\ UNCHANGED <<paper, followed, older>>
    /\ \/ followed \subseteq DriverTypes /\ UpdateDriverDocumentCompletionStatus
       \/ followed \subseteq VehicleTypes /\ UpdateVehicleDocumentCompletionStatus

--------------------------------------------------------------------------------
(* The vehicle's documents: every change by the driver is counted.           *)

Optional == Expiries

UploadRoadTaxDocument      == (\E e \in Dates : Upload("ROAD_TAX", e)) /\ UpdateVehicleDocumentationStatus
UploadCarInsuranceDocument == (\E e \in Dates : Upload("CAR_INSURANCE", e)) /\ UpdateVehicleDocumentationStatus
UploadKadPemanduDocument   == (\E e \in Dates : Upload("KAD_PEMANDU", e)) /\ UpdateVehicleDocumentationStatus
UploadTaxiPermitDocument   == (\E e \in Dates : Upload("TAXI_PERMIT_VEHICLE", e)) /\ UpdateVehicleDocumentationStatus
UploadGrantDocument        == Upload("GRANT", "none") /\ UpdateVehicleDocumentationStatus
UploadPuspakomInspectionDocument ==
    (\E e \in Optional : Upload("PUSPAKOM_INSPECTION", e)) /\ UpdateVehicleDocumentationStatus
UploadEHailingInsuranceDocument ==
    (\E e \in Optional : Upload("E_HAILING_INSURANCE", e)) /\ UpdateVehicleDocumentationStatus
UploadCarRentalAgreementDocument ==
    (\E e \in Optional : Upload("CAR_RENTAL_AGREEMENT", e)) /\ UpdateVehicleDocumentationStatus
UploadAuthorizationLetterDocument ==
    (\E e \in Optional : Upload("AUTHORIZATION_LETTER", e)) /\ UpdateVehicleDocumentationStatus

(* A day that is not given is not written, and a grant's form has none: the   *)
(* one there was stays.                                                       *)
OptionalEdit(t) == \E e \in Dates \cup {paper[t].expiry} : Edit(t, e)

UpdateRoadTaxDocument      == (\E e \in Dates : Edit("ROAD_TAX", e)) /\ UpdateVehicleDocumentationStatus
UpdateCarInsuranceDocument == (\E e \in Dates : Edit("CAR_INSURANCE", e)) /\ UpdateVehicleDocumentationStatus
UpdateKadPemanduDocument   == (\E e \in Dates : Edit("KAD_PEMANDU", e)) /\ UpdateVehicleDocumentationStatus
UpdateTaxiPermitDocument   == (\E e \in Dates : Edit("TAXI_PERMIT_VEHICLE", e)) /\ UpdateVehicleDocumentationStatus
UpdateGrantDocument        == Edit("GRANT", paper["GRANT"].expiry) /\ UpdateVehicleDocumentationStatus
UpdatePuspakomInspectionDocument  == OptionalEdit("PUSPAKOM_INSPECTION") /\ UpdateVehicleDocumentationStatus
UpdateEHailingInsuranceDocument   == OptionalEdit("E_HAILING_INSURANCE") /\ UpdateVehicleDocumentationStatus
UpdateCarRentalAgreementDocument  == OptionalEdit("CAR_RENTAL_AGREEMENT") /\ UpdateVehicleDocumentationStatus
UpdateAuthorizationLetterDocument == OptionalEdit("AUTHORIZATION_LETTER") /\ UpdateVehicleDocumentationStatus

(* The older endpoint for all kinds: four of them pass its validation and are *)
(* then "Unsupported".  A general expiry date may be given with any.          *)
Supported == {"CAR_INSURANCE", "CAR_RENTAL_AGREEMENT", "PUSPAKOM_INSPECTION",
              "TAXI_PERMIT_VEHICLE", "AUTHORIZATION_LETTER"}

CreateVehicleDocument ==
    /\ \E t \in Supported :
         \E e \in (IF t \in {"CAR_INSURANCE", "TAXI_PERMIT_VEHICLE"} THEN Dates ELSE Optional) : Upload(t, e)
    /\ UpdateVehicleDocumentationStatus

(* ... and an edit, of any kind: with nothing but a file name or the details   *)
(* of another kind it leaves the document as it is, and counts.               *)
UpdateVehicleDocument ==
    /\ \/ \E t \in VehicleTypes, e \in Dates : Edit(t, e)
       \/ \E t \in Supported : OptionalEdit(t)
       \/ /\ \E t \in VehicleTypes : t \in followed /\ Uploaded(t) /\ ~ Verified(t)
          /\ UNCHANGED <<paper, followed, older>>
    /\ UpdateVehicleDocumentationStatus

(* Mutant: the document keeps its date. *)
DeleteKeepsDate ==
    /\ \E t \in VehicleTypes :
         /\ t \in followed /\ Uploaded(t) /\ ~ Verified(t)
         /\ Write(t, "not_uploaded", paper[t].expiry)
    /\ older' = TRUE
    /\ UNCHANGED followed
    /\ UpdateVehicleDocumentationStatus

DeleteVehicleDocument ==
    /\ \E t \in VehicleTypes :
         /\ t \in followed /\ Uploaded(t) /\ ~ Verified(t)
         /\ paper' = [paper EXCEPT ![t] = NoPaper]
    /\ older' = TRUE
    /\ UNCHANGED followed
    /\ UpdateVehicleDocumentationStatus

ApproveVehicleDocument ==
    (\E t \in VehicleTypes : Review(t, "VERIFIED")) /\ UpdateVehicleDocumentCompletionStatus

(* A rejection counts nothing. *)
RejectVehicleDocument ==
    /\ \E t \in VehicleTypes : Review(t, "REJECTED")
    /\ counted' = FALSE
    /\ UNCHANGED <<driver, car>>

--------------------------------------------------------------------------------
(* The vehicle, and time *)

OfVehicle(step) ==
    /\ followed \subseteq VehicleTypes
    /\ step
    /\ UNCHANGED <<paper, followed, older, driver>>

UpdateVehicleType ==
    OfVehicle(car' = [car EXCEPT !.taxi = ~ @] /\ UNCHANGED counted)

(* A grant is not supposed to expire: the day that the general edit may have  *)
(* written on one is not looked at.                                           *)
ExpiredRequired == {t \in AdminRequired \cap HasExpiry : Expired(t)}

(* getVehicleDocuments: the administrators' answer, expiry included. *)
AdminVehicleAnswer ==
    CASE AdminVehicleComplete(paper) /\ ExpiredRequired = {} -> "complete"
      [] ExpiredRequired /= {}                               -> "expired"
      [] OTHER -> IF \E t \in VehicleTypes : Rejected(t) THEN "rejected"
                  ELSE IF \A t \in VehicleTypes : ~ Uploaded(t) THEN "not_started"
                  ELSE "incomplete"

ApproveVehicle == OfVehicle(
    /\ ~ (car.complete /\ car.status = "VERIFIED")
    /\ AdminVehicleAnswer = "complete"
    /\ car' = [car EXCEPT !.status = "VERIFIED", !.complete = TRUE]
    /\ counted' = TRUE)

RejectVehicle == OfVehicle(
    /\ car' = [car EXCEPT !.status = "REJECTED", !.complete = FALSE]
    /\ counted' = FALSE)

VerifyDriver ==
    /\ followed \subseteq DriverTypes
    /\ \E verified \in BOOLEAN : driver' = [complete |-> verified, verified |-> verified]
    /\ UNCHANGED <<paper, followed, older, car, counted>>

TimePasses ==
    /\ \E t \in followed :
         \/ paper[t].expiry = "later" /\ paper' = [paper EXCEPT ![t].expiry = "soon"]
         \/ paper[t].expiry = "soon"  /\ paper' = [paper EXCEPT ![t].expiry = "past"]
    /\ UNCHANGED <<followed, older, driver, car, counted>>

(* The routes: what each controller lets a driver or an administrator do. *)
IdentityRoutes ==
    \/ UploadNRICDocument \/ UpdateNRICDocument
    \/ UploadPassportDocument \/ UpdatePassportDocument

LicenceRoutes ==
    \/ UploadPSVLicenseDocument \/ UpdatePSVLicenseDocument
    \/ UploadDrivingLicenseDocument \/ UpdateDrivingLicenseDocument

CardAndBankRoutes ==
    \/ UploadOKUCardDocument \/ UpdateOKUCardDocument
    \/ UploadBankDetailsDocument \/ UpdateBankDetailsDocument

InsuranceRoutes ==
    \/ UploadCarInsuranceDocument \/ UpdateCarInsuranceDocument
    \/ UploadCarRentalAgreementDocument \/ UpdateCarRentalAgreementDocument

InspectionRoutes ==
    \/ UploadPuspakomInspectionDocument \/ UpdatePuspakomInspectionDocument
    \/ UploadTaxiPermitDocument \/ UpdateTaxiPermitDocument

LetterRoutes == UploadAuthorizationLetterDocument \/ UpdateAuthorizationLetterDocument

RegistrationRoutes ==
    \/ UploadRoadTaxDocument \/ UpdateRoadTaxDocument
    \/ UploadGrantDocument \/ UpdateGrantDocument
    \/ UploadEHailingInsuranceDocument \/ UpdateEHailingInsuranceDocument
    \/ UploadKadPemanduDocument \/ UpdateKadPemanduDocument

AnyKindRoutes == CreateVehicleDocument \/ UpdateVehicleDocument \/ DeleteVehicleDocument

ReviewRoutes ==
    \/ VerifyDriver \/ ApproveDriverDocument \/ RejectDriverDocument
    \/ ApproveVehicle \/ RejectVehicle
    \/ ApproveVehicleDocument \/ RejectVehicleDocument \/ ReviewOlder

CompNext ==
    \/ IdentityRoutes \/ LicenceRoutes \/ CardAndBankRoutes
    \/ InsuranceRoutes \/ InspectionRoutes \/ LetterRoutes \/ RegistrationRoutes
    \/ AnyKindRoutes \/ ReviewRoutes
    \/ UpdateVehicleType \/ TimePasses

CompSpec == CompInit /\ [][CompNext]_compVars

--------------------------------------------------------------------------------
(* What the applications answer about a driver. *)

(* getDriverDocuments of the administrators *)
AdminDriverAnswer ==
    CASE \A t \in DriverRequired : Verified(t) /\ ~ Expired(t) -> "complete"
      [] \E t \in DriverRequired : Expired(t)                   -> "expired"
      [] OTHER -> IF \E t \in DriverTypes : Rejected(t) THEN "rejected"
                  ELSE IF \A t \in DriverTypes : ~ Uploaded(t) THEN "not_started"
                  ELSE "incomplete"

(* getDocumentVerificationStatus of the driver's application: no expiry. *)
DriverSummary ==
    CASE \A t \in DriverRequired : Verified(t) -> "verified"
      [] OTHER -> IF \E t \in DriverTypes : Rejected(t) THEN "rejected"
                  ELSE IF \A t \in DriverRequired : Uploaded(t) THEN "pending"
                  ELSE "incomplete"

(* getMissingDocuments, getRejectedDocuments, getExpiringDocuments *)
MissingDocuments == {t \in DriverRequired : ~ Uploaded(t)}
RejectedDocuments == {t \in DriverTypes : Rejected(t)}
ExpiringDocuments == {t \in DriverTypes : ExpiringSoon(t) /\ Verified(t)}

(* getUploadProgress *)
UploadProgress ==
    CASE DriverSummary = "incomplete" -> [nextStep |-> "upload", canProceed |-> FALSE]
      [] DriverSummary = "rejected"   -> [nextStep |-> "re-upload", canProceed |-> FALSE]
      [] DriverSummary = "pending"    -> [nextStep |-> "wait", canProceed |-> FALSE]
      [] DriverSummary = "verified"   -> [nextStep |-> "verified", canProceed |-> TRUE]

(* Mutant: an expired document does not block. *)
BlockersUnexpired == {t \in DriverRequired : ~ Uploaded(t) \/ Rejected(t)}

(* getDetailedComplianceReport, and what it marks as blocking *)
Blockers == {t \in DriverRequired : ~ Uploaded(t) \/ Rejected(t) \/ Expired(t)}
IsBlocking(t) == t \in DriverRequired /\ (~ Uploaded(t) \/ Rejected(t) \/ Expired(t))
Compliant == {t \in DriverRequired : Verified(t) /\ ~ ExpiringSoon(t)}
CanReupload(t) == ~ Verified(t) \/ ExpiringSoon(t)

ComplianceStatus ==
    CASE Blockers /= {}             -> "non_compliant"
      [] OTHER -> IF Compliant = DriverRequired THEN "compliant"
                  ELSE IF MissingDocuments = {} THEN "pending" ELSE "incomplete"

IsDriverFullyVerified == ComplianceStatus = "compliant" /\ Blockers = {}

--------------------------------------------------------------------------------
(* ... and about a vehicle. *)

(* getVehicleDocumentsSummary: what is required goes by the vehicle's type. *)
Required == GetRequiredDocumentTypes(car.taxi)
Visible == {"ROAD_TAX", "GRANT", "E_HAILING_INSURANCE", "CAR_INSURANCE", "PUSPAKOM_INSPECTION"}
            \cup (IF car.taxi THEN {"KAD_PEMANDU", "TAXI_PERMIT_VEHICLE"} ELSE {})

VehicleSummary ==
    CASE \A t \in Required : Verified(t) -> "verified"
      [] OTHER -> IF \E t \in VehicleTypes : Rejected(t) THEN "rejected"
                  ELSE IF \A t \in Required : Uploaded(t) THEN "pending"
                  ELSE "incomplete"

(* getVehicleDocumentationProgress: a rejected paper that is not visible     *)
(* leaves the driver without a next step.                                    *)
VehicleProgress ==
    LET missing  == {t \in Required : ~ Uploaded(t)}
        rejected == {t \in Visible : Rejected(t)}
        Next(step, proceed) == [nextStep |-> step, canProceed |-> proceed]
    IN CASE missing /= {} -> Next("upload", FALSE)
         [] OTHER -> IF rejected /= {} THEN Next("re-upload", FALSE)
                     ELSE IF VehicleSummary = "pending" THEN Next("wait", FALSE)
                     ELSE IF VehicleSummary = "verified" THEN Next("verified", TRUE)
                     ELSE Next("none", FALSE)

(* getExpiringDriverVehicleDocuments *)
ExpiringVehicleDocuments == {t \in VehicleTypes : ExpiringSoon(t) /\ Verified(t)}

--------------------------------------------------------------------------------
(* ... and about both. *)

(* The driver's profile (getUser): whether he may go online, and what stands  *)
(* in the way.  The status that getBlockingItems looks for is no VehicleStatus, *)
(* so the vehicle always does.                                                *)
ProfileComplete == DriverSummary = "verified"
CanDriverGoOnline == ProfileComplete /\ car.status = "VERIFIED" /\ car.complete
BlockingItems == (IF ProfileComplete THEN {} ELSE Blockers) \cup {"no verified vehicle"}

(* getEvpEligibleDrivers: by the flags, and whatever permit there is. *)
EvpEligible == driver.verified /\ driver.complete /\ car.complete

--------------------------------------------------------------------------------
(* Papers, flags and the vehicle are well formed: a day of expiry is only on  *)
(* papers that have one, and nothing is known of a paper that is not there.   *)
CompTypeOK ==
    /\ followed \in Files /\ older \in BOOLEAN /\ counted \in BOOLEAN
    /\ paper \in [Types -> Paper]
    /\ \A t \in Types : (Uploaded(t) \/ paper[t] = NoPaper)
                        /\ (t \notin HasExpiry /\ t \in DriverTypes => paper[t].expiry = "none")
    /\ driver \in [complete : BOOLEAN, verified : BOOLEAN]
    /\ car \in [taxi : BOOLEAN, status : {"PENDING", "VERIFIED", "REJECTED"},
                complete : BOOLEAN]

(* The applications never contradict each other in the driver's favour: whom  *)
(* the driver's application calls fully verified (isDriverFullyVerified) the  *)
(* administrators' calls complete, and whom that calls complete may proceed   *)
(* (getUploadProgress); the report blocks exactly where it says so, offers    *)
(* every paper that is about to expire for a new upload, and never asks to    *)
(* wait for a paper that is expired.  A vehicle that is complete for the      *)
(* administrators (getVehicleDocuments) is complete for the count of the      *)
(* driver's application (checkDocumentCompleteness), as is one whose summary  *)
(* is verified; it has no required paper out of date, save a grant that the   *)
(* driver dated himself (updateVehicleDocument): past that day it stays       *)
(* complete and approvable; a vehicle that may proceed is verified; and the   *)
(* only one without a next step has a rejected paper that its summary does    *)
(* not show.                                                                  *)
(* Whom the profile lets go online, nothing but an expired paper blocks, and   *)
(* the vehicle he or a permit is offered for lacks, when it was counted,       *)
(* nothing but a renewal.                                                     *)
AnswersAgree ==
    /\ IsDriverFullyVerified => AdminDriverAnswer = "complete"
    /\ AdminDriverAnswer = "complete" => UploadProgress.canProceed
    /\ Blockers = {t \in DriverTypes : IsBlocking(t)}
    /\ \A t \in ExpiringDocuments : CanReupload(t) /\ t \notin Compliant
    /\ MissingDocuments \cup (RejectedDocuments \cap DriverRequired) \subseteq Blockers
    /\ AdminDriverAnswer = "expired" => ComplianceStatus = "non_compliant"
    /\ AdminVehicleAnswer = "complete" => CheckDocumentCompleteness(paper)
    /\ AdminVehicleAnswer = "complete" => {t \in AdminRequired : Expired(t)} \subseteq {"GRANT"}
    /\ VehicleSummary = "verified" => CheckDocumentCompleteness(paper)
    /\ VehicleProgress.canProceed => VehicleSummary = "verified"
    /\ VehicleProgress.nextStep = "none" => \E t \in VehicleTypes \ Visible : Rejected(t)
    /\ AdminVehicleAnswer = "complete" => ExpiringVehicleDocuments \cap AdminRequired
                                            = {t \in AdminRequired : ExpiringSoon(t)}
    /\ CanDriverGoOnline => /\ UploadProgress.canProceed /\ BlockingItems \cap Types = {}
                            /\ Blockers \subseteq {t \in DriverTypes : Expired(t)}
    /\ counted /\ (CanDriverGoOnline \/ EvpEligible) => AdminVehicleAnswer \in {"complete", "expired"}

(* The flag hasCompleteDocumentation of a vehicle does not depend on which    *)
(* application counted, nor on the time: unless a document, or the vehicle,   *)
(* was rejected since, it says what either count finds now.                   *)
CountsAgree ==
    counted => /\ car.complete = CheckDocumentCompleteness(paper)
               /\ car.complete = AdminVehicleComplete(paper)
================================================================================
