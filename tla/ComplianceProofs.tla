--------------------------- MODULE ComplianceProofs ----------------------------
(***************************************************************************)
(* Theorems about Compliance, for any papers followed together.             *)
(*                                                                         *)
(* Every request of a driver or an administrator writes at most one paper,  *)
(* and then either counts the papers of the vehicle again, or says that     *)
(* they are not counted, or writes no paper that is counted: one lemma says *)
(* which step does what, and the invariants follow from what each kind of   *)
(* step does to the papers and to the vehicle.                              *)
(***************************************************************************)
EXTENDS Compliance, TLAPS

CompInv == CompTypeOK /\ CountsAgree

Car == [taxi : BOOLEAN, status : {"PENDING", "VERIFIED", "REJECTED"}, complete : BOOLEAN]

(* Each application counts the same papers. *)
AllVerified == \A t \in AdminRequired : Verified(t)

LEMMA SamePapers ==
    /\ GetRequiredDocumentTypes(FALSE) = AdminRequired
    /\ AdminRequired \subseteq VehicleTypes
BY DEF GetRequiredDocumentTypes, CarRequired, AdminRequired, VehicleTypes

LEMMA DriversPapers == DriverRequired \subseteq DriverTypes
BY DEF DriverRequired

(* Kinds of papers are of a driver or of a vehicle. *)
LEMMA KindsApart == DriverTypes \cap VehicleTypes = {}
BY DEF DriverTypes, VehicleTypes

(* At most one of the papers in T is written: it is uploaded, edited,        *)
(* reviewed, older by a day, or removed.                                      *)
PaperWritten(t, e) ==
    /\ e \in Paper
    /\ e.status = "not_uploaded" => e = NoPaper
    /\ t \in DriverTypes \ HasExpiry => e.expiry = "none"
    /\ paper' = [paper EXCEPT ![t] = e]

PaperStep(T) == paper' = paper \/ \E t \in T, e \in Paper : PaperWritten(t, e)

(* The counts of both applications. *)
Counted ==
    /\ counted' = TRUE
    /\ car' \in Car
    /\ car'.complete = AllVerified'

(* What a step does to the vehicle, when it does not count. *)
Uncounted ==
    /\ car' \in Car
    /\ car'.complete = car.complete \/ counted' = FALSE
    /\ counted' \in BOOLEAN /\ (counted' => counted)

DriverStep ==
    /\ PaperStep(DriverTypes)
    /\ older' \in BOOLEAN /\ driver' \in [complete : BOOLEAN, verified : BOOLEAN]
    /\ UNCHANGED <<followed, car, counted>>

VehicleStep ==
    /\ PaperStep(VehicleTypes)
    /\ older' \in BOOLEAN
    /\ UNCHANGED <<followed, driver>>
    /\ Counted \/ (counted' = FALSE /\ car' = car)

(* A step about the vehicle or the day. *)
OtherStep ==
    /\ PaperStep(Types) /\ \A t \in Types : paper'[t].status = paper[t].status
    /\ older' \in BOOLEAN
    /\ UNCHANGED <<followed, driver>>
    /\ Counted \/ Uncounted

-------------------------------------------------------------------------------
(* What the parts of the requests do. *)

LEMMA CountsCount ==
    ASSUME CompInv,
           UpdateVehicleDocumentCompletionStatus \/ UpdateVehicleDocumentationStatus
    PROVE  Counted /\ UNCHANGED driver
<1>1. car \in Car /\ AllVerified' \in BOOLEAN
    BY DEF CompInv, CompTypeOK, Car, AllVerified
<1>2. CheckDocumentCompleteness(paper') = AllVerified' /\ AdminVehicleComplete(paper') = AllVerified'
    BY SamePapers DEF CheckDocumentCompleteness, AdminVehicleComplete, AllVerified, Verified
<1>3. car' = [car EXCEPT !.complete = AllVerified'] /\ counted' = TRUE /\ UNCHANGED driver
    BY <1>2 DEF UpdateVehicleDocumentCompletionStatus, UpdateVehicleDocumentationStatus
<1>4. car' \in Car /\ car'.complete = AllVerified'
    BY <1>1, <1>3 DEF Car
<1> QED BY <1>3, <1>4 DEF Counted

(* An upload or an edit, on a day of its kind, and a review. *)
LEMMA WritesOnePaper ==
    ASSUME CompInv, NEW t \in Types, NEW e \in Expiries,
           t \in DriverTypes \ HasExpiry => e = "none",
           \/ Upload(t, e) \/ Edit(t, e)
           \/ \E s \in {"VERIFIED", "REJECTED"} : Review(t, s)
    PROVE  /\ \E new \in Paper : PaperWritten(t, new)
           /\ older' \in BOOLEAN /\ UNCHANGED followed
<1>1. /\ paper \in [Types -> Paper] /\ older \in BOOLEAN
      /\ t \in DriverTypes \ HasExpiry => paper[t].expiry = "none"
    BY DEF CompInv, CompTypeOK
<1>2. ASSUME NEW s \in {"PENDING", "VERIFIED", "REJECTED"}, NEW x \in Expiries, Write(t, s, x),
             t \in DriverTypes \ HasExpiry => x = "none"
      PROVE  \E new \in Paper : PaperWritten(t, new)
  <2>1. [status |-> s, expiry |-> x] \in Paper
    BY DEF Paper, Statuses
  <2>2. PaperWritten(t, [status |-> s, expiry |-> x])
    BY <1>2, <2>1 DEF Write, PaperWritten
  <2> QED BY <2>1, <2>2
<1>3. paper[t].expiry \in Expiries
    BY <1>1 DEF Paper
<1>4. Uploaded(t) \in BOOLEAN
    BY DEF Uploaded
<1> QED BY <1>1, <1>2, <1>3, <1>4 DEF Upload, Edit, Review

(* The routes of a driver's documents, and their reviews. *)
LEMMA DriverRoutesStep ==
    ASSUME CompInv,
           \/ IdentityRoutes \/ LicenceRoutes \/ CardAndBankRoutes
           \/ ApproveDriverDocument \/ RejectDriverDocument
    PROVE  DriverStep
<1>1. ASSUME NEW t \in DriverTypes, NEW e \in Expiries, Upload(t, e) \/ Edit(t, e),
             t \notin HasExpiry => e = "none", UncountedChange
      PROVE  DriverStep
  <2>1. t \in Types /\ driver \in [complete : BOOLEAN, verified : BOOLEAN]
    BY DEF Types, CompInv, CompTypeOK
  <2>2. (\E new \in Paper : PaperWritten(t, new)) /\ older' \in BOOLEAN /\ UNCHANGED followed
    BY <1>1, <2>1, WritesOnePaper
  <2> QED BY <1>1, <2>1, <2>2 DEF UncountedChange, DriverStep, PaperStep
<1>2. ASSUME NEW t \in DriverTypes, NEW s \in {"VERIFIED", "REJECTED"}, Review(t, s),
             UpdateDriverDocumentCompletionStatus
      PROVE  DriverStep
  <2>1. t \in Types /\ paper[t].expiry \in Expiries
        /\ (t \notin HasExpiry => paper[t].expiry = "none")
    BY DEF Types, CompInv, CompTypeOK, Paper
  <2>2. (\E new \in Paper : PaperWritten(t, new)) /\ older' \in BOOLEAN /\ UNCHANGED followed
    BY <1>2, <2>1, WritesOnePaper
  <2>3. DriverComplete(paper') \in BOOLEAN
    BY DEF DriverComplete
  <2> QED BY <1>2, <2>2, <2>3
          DEF UpdateDriverDocumentCompletionStatus, DriverStep, PaperStep
<1>3. Ahead \subseteq Expiries /\ "none" \in Expiries
      /\ {"PASSPORT", "DRIVING_LICENSE", "PSV_LICENSE"} \subseteq HasExpiry \cap DriverTypes
      /\ {"NRIC", "BANK_DETAILS", "OKU_CARD"} \subseteq DriverTypes
    BY DEF Ahead, Expiries, HasExpiry, DriverTypes, Types
<1>4. CASE IdentityRoutes
    BY <1>1, <1>3, <1>4
       DEF IdentityRoutes, UploadNRICDocument, UpdateNRICDocument, UploadPassportDocument,
           UpdatePassportDocument
<1>5. CASE LicenceRoutes
    BY <1>1, <1>3, <1>5
       DEF LicenceRoutes, UploadPSVLicenseDocument, UpdatePSVLicenseDocument,
           UploadDrivingLicenseDocument, UpdateDrivingLicenseDocument
<1>6. CASE CardAndBankRoutes
    BY <1>1, <1>3, <1>6
       DEF CardAndBankRoutes, UploadOKUCardDocument, UpdateOKUCardDocument,
           UploadBankDetailsDocument, UpdateBankDetailsDocument
<1>7. CASE ApproveDriverDocument \/ RejectDriverDocument
    BY <1>2, <1>7 DEF ApproveDriverDocument, RejectDriverDocument
<1> QED BY <1>4, <1>5, <1>6, <1>7

(* The routes of a vehicle's documents, and their reviews. *)
LEMMA VehicleRoutesStep ==
    ASSUME CompInv,
           \/ InsuranceRoutes \/ InspectionRoutes \/ LetterRoutes \/ RegistrationRoutes
           \/ AnyKindRoutes \/ ApproveVehicleDocument \/ RejectVehicleDocument
    PROVE  VehicleStep
<1>0. VehicleTypes \subseteq Types /\ VehicleTypes \cap DriverTypes = {}
    BY KindsApart DEF Types
<1>1. ASSUME NEW t \in VehicleTypes, NEW e \in Expiries, Upload(t, e) \/ Edit(t, e),
             UpdateVehicleDocumentationStatus
      PROVE  VehicleStep
  <2>1. (\E new \in Paper : PaperWritten(t, new)) /\ older' \in BOOLEAN /\ UNCHANGED followed
    BY <1>0, <1>1, WritesOnePaper
  <2> QED BY <1>1, <2>1, CountsCount DEF VehicleStep, PaperStep
<1>2. ASSUME NEW t \in VehicleTypes, NEW s \in {"VERIFIED", "REJECTED"}, Review(t, s)
      PROVE  (\E new \in Paper : PaperWritten(t, new)) /\ older' \in BOOLEAN /\ UNCHANGED followed
  <2>1. "none" \in Expiries
    BY DEF Expiries
  <2> QED BY <1>0, <1>2, <2>1, WritesOnePaper
<1>3. /\ Dates \subseteq Expiries /\ Optional = Expiries /\ "none" \in Expiries
      /\ \A t \in VehicleTypes : paper[t].expiry \in Expiries
    BY <1>0 DEF Dates, Optional, Expiries, CompInv, CompTypeOK, Paper
<1>4. ASSUME NEW t \in VehicleTypes, OptionalEdit(t), UpdateVehicleDocumentationStatus
      PROVE  VehicleStep
    BY <1>1, <1>3, <1>4 DEF OptionalEdit
<1>t. /\ {"ROAD_TAX", "GRANT", "CAR_INSURANCE", "E_HAILING_INSURANCE", "KAD_PEMANDU",
          "TAXI_PERMIT_VEHICLE", "PUSPAKOM_INSPECTION", "CAR_RENTAL_AGREEMENT",
          "AUTHORIZATION_LETTER"} \subseteq VehicleTypes
      /\ Supported \subseteq VehicleTypes
    BY DEF VehicleTypes, Supported
<1>5. CASE InsuranceRoutes \/ LetterRoutes
    BY <1>1, <1>3, <1>4, <1>5, <1>t
       DEF InsuranceRoutes, LetterRoutes, UploadCarInsuranceDocument, UpdateCarInsuranceDocument,
           UploadCarRentalAgreementDocument, UpdateCarRentalAgreementDocument,
           UploadAuthorizationLetterDocument, UpdateAuthorizationLetterDocument
<1>6. CASE InspectionRoutes
    BY <1>1, <1>3, <1>4, <1>6, <1>t
       DEF InspectionRoutes, UploadPuspakomInspectionDocument, UpdatePuspakomInspectionDocument,
           UploadTaxiPermitDocument, UpdateTaxiPermitDocument
<1>7. CASE RegistrationRoutes
    BY <1>1, <1>3, <1>4, <1>7, <1>t
       DEF RegistrationRoutes, UploadRoadTaxDocument, UpdateRoadTaxDocument, UploadGrantDocument,
           UpdateGrantDocument, UploadEHailingInsuranceDocument, UpdateEHailingInsuranceDocument,
           UploadKadPemanduDocument, UpdateKadPemanduDocument
<1>8. CASE CreateVehicleDocument
    BY <1>1, <1>3, <1>8, <1>t DEF CreateVehicleDocument
<1>9. CASE UpdateVehicleDocument
  <2>1. CASE UNCHANGED <<paper, followed, older>> /\ UpdateVehicleDocumentationStatus
    <3>1. older \in BOOLEAN
      BY DEF CompInv, CompTypeOK
    <3> QED BY <2>1, <3>1, CountsCount DEF VehicleStep, PaperStep
  <2> QED BY <1>1, <1>3, <1>4, <1>9, <1>t, <2>1 DEF UpdateVehicleDocument
<1>10. CASE DeleteVehicleDocument
  <2>1. PICK t \in VehicleTypes : paper' = [paper EXCEPT ![t] = NoPaper]
    BY <1>10 DEF DeleteVehicleDocument
  <2>2. NoPaper \in Paper
    BY DEF NoPaper, Paper, Statuses, Expiries
  <2>3. PaperWritten(t, NoPaper)
    BY <1>0, <2>1, <2>2 DEF PaperWritten
  <2> QED BY <1>10, <2>2, <2>3, CountsCount DEF DeleteVehicleDocument, VehicleStep, PaperStep
<1>11. CASE ApproveVehicleDocument
    BY <1>2, <1>11, CountsCount DEF ApproveVehicleDocument, VehicleStep, PaperStep
<1>12. CASE RejectVehicleDocument
    BY <1>2, <1>12 DEF RejectVehicleDocument, VehicleStep, PaperStep
<1> QED BY <1>5, <1>6, <1>7, <1>8, <1>9, <1>10, <1>11, <1>12 DEF AnyKindRoutes

(* A paper that is complete for the administrators is complete for the count. *)
LEMMA CompleteAnswer == AdminVehicleAnswer = "complete" => AllVerified
BY DEF AdminVehicleAnswer, AdminVehicleComplete, AllVerified, Verified

(* The vehicle, a review of an older version, the driver's    *)
(* flags, and time.                                                           *)
LEMMA OthersStep ==
    ASSUME CompInv,
           \/ ApproveVehicle \/ RejectVehicle \/ ReviewOlder \/ VerifyDriver
           \/ UpdateVehicleType \/ TimePasses
    PROVE  OtherStep \/ DriverStep
<1>0. /\ car \in Car /\ older \in BOOLEAN /\ counted \in BOOLEAN
      /\ driver \in [complete : BOOLEAN, verified : BOOLEAN]
      /\ paper \in [Types -> Paper]
    BY DEF CompInv, CompTypeOK, Car
<1>1. ASSUME UNCHANGED <<paper, followed, older, driver>>, Counted \/ Uncounted
      PROVE  OtherStep
    BY <1>0, <1>1 DEF OtherStep, PaperStep
<1>2. CASE ApproveVehicle
  <2>1. AllVerified' /\ UNCHANGED <<paper, followed, older, driver>> /\ counted' = TRUE
    BY <1>2, CompleteAnswer DEF ApproveVehicle, OfVehicle, AllVerified, Verified
  <2>2. car' \in Car /\ car'.complete = TRUE
    BY <1>0, <1>2 DEF ApproveVehicle, OfVehicle, Car
  <2>3. Counted
    BY <2>1, <2>2 DEF Counted
  <2> QED BY <1>1, <2>1, <2>3
<1>3. CASE RejectVehicle
  <2>1. car' \in Car
    BY <1>0, <1>3 DEF RejectVehicle, OfVehicle, Car
  <2> QED BY <1>1, <1>3, <2>1 DEF RejectVehicle, OfVehicle, Uncounted
<1>4. CASE UpdateVehicleType
  <2>1. car' \in Car /\ car'.complete = car.complete
    BY <1>0, <1>4 DEF UpdateVehicleType, OfVehicle, Car
  <2> QED BY <1>0, <1>1, <1>4, <2>1 DEF UpdateVehicleType, OfVehicle, Uncounted
<1>5. CASE ReviewOlder
  <2>1. CASE UpdateDriverDocumentCompletionStatus
    <3>1. DriverComplete(paper') \in BOOLEAN
      BY DEF DriverComplete
    <3> QED BY <1>0, <1>5, <2>1, <3>1
            DEF ReviewOlder, UpdateDriverDocumentCompletionStatus, DriverStep, PaperStep
  <2>2. CASE UpdateVehicleDocumentCompletionStatus
    BY <1>1, <1>5, <2>2, CountsCount DEF ReviewOlder
  <2> QED BY <1>5, <2>1, <2>2 DEF ReviewOlder
<1>6. CASE VerifyDriver
    BY <1>0, <1>6 DEF VerifyDriver, DriverStep, PaperStep
<1>7. CASE TimePasses
  <2>1. PICK t \in Types, x \in {"soon", "past"} :
           paper[t].expiry \in {"soon", "later"} /\ paper' = [paper EXCEPT ![t].expiry = x]
    <3>0. followed \in (SUBSET DriverTypes) \cup (SUBSET VehicleTypes)
      BY FilesAssumption DEF CompInv, CompTypeOK
    <3>1. \A t \in followed : t \in Types
      BY <3>0 DEF Types
    <3>2. PICK t \in followed :
            \/ paper[t].expiry = "later" /\ paper' = [paper EXCEPT ![t].expiry = "soon"]
            \/ paper[t].expiry = "soon"  /\ paper' = [paper EXCEPT ![t].expiry = "past"]
      BY <1>7 DEF TimePasses
    <3> t \in Types
      BY <3>1
    <3>3. CASE paper[t].expiry = "later" /\ paper' = [paper EXCEPT ![t].expiry = "soon"]
      BY <3>3
    <3>4. CASE paper[t].expiry = "soon" /\ paper' = [paper EXCEPT ![t].expiry = "past"]
      BY <3>4
    <3> QED BY <3>2, <3>3, <3>4
  <2> DEFINE e == [paper[t] EXCEPT !.expiry = x]
  <2>2. /\ e \in Paper /\ e.status = paper[t].status /\ paper' = [paper EXCEPT ![t] = e]
        /\ e.status = "not_uploaded" => e = NoPaper
        /\ t \notin DriverTypes \ HasExpiry
    BY <1>0, <2>1 DEF Paper, Expiries, CompInv, CompTypeOK, Uploaded, NoPaper
  <2>3. PaperWritten(t, e) /\ \A u \in Types : paper'[u].status = paper[u].status
    BY <1>0, <2>2 DEF PaperWritten
  <2>4. Uncounted /\ UNCHANGED <<followed, older, driver>>
    BY <1>0, <1>7 DEF TimePasses, Uncounted
  <2> QED BY <1>0, <2>2, <2>3, <2>4 DEF OtherStep, PaperStep
<1> QED BY <1>2, <1>3, <1>4, <1>5, <1>6, <1>7

LEMMA NextIsAStep ==
    ASSUME CompInv, CompNext
    PROVE  DriverStep \/ VehicleStep \/ OtherStep
BY DriverRoutesStep, VehicleRoutesStep, OthersStep DEF CompNext, ReviewRoutes

-------------------------------------------------------------------------------
(* What the steps do to the invariant. *)

LEMMA PapersKeepTheirType ==
    ASSUME CompInv, PaperStep(Types)
    PROVE  /\ paper' \in [Types -> Paper]
           /\ \A t \in Types :
                /\ Uploaded(t)' \/ paper'[t] = NoPaper
                /\ t \notin HasExpiry /\ t \in DriverTypes => paper'[t].expiry = "none"
<1>1. /\ paper \in [Types -> Paper]
      /\ \A t \in Types :
           /\ paper[t].status /= "not_uploaded" \/ paper[t] = NoPaper
           /\ t \notin HasExpiry /\ t \in DriverTypes => paper[t].expiry = "none"
    BY DEF CompInv, CompTypeOK, Uploaded
<1>2. CASE paper' = paper
    BY <1>1, <1>2 DEF Uploaded
<1>3. CASE \E t \in Types, e \in Paper : PaperWritten(t, e)
  <2>1. PICK t \in Types, e \in Paper : PaperWritten(t, e)
    BY <1>3
  <2> QED BY <1>1, <2>1 DEF PaperWritten, Uploaded
<1> QED BY <1>2, <1>3 DEF PaperStep

(* The papers that are counted are verified before and after a step that     *)
(* writes none of them, or no status.                                        *)
LEMMA CountStays ==
    ASSUME CompInv,
           \/ PaperStep(DriverTypes)
           \/ PaperStep(Types) /\ \A t \in Types : paper'[t].status = paper[t].status
    PROVE  AllVerified' = AllVerified
<1>1. \A t \in AdminRequired : t \in Types /\ t \notin DriverTypes
    BY SamePapers, KindsApart DEF Types
<1>2. \A t \in AdminRequired : paper'[t].status = paper[t].status
  <2>1. CASE PaperStep(DriverTypes)
    BY <1>1, <2>1 DEF PaperStep, PaperWritten, CompInv, CompTypeOK
  <2> QED BY <1>1, <2>1
<1> QED BY <1>2 DEF AllVerified, Verified

LEMMA CountsAgreeIsOneCount == CountsAgree <=> (counted => car.complete = AllVerified)
BY SamePapers
   DEF CountsAgree, CheckDocumentCompleteness, AdminVehicleComplete, AllVerified, Verified

LEMMA CompInvInit == CompInit => CompInv
<1> SUFFICES ASSUME CompInit PROVE CompInv
    OBVIOUS
<1>1. paper \in [Types -> Paper] /\ NoPaper \in Paper
    BY DEF CompInit, Paper, NoPaper, Statuses, Expiries
<1>2. \A t \in Types : (Uploaded(t) \/ paper[t] = NoPaper)
                       /\ (t \notin HasExpiry /\ t \in DriverTypes => paper[t].expiry = "none")
    BY DEF CompInit, Uploaded, NoPaper
<1>3. DriverComplete(paper) \in BOOLEAN /\ AdminVehicleComplete(paper) = AllVerified
      /\ AllVerified \in BOOLEAN
    BY DEF DriverComplete, AdminVehicleComplete, AllVerified, Verified
<1>4. PICK taxi \in BOOLEAN : car = [taxi |-> taxi, status |-> "PENDING", complete |-> AllVerified]
    BY <1>3 DEF CompInit
<1>5. car \in Car /\ car.complete = AllVerified
    BY <1>3, <1>4 DEF Car
<1>6. CompTypeOK
    BY <1>1, <1>2, <1>3, <1>5 DEF CompInit, CompTypeOK, Car
<1> QED BY <1>5, <1>6, CountsAgreeIsOneCount DEF CompInv

LEMMA CompInvNext ==
    CompInv /\ [CompNext]_compVars => CompInv'
<1> SUFFICES ASSUME CompInv, [CompNext]_compVars PROVE CompInv'
    OBVIOUS
<1>0. /\ followed \in Files /\ counted \in BOOLEAN /\ car \in Car
      /\ driver \in [complete : BOOLEAN, verified : BOOLEAN]
      /\ counted => car.complete = AllVerified
    BY CountsAgreeIsOneCount DEF CompInv, CompTypeOK, Car
<1>w. DriverTypes \subseteq Types /\ VehicleTypes \subseteq Types
    BY DEF Types
<1>p. PaperStep(DriverTypes) \/ PaperStep(VehicleTypes) => PaperStep(Types)
    BY <1>w DEF PaperStep
<1>a. (CountsAgree <=> (counted => car.complete = AllVerified))'
    BY CountsAgreeIsOneCount, PTL
<1>u. CASE UNCHANGED compVars
    BY <1>u DEF compVars, CompInv, CompTypeOK, CountsAgree, Uploaded,
                CheckDocumentCompleteness, AdminVehicleComplete
<1>1. ASSUME PaperStep(Types), older' \in BOOLEAN, counted' \in BOOLEAN, followed' = followed,
             driver' \in [complete : BOOLEAN, verified : BOOLEAN], car' \in Car
      PROVE  CompTypeOK'
    BY <1>0, <1>1, PapersKeepTheirType DEF CompTypeOK, Car
<1>c. ASSUME Counted
      PROVE  /\ counted' \in BOOLEAN /\ car' \in Car
             /\ counted' => car'.complete = AllVerified'
    BY <1>0, <1>c DEF Counted
<1>2. CASE DriverStep
  <2>1. AllVerified' = AllVerified
    BY <1>2, CountStays DEF DriverStep
  <2>2. CompTypeOK'
    BY <1>0, <1>1, <1>2, <1>p DEF DriverStep
  <2> QED BY <1>0, <1>2, <1>a, <2>1, <2>2 DEF DriverStep, CompInv
<1>3. CASE VehicleStep
  <2>1. CompTypeOK'
    BY <1>0, <1>1, <1>3, <1>c, <1>p DEF VehicleStep
  <2> QED BY <1>0, <1>3, <1>a, <1>c, <2>1 DEF VehicleStep, CompInv
<1>4. CASE OtherStep
  <2>1. CASE Counted
    <3>1. CompTypeOK'
      BY <1>0, <1>1, <1>4, <1>c, <2>1 DEF OtherStep
    <3> QED BY <1>a, <1>c, <2>1, <3>1 DEF CompInv
  <2>2. CASE Uncounted
    <3>1. AllVerified' = AllVerified
      BY <1>4, CountStays DEF OtherStep
    <3>2. counted' \in BOOLEAN /\ car' \in Car
      BY <2>2 DEF Uncounted
    <3>3. CompTypeOK'
      BY <1>0, <1>1, <1>4, <3>2 DEF OtherStep
    <3>4. counted' => car'.complete = AllVerified'
      BY <1>0, <2>2, <3>1 DEF Uncounted
    <3> QED BY <1>a, <3>2, <3>3, <3>4 DEF CompInv
  <2> QED BY <1>4, <2>1, <2>2 DEF OtherStep
<1> QED BY <1>u, <1>2, <1>3, <1>4, NextIsAStep

-------------------------------------------------------------------------------
(* What the applications answer, in any state. *)

(* A driver whose papers are all in order for the report is so for the       *)
(* administrators, and for his own application.                               *)
LEMMA DriverAnswers ==
    /\ IsDriverFullyVerified => AdminDriverAnswer = "complete"
    /\ AdminDriverAnswer = "complete" => UploadProgress.canProceed
    /\ AdminDriverAnswer = "expired" => ComplianceStatus = "non_compliant"
<1>1. ASSUME IsDriverFullyVerified PROVE AdminDriverAnswer = "complete"
  <2>1. ComplianceStatus = "compliant" /\ Blockers = {}
    BY <1>1 DEF IsDriverFullyVerified
  <2>2. Compliant = DriverRequired
    BY <2>1 DEF ComplianceStatus
  <2>3. \A t \in DriverRequired : Verified(t) /\ ~ Expired(t)
    BY <2>1, <2>2 DEF Compliant, Blockers
  <2> QED BY <2>3 DEF AdminDriverAnswer
<1>2. ASSUME AdminDriverAnswer = "complete" PROVE UploadProgress.canProceed
  <2>1. \A t \in DriverRequired : Verified(t)
    BY <1>2 DEF AdminDriverAnswer
  <2>2. DriverSummary = "verified"
    BY <2>1 DEF DriverSummary
  <2> QED BY <2>2 DEF UploadProgress
<1>3. ASSUME AdminDriverAnswer = "expired" PROVE ComplianceStatus = "non_compliant"
  <2>1. \E t \in DriverRequired : Expired(t)
    BY <1>3 DEF AdminDriverAnswer
  <2>2. Blockers /= {}
    BY <2>1 DEF Blockers
  <2> QED BY <2>2 DEF ComplianceStatus
<1> QED BY <1>1, <1>2, <1>3

(* The report marks and offers what it says. *)
LEMMA ReportAgrees ==
    /\ Blockers = {t \in DriverTypes : IsBlocking(t)}
    /\ \A t \in ExpiringDocuments : CanReupload(t) /\ t \notin Compliant
    /\ MissingDocuments \cup (RejectedDocuments \cap DriverRequired) \subseteq Blockers
BY DriversPapers
   DEF Blockers, IsBlocking, ExpiringDocuments, CanReupload, Compliant, MissingDocuments,
       RejectedDocuments

LEMMA VehicleAnswers ==
    /\ AdminVehicleAnswer = "complete" => CheckDocumentCompleteness(paper)
    /\ AdminVehicleAnswer = "complete" => {t \in AdminRequired : Expired(t)} \subseteq {"GRANT"}
    /\ VehicleSummary = "verified" => CheckDocumentCompleteness(paper)
    /\ VehicleProgress.canProceed => VehicleSummary = "verified"
    /\ VehicleProgress.nextStep = "none" => \E t \in VehicleTypes \ Visible : Rejected(t)
    /\ AdminVehicleAnswer = "complete" => ExpiringVehicleDocuments \cap AdminRequired
                                            = {t \in AdminRequired : ExpiringSoon(t)}
<1>1. AdminVehicleAnswer = "complete" => CheckDocumentCompleteness(paper)
    BY SamePapers, CompleteAnswer DEF CheckDocumentCompleteness, AllVerified, Verified
<1>d. AdminVehicleAnswer = "complete" => {t \in AdminRequired : Expired(t)} \subseteq {"GRANT"}
  <2>1. \A t \in AdminRequired : t = "GRANT" \/ t \in HasExpiry
    BY DEF AdminRequired, HasExpiry, Types, VehicleTypes
  <2>2. AdminVehicleAnswer = "complete" => ExpiredRequired = {}
    BY DEF AdminVehicleAnswer
  <2> QED BY <2>1, <2>2 DEF ExpiredRequired
<1>2. VehicleSummary = "verified" => \A t \in Required : Verified(t)
    BY DEF VehicleSummary
<1>3. CarRequired \subseteq Required /\ GetRequiredDocumentTypes(FALSE) = CarRequired
    BY DEF Required, GetRequiredDocumentTypes, TaxiRequired
<1>4. VehicleSummary = "verified" => CheckDocumentCompleteness(paper)
    BY <1>2, <1>3 DEF CheckDocumentCompleteness, Verified
<1>5. VehicleProgress.canProceed => VehicleSummary = "verified"
    BY DEF VehicleProgress
<1>6. ASSUME VehicleProgress.nextStep = "none"
      PROVE  \E t \in VehicleTypes \ Visible : Rejected(t)
  <2>1. /\ \A t \in Required : Uploaded(t)
        /\ \A t \in Visible : ~ Rejected(t)
        /\ VehicleSummary /= "pending" /\ VehicleSummary /= "verified"
    BY <1>6 DEF VehicleProgress
  <2>2. \E t \in VehicleTypes : Rejected(t)
    BY <2>1 DEF VehicleSummary
  <2> QED BY <2>1, <2>2
<1>7. ASSUME AdminVehicleAnswer = "complete"
      PROVE  ExpiringVehicleDocuments \cap AdminRequired = {t \in AdminRequired : ExpiringSoon(t)}
    BY <1>7, SamePapers, CompleteAnswer DEF AllVerified, ExpiringVehicleDocuments
<1> QED BY <1>1, <1>4, <1>5, <1>6, <1>7, <1>d

(* Whoever may go online, or is offered a permit, has the papers. *)
LEMMA NobodyGoesWithoutPapers ==
    ASSUME CountsAgree
    PROVE  /\ CanDriverGoOnline =>
                /\ UploadProgress.canProceed /\ BlockingItems \cap Types = {}
                /\ Blockers \subseteq {t \in DriverTypes : Expired(t)}
           /\ counted /\ (CanDriverGoOnline \/ EvpEligible)
                => AdminVehicleAnswer \in {"complete", "expired"}
<1>1. ASSUME CanDriverGoOnline
      PROVE  /\ UploadProgress.canProceed /\ BlockingItems \cap Types = {}
             /\ Blockers \subseteq {t \in DriverTypes : Expired(t)}
  <2>1. DriverSummary = "verified" /\ ProfileComplete
    BY <1>1 DEF CanDriverGoOnline, ProfileComplete
  <2>2. UploadProgress.canProceed
    BY <2>1 DEF UploadProgress
  <2>3. BlockingItems = {"no verified vehicle"}
    BY <2>1 DEF BlockingItems
  <2>4. "no verified vehicle" \notin Types
    BY DEF Types, DriverTypes, VehicleTypes
  <2>5. \A t \in DriverRequired : Verified(t)
    BY <2>1 DEF DriverSummary
  <2>6. Blockers \subseteq {t \in DriverTypes : Expired(t)}
    BY <2>5, DriversPapers DEF Blockers, Verified, Uploaded, Rejected
  <2> QED BY <2>2, <2>3, <2>4, <2>6
<1>2. ASSUME counted, CanDriverGoOnline \/ EvpEligible
      PROVE  AdminVehicleAnswer \in {"complete", "expired"}
  <2>1. car.complete
    BY <1>2 DEF CanDriverGoOnline, EvpEligible
  <2>2. AllVerified
    BY <1>2, <2>1, CountsAgreeIsOneCount
  <2>3. AdminVehicleComplete(paper)
    BY <2>2 DEF AllVerified, AdminVehicleComplete, Verified
  <2> QED BY <2>3 DEF AdminVehicleAnswer
<1> QED BY <1>1, <1>2

LEMMA AnswersFollow == CompInv => AnswersAgree
BY DriverAnswers, ReportAgrees, VehicleAnswers, NobodyGoesWithoutPapers DEF CompInv, AnswersAgree

-------------------------------------------------------------------------------
LEMMA CompInvHolds == CompSpec => []CompInv
BY CompInvInit, CompInvNext, PTL DEF CompSpec

(* The papers, the flags and the vehicle keep their types, and a day of       *)
(* expiry is never on a paper that has none.                                  *)
THEOREM CompTypeCorrect == CompSpec => []CompTypeOK
<1>1. CompInv => CompTypeOK
    BY DEF CompInv
<1> QED BY <1>1, CompInvHolds, PTL

(* Whatever the papers followed and the order of uploads, edits, reviews,     *)
(* removals and days, the vehicle's flag is what either application counts,   *)
(* unless a rejection came since (checkDocumentCompleteness and               *)
(* updateVehicleDocumentCompletionStatus).                                    *)
THEOREM BothCountsAgree == CompSpec => []CountsAgree
<1>1. CompInv => CountsAgree
    BY DEF CompInv
<1> QED BY <1>1, CompInvHolds, PTL

(* The answers of the two applications about a driver and his vehicle never   *)
(* contradict each other in his favour.                                       *)
THEOREM ApplicationsAgree == CompSpec => []AnswersAgree
BY AnswersFollow, CompInvHolds, PTL
===============================================================================
