------------------------------- MODULE Personal --------------------------------
(***************************************************************************)
(* What each user keeps for himself: his bank accounts (WalletService), a   *)
(* passenger's identity papers (the verification services, reviewed by      *)
(* AdminPassengersService), his emergency contacts, the ratings of his      *)
(* rides and the issues he reports.  No index of the database enforces any  *)
(* rule about them: the handlers look, then write.                          *)
(*                                                                         *)
(* A document is named by the request that creates it; it is absent while   *)
(* its owner is Unowned.                                                    *)
(***************************************************************************)
EXTENDS Handlers

CONSTANTS
    Owners,
    Completed,      \* the rides that are over, each of which all the Owners took part in
    Phones,
    MaxContacts,    \* MAX_CONTACTS, 3 in the code
    Unowned

ASSUME PersonalAssumption ==
    Unowned \notin Owners /\ MaxContacts \in Nat /\ Completed /= {} /\ Phones /= {}

VARIABLES
    account,        \* bankAccount
    idPaper,        \* passengerDocument
    contact,        \* emergencyContact
    rating,         \* rating
    rated,          \* ride: isPassengerRated, or isDriverRated, by who rated
    issue,          \* issueReport
    intent,         \* what each request is about, and what its handler has read
    overlapped      \* history: owners some of whose requests on a matter met, or were lost

personalVars == <<account, idPaper, contact, rating, rated, issue, intent, overlapped>>

--------------------------------------------------------------------------------
PaperKinds == {"NRIC", "PASSPORT", "BANK_DETAILS"}
Matters == {"accounts", "contacts", "ratings"} \cup PaperKinds

Account == [owner : Owners \cup {Unowned}, active : BOOLEAN, default : BOOLEAN]
IdPaper == [owner : Owners \cup {Unowned}, kind : PaperKinds, active : BOOLEAN,
            status : {"PENDING", "VERIFIED", "REJECTED"}]
Contact == [owner : Owners \cup {Unowned}, phone : Phones, primary : BOOLEAN, edited : BOOLEAN]
Rating  == [owner : Owners \cup {Unowned}, of : Completed]
Issue   == [owner : Owners \cup {Unowned}, status : {"open", "RESOLVED"}, assigned : BOOLEAN]

(* doc: the document, 0 for none; wish: isDefault, or the contact is the first *)
(* one; on: isActive; was, wasOn: both as read.                               *)
Wishes == {"yes", "no", "unset"}
Intent == [owner : Owners \cup {Unowned}, matter : Matters, doc : Requests \cup {0},
           wish : Wishes, was : BOOLEAN, on : Wishes, wasOn : BOOLEAN,
           phone : Phones, of : Completed]
NoIntent == [owner |-> Unowned, matter |-> "accounts", doc |-> 0, wish |-> "unset", was |-> FALSE,
             on |-> "unset", wasOn |-> FALSE,
             phone |-> CHOOSE x \in Phones : TRUE, of |-> CHOOSE i \in Completed : TRUE]

Every(value) == [r \in Requests |-> value]

PersonalInit ==
    /\ account = Every([owner |-> Unowned, active |-> FALSE, default |-> FALSE])
    /\ idPaper = Every([owner |-> Unowned, kind |-> "NRIC", active |-> FALSE, status |-> "PENDING"])
    /\ contact = Every([owner |-> Unowned, phone |-> NoIntent.phone, primary |-> FALSE,
                        edited |-> FALSE])
    /\ rating = Every([owner |-> Unowned, of |-> NoIntent.of])
    /\ rated = {}
    /\ issue = Every([owner |-> Unowned, status |-> "open", assigned |-> FALSE])
    /\ intent = Every(NoIntent)
    /\ overlapped = {}

--------------------------------------------------------------------------------
Meets(o, matter) == \E r \in Requests : Running(r) /\ intent[r].owner = o /\ intent[r].matter = matter

Ask(r, kind, step, new) ==
    /\ Receive(r, kind, step)
    /\ intent' = [intent EXCEPT ![r] = new]
    /\ overlapped' = IF Meets(new.owner, new.matter) THEN overlapped \cup {<<new.owner, new.matter>>}
                                                     ELSE overlapped

History == <<intent, overlapped>>
OwnerOf(r) == intent[r].owner

(* The process ends with the handlers of what it runs. *)
PersonalStop ==
    /\ overlapped' = overlapped \cup {<<intent[r].owner, intent[r].matter>> :
                                         r \in {q \in Requests : Running(q) /\ OwnerOf(q) /= Unowned}}
    /\ UNCHANGED <<account, idPaper, contact, rating, rated, issue, intent>>

--------------------------------------------------------------------------------
(* Bank accounts. *)

OthersUntouched == UNCHANGED <<idPaper, contact, rating, rated, issue>>
AccountsOf(o) == {a \in Requests : account[a].owner = o}
ActiveAccounts(o) == {a \in AccountsOf(o) : account[a].active}

CreateBankAccount(r, o, default) ==
    /\ Ask(r, "addAccount", IF default = "yes" THEN "unsetOthers" ELSE "save",
           [NoIntent EXCEPT !.owner = o, !.doc = r, !.wish = default])
    /\ UNCHANGED account /\ OthersUntouched

(* Whatever the request gives is assigned, isDefault and isActive too.        *)
UpdateBankAccount(r, o, a, default, on) ==
    /\ a \in AccountsOf(o)
    /\ Ask(r, "editAccount", IF default = "yes" THEN "unsetOthers" ELSE "save",
           [NoIntent EXCEPT !.owner = o, !.doc = a, !.wish = default, !.was = account[a].default,
                            !.on = on, !.wasOn = account[a].active])
    /\ UNCHANGED account /\ OthersUntouched

DeleteBankAccount(r, o, a) ==
    /\ a \in AccountsOf(o)
    /\ Ask(r, "dropAccount", "countActive",
           [NoIntent EXCEPT !.owner = o, !.doc = a, !.was = account[a].default,
                            !.wasOn = account[a].active])
    /\ UNCHANGED account /\ OthersUntouched

(* Mutant: no account is demoted. *)
NoneDemoted(r) == account

(* updateMany: the owner's accounts but the one of the request. *)
Demoted(r) ==
    [a \in Requests |-> IF account[a].owner = OwnerOf(r) /\ a /= intent[r].doc
                          THEN [account[a] EXCEPT !.default = FALSE] ELSE account[a]]

UnsetOthers(r) ==
    /\ At(r, "unsetOthers")
    /\ account' = Demoted(r)
    /\ Goto(r, "preSave")
    /\ OthersUntouched /\ UNCHANGED History

(* The hook of the schema demotes them again, when save is to change isDefault. *)
PreSave(r) ==
    /\ At(r, "preSave")
    /\ account' = IF intent[r].was THEN account ELSE Demoted(r)
    /\ Goto(r, "save")
    /\ OthersUntouched /\ UNCHANGED History

(* save writes what was changed since the document was read. *)
Written(wish, read, value) ==
    IF wish = "unset" \/ (wish = "yes") = read THEN value ELSE wish = "yes"

Save(r) ==
    /\ At(r, "save")
    /\ LET a == intent[r].doc  wish == intent[r].wish  on == intent[r].on IN
       account' = IF op[r] = "addAccount"
                    THEN [account EXCEPT ![a] = [owner |-> OwnerOf(r), active |-> TRUE,
                                                default |-> wish = "yes"]]
                    ELSE [account EXCEPT ![a].default = Written(wish, intent[r].was, @),
                                         ![a].active = Written(on, intent[r].wasOn, @)]
    /\ Goto(r, "done")
    /\ OthersUntouched /\ UNCHANGED History

CountActive(r) ==
    /\ At(r, "countActive")
    /\ Goto(r, IF intent[r].was /\ Cardinality(ActiveAccounts(OwnerOf(r))) = 1 THEN "failed"
                                                                              ELSE "deactivate")
    /\ UNCHANGED personalVars

Deactivate(r) ==
    /\ At(r, "deactivate")
    /\ account' = [account EXCEPT ![intent[r].doc].active = Written("no", intent[r].wasOn, @)]
    /\ Goto(r, IF intent[r].was THEN "pickDefault" ELSE "done")
    /\ OthersUntouched /\ UNCHANGED History

PickDefault(r) ==
    /\ At(r, "pickDefault")
    /\ LET others == ActiveAccounts(OwnerOf(r)) \ {intent[r].doc} IN
       \/ others = {} /\ Goto(r, "done") /\ UNCHANGED intent
       \/ \E a \in others :
             /\ intent' = [intent EXCEPT ![r] = [@ EXCEPT !.doc = a, !.wish = "yes",
                                                          !.was = account[a].default]]
             /\ Goto(r, "preSave")
    /\ UNCHANGED <<account, overlapped>> /\ OthersUntouched

GetDefaultBankAccount(o) == {a \in ActiveAccounts(o) : account[a].default}

AccountRequests(r, o) ==
    \/ \E default \in {"yes", "no"} : CreateBankAccount(r, o, default)
    \/ \E a \in Requests : \/ DeleteBankAccount(r, o, a)
                           \/ \E default, on \in Wishes : UpdateBankAccount(r, o, a, default, on)

--------------------------------------------------------------------------------
(* A passenger's papers. *)

PapersUntouched == UNCHANGED <<account, contact, rating, rated, issue>>
PapersOf(o, kind) == {p \in Requests : idPaper[p].owner = o /\ idPaper[p].kind = kind}
ActivePapers(o, kind) == {p \in PapersOf(o, kind) : idPaper[p].active}

(* uploadNRICDocument, uploadPassportDocument and uploadBankDetails *)
UploadPaper(r, o, kind) ==
    /\ \/ /\ ActivePapers(o, kind) = {}
          /\ Ask(r, "uploadPaper", "createPaper", [NoIntent EXCEPT !.owner = o, !.matter = kind])
       \/ \E p \in ActivePapers(o, kind) :
             Ask(r, "uploadPaper",
                 IF idPaper[p].status = "REJECTED" THEN "createPaper" ELSE "failed",
                 [NoIntent EXCEPT !.owner = o, !.matter = kind, !.doc = p])
    /\ UNCHANGED idPaper /\ PapersUntouched

CreatePaper(r) ==
    /\ At(r, "createPaper")
    /\ idPaper' = [idPaper EXCEPT ![r] = [owner |-> OwnerOf(r), kind |-> intent[r].matter,
                                          active |-> TRUE, status |-> "PENDING"]]
    /\ Goto(r, IF intent[r].doc = 0 THEN "done" ELSE "retirePaper")
    /\ PapersUntouched /\ UNCHANGED History

RetirePaper(r) ==
    /\ At(r, "retirePaper")
    /\ idPaper' = [idPaper EXCEPT ![intent[r].doc].active = FALSE]
    /\ Goto(r, "done")
    /\ PapersUntouched /\ UNCHANGED History

(* updateNRICDocument, updatePassportDocument and updateBankDetails *)
EditPaper(r, o, p) ==
    /\ idPaper[p].owner = o /\ idPaper[p].active
    /\ Ask(r, "editPaper", IF idPaper[p].status = "VERIFIED" THEN "failed" ELSE "resubmit",
           [NoIntent EXCEPT !.owner = o, !.matter = idPaper[p].kind, !.doc = p])
    /\ UNCHANGED idPaper /\ PapersUntouched

Resubmit(r) ==
    /\ At(r, "resubmit")
    /\ idPaper' = [idPaper EXCEPT ![intent[r].doc].status = "PENDING"]
    /\ Goto(r, "done")
    /\ PapersUntouched /\ UNCHANGED History

(* approvePassengerDocument and rejectPassengerDocument: whatever its status. *)
ReviewPaper(r, p, verdict) ==
    /\ idPaper[p].owner /= Unowned
    /\ Receive(r, "reviewPaper", "done")
    /\ idPaper' = [idPaper EXCEPT ![p].status = verdict]
    /\ PapersUntouched /\ UNCHANGED History

(* getVerificationStatus *)
IsFullyVerified(o) == \E p \in ActivePapers(o, "NRIC") : idPaper[p].status = "VERIFIED"

PaperRequests(r, o) ==
    \/ \E kind \in PaperKinds : UploadPaper(r, o, kind)
    \/ \E p \in Requests : EditPaper(r, o, p) \/ \E v \in {"VERIFIED", "REJECTED"} : ReviewPaper(r, p, v)

--------------------------------------------------------------------------------
(* Emergency contacts. *)

ContactsUntouched == UNCHANGED <<account, idPaper, rating, rated, issue>>
ContactsOf(o) == {c \in Requests : contact[c].owner = o}

AddContact(r, o, phone) ==
    /\ LET count == Cardinality(ContactsOf(o)) IN
       Ask(r, "addContact", IF count >= MaxContacts THEN "failed" ELSE "isUnique",
           [NoIntent EXCEPT !.owner = o, !.matter = "contacts", !.phone = phone, !.wish = IF count = 0 THEN "yes" ELSE "no"])
    /\ UNCHANGED contact /\ ContactsUntouched

IsPhoneNumberUnique(r) ==
    /\ At(r, "isUnique")
    /\ Goto(r, IF \E c \in ContactsOf(OwnerOf(r)) : contact[c].phone = intent[r].phone
                 THEN "failed" ELSE "saveContact")
    /\ UNCHANGED personalVars

SaveContact(r) ==
    /\ At(r, "saveContact")
    /\ contact' = [contact EXCEPT ![r] = [owner |-> OwnerOf(r), phone |-> intent[r].phone,
                                          primary |-> intent[r].wish = "yes", edited |-> FALSE]]
    /\ Goto(r, "done")
    /\ ContactsUntouched /\ UNCHANGED History

RemoveContact(r, o, c) ==
    /\ c \in ContactsOf(o)
    /\ Ask(r, "removeContact", "done", [NoIntent EXCEPT !.owner = o, !.matter = "contacts"])
    /\ contact' = [contact EXCEPT ![c].owner = Unowned]
    /\ ContactsUntouched

(* Any phone number will do. *)
UpdateContact(r, o, c, phone) ==
    /\ c \in ContactsOf(o)
    /\ Ask(r, "editContact", "done", [NoIntent EXCEPT !.owner = o, !.matter = "contacts"])
    /\ contact' = [contact EXCEPT ![c] = [@ EXCEPT !.phone = phone, !.edited = TRUE]]
    /\ ContactsUntouched

ContactRequests(r, o) ==
    \E phone \in Phones : \/ AddContact(r, o, phone)
                          \/ \E c \in Requests : RemoveContact(r, o, c) \/ UpdateContact(r, o, c, phone)

--------------------------------------------------------------------------------
(* Ratings and issue reports. *)

RatingsUntouched == UNCHANGED <<account, idPaper, contact, issue>>
RatingsOf(o, i) == {x \in Requests : rating[x].owner = o /\ rating[x].of = i}

(* submitPassengerRating, and the drivers' submitDriverRating. *)
SubmitRating(r, o, i) ==
    /\ Ask(r, "rate", IF RatingsOf(o, i) = {} THEN "saveRating" ELSE "failed",
           [NoIntent EXCEPT !.owner = o, !.matter = "ratings", !.of = i])
    /\ UNCHANGED <<rating, rated>> /\ RatingsUntouched

SaveRating(r) ==
    /\ At(r, "saveRating")
    /\ rating' = [rating EXCEPT ![r] = [owner |-> OwnerOf(r), of |-> intent[r].of]]
    /\ Goto(r, "markRated")
    /\ UNCHANGED rated /\ RatingsUntouched /\ UNCHANGED History

MarkRated(r) ==
    /\ At(r, "markRated")
    /\ rated' = rated \cup {<<OwnerOf(r), intent[r].of>>}
    /\ Goto(r, "done")
    /\ UNCHANGED rating /\ RatingsUntouched /\ UNCHANGED History

IssuesOnly == UNCHANGED <<account, idPaper, contact, rating, rated, intent, overlapped>>

SubmitIssueReport(r, o) ==
    /\ Receive(r, "reportIssue", "done")
    /\ issue' = [issue EXCEPT ![r] = [owner |-> o, status |-> "open", assigned |-> FALSE]]
    /\ IssuesOnly

AssignReport(r, x) ==
    /\ issue[x].owner /= Unowned
    /\ Receive(r, "assignReport", "done")
    /\ issue' = [issue EXCEPT ![x].assigned = TRUE]
    /\ IssuesOnly

(* What is written is no member of IssueStatus. *)
ResolveReport(r, x) ==
    /\ issue[x].owner /= Unowned
    /\ Receive(r, "resolveReport", "done")
    /\ issue' = [issue EXCEPT ![x].status = "RESOLVED"]
    /\ IssuesOnly

RatingRequests(r, o) == \E i \in Completed : SubmitRating(r, o, i)

IssueRequests(r, o) ==
    SubmitIssueReport(r, o) \/ \E x \in Requests : AssignReport(r, x) \/ ResolveReport(r, x)

--------------------------------------------------------------------------------
PersonalReceive(r) ==
    /\ IsTurnOf(r)
    /\ \E o \in Owners : \/ AccountRequests(r, o) \/ PaperRequests(r, o) \/ ContactRequests(r, o)
                         \/ RatingRequests(r, o) \/ IssueRequests(r, o)

PersonalStep(r) ==
    \/ UnsetOthers(r) \/ PreSave(r) \/ Save(r) \/ CountActive(r) \/ Deactivate(r) \/ PickDefault(r)
    \/ CreatePaper(r) \/ RetirePaper(r) \/ Resubmit(r)
    \/ IsPhoneNumberUnique(r) \/ SaveContact(r) \/ SaveRating(r) \/ MarkRated(r)

PersonalNext == \E r \in Requests : PersonalReceive(r) \/ PersonalStep(r)

PersonalSpec ==
    HandlersInit /\ PersonalInit
    /\ [][PersonalNext \/ (Stop /\ PersonalStop)]_<<handlerVars, personalVars>>

--------------------------------------------------------------------------------
PersonalTypeOK ==
    /\ account \in [Requests -> Account] /\ idPaper \in [Requests -> IdPaper]
    /\ contact \in [Requests -> Contact] /\ rating \in [Requests -> Rating]
    /\ rated \subseteq Owners \X Completed /\ issue \in [Requests -> Issue]
    /\ intent \in [Requests -> Intent]   /\ overlapped \subseteq Owners \X Matters

Calm(o, matter) == <<o, matter>> \notin overlapped
Settled(o, matter) == Calm(o, matter) /\ ~ Meets(o, matter)

OneDefault(o) == Calm(o, "accounts") => Cardinality(GetDefaultBankAccount(o)) <= 1

(* An edit may make a deleted account the default, and may switch the default  *)
(* off, without another one taking its place.                                 *)
DefaultByEdit(a) == \E r \in Requests : /\ op[r] = "editAccount" /\ intent[r].doc = a
                                        /\ intent[r].wish = "yes" \/ intent[r].on = "no"

DefaultHandedOn(o) ==
    Settled(o, "accounts") =>
        \A a \in AccountsOf(o) : account[a].default /\ ~ account[a].active => DefaultByEdit(a)

PapersReplaced(o) ==
    \A kind \in PaperKinds :
        /\ PapersOf(o, kind) /= {} => ActivePapers(o, kind) /= {}
        /\ Settled(o, kind) => Cardinality(ActivePapers(o, kind)) <= 1

FewContacts(o) ==
    Calm(o, "contacts") =>
        /\ Cardinality(ContactsOf(o)) <= MaxContacts
        /\ Cardinality({c \in ContactsOf(o) : contact[c].primary}) <= 1
        /\ \A c, e \in ContactsOf(o) :
              contact[c].phone = contact[e].phone => c = e \/ contact[c].edited \/ contact[e].edited

RatedOnce(o) == Calm(o, "ratings") => \A i \in Completed : Cardinality(RatingsOf(o, i)) <= 1

(* The rules about what a user keeps, which only the handlers' reads enforce:  *)
(* one default bank account, whatever is made active again, which a deletion   *)
(* hands on (an edit does not: it may switch the default account off, and then *)
(* the user has none); a paper of a kind always there once uploaded, and only  *)
(* one but while it is replaced; as many contacts as allowed, one primary,     *)
(* with different phones; one rating of a ride.  All but the paper's being     *)
(* there need that no two requests of the user on the matter met and that none *)
(* was lost: nothing is claimed of requests that overlap, which do break them. *)
OwnersRules ==
    /\ \A o \in Owners : OneDefault(o) /\ DefaultHandedOn(o) /\ PapersReplaced(o) /\ FewContacts(o)
                         /\ RatedOnce(o)
    /\ \A mark \in rated : RatingsOf(mark[1], mark[2]) /= {}
================================================================================
