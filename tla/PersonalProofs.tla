---------------------------- MODULE PersonalProofs -----------------------------
(***************************************************************************)
(* Theorems about what each user keeps for himself (Personal), for any      *)
(* users and requests.                                                      *)
(*                                                                         *)
(* While no two requests of a user on a matter have met and none was lost,  *)
(* at most one handler is about the matter, and what it has read still      *)
(* holds when it writes.  The invariant says so of each matter, and what    *)
(* the rules become between the writes of that handler.                     *)
(***************************************************************************)
EXTENDS Personal, TLAPS, FiniteSetTheorems, WellFoundedInduction

AccountSteps == {"unsetOthers", "preSave", "save", "countActive", "deactivate", "pickDefault"}
PaperSteps == {"createPaper", "retirePaper", "resubmit"}
ContactSteps == {"isUnique", "saveContact"}
RatingSteps == {"saveRating", "markRated"}
PersonalSteps == AccountSteps \cup PaperSteps \cup ContactSteps \cup RatingSteps
                   \cup Finished \cup {"idle"}

PersonalKinds == {"none", "addAccount", "editAccount", "dropAccount", "uploadPaper", "editPaper",
                  "reviewPaper", "addContact", "removeContact", "editContact", "rate",
                  "reportIssue", "assignReport", "resolveReport"}

PersonalTypes ==
    /\ PersonalTypeOK
    /\ op \in [Requests -> PersonalKinds] /\ at \in [Requests -> PersonalSteps] /\ stops \in Nat

(* The requests are received in turn. *)
InTurn == \A p, q \in Requests : p < q /\ Received(q) => Received(p)

(* The handlers that are about an owner's accounts, papers, contacts, ratings. *)
AccountHandlers(o) == {r \in Requests : at[r] \in AccountSteps /\ OwnerOf(r) = o}
PaperHandlers(o, kind) ==
    {r \in Requests : at[r] \in PaperSteps /\ OwnerOf(r) = o /\ intent[r].matter = kind}
ContactHandlers(o) == {r \in Requests : at[r] \in ContactSteps /\ OwnerOf(r) = o}
RatingHandlers(o) == {r \in Requests : at[r] \in RatingSteps /\ OwnerOf(r) = o}

AllEqual(S) == \A x, y \in S : x = y

--------------------------------------------------------------------------------
(* Bank accounts. *)

AccountHandler(r) ==
    at[r] \in AccountSteps =>
        /\ OwnerOf(r) \in Owners /\ intent[r].matter = "accounts" /\ intent[r].doc \in Requests
        /\ \/ /\ op[r] = "addAccount" /\ at[r] \in {"unsetOthers", "preSave", "save"}
              /\ intent[r].doc = r /\ ~ intent[r].was /\ account[r].owner = Unowned
           \/ /\ op[r] = "editAccount" /\ at[r] \in {"unsetOthers", "preSave", "save"}
              /\ account[intent[r].doc].owner = OwnerOf(r)
           \/ /\ op[r] = "dropAccount" /\ at[r] /= "unsetOthers"
              /\ account[intent[r].doc].owner = OwnerOf(r) /\ intent[r].on = "unset"
        /\ at[r] \in {"unsetOthers", "preSave"} => intent[r].wish = "yes"

(* The default of an account that no edit made inactive is taken from it by    *)
(* the handler that deleted it.                                                *)
TakenOver(o, a) ==
    \E r \in AccountHandlers(o) :
        /\ op[r] = "dropAccount"
        /\ \/ at[r] = "pickDefault" /\ a = intent[r].doc
           \/ at[r] = "preSave" /\ ~ intent[r].was /\ a /= intent[r].doc

(* Active or not: what is deleted may be made active again. *)
Flagged(o) == {a \in AccountsOf(o) : account[a].default}

AccountsInOrder(o) ==
    /\ AllEqual(AccountHandlers(o)) /\ AllEqual(Flagged(o))
    /\ \A a \in AccountsOf(o) : account[a].default /\ ~ account[a].active => DefaultByEdit(a) \/ TakenOver(o, a)
    /\ \A r \in AccountHandlers(o) :
        LET a == intent[r].doc IN
        /\ at[r] = "preSave" /\ intent[r].was => Flagged(o) \subseteq {a}
        /\ at[r] = "save" /\ intent[r].wish = "yes" => Flagged(o) \subseteq {a}
        /\ at[r] \in {"countActive", "deactivate"} =>
               intent[r].was = account[a].default /\ intent[r].wasOn = account[a].active
        /\ at[r] = "deactivate" /\ intent[r].was /\ account[a].active => ActiveAccounts(o) \ {a} /= {}
        /\ at[r] = "pickDefault" /\ account[a].default /\ ~ DefaultByEdit(a) =>
               ActiveAccounts(o) \ {a} /= {} /\ Flagged(o) = {a}
        /\ op[r] = "dropAccount" /\ at[r] \in {"preSave", "save"} =>
               account[a].active /\ intent[r].wish = "yes"

AccountsInv ==
    /\ \A r \in Requests : AccountHandler(r) /\ (~ Received(r) => account[r].owner = Unowned)
    /\ \A o \in Owners : Calm(o, "accounts") => AccountsInOrder(o)

--------------------------------------------------------------------------------
(* Papers. *)

PaperHandler(r) ==
    at[r] \in PaperSteps =>
        /\ OwnerOf(r) \in Owners /\ intent[r].matter \in PaperKinds
        /\ op[r] \in {"uploadPaper", "editPaper"} /\ intent[r].doc \in 0..(r - 1)
        /\ intent[r].doc /= 0 => /\ idPaper[intent[r].doc].owner = OwnerOf(r)
                                 /\ idPaper[intent[r].doc].kind = intent[r].matter
        /\ at[r] = "createPaper" => idPaper[r].owner = Unowned
        /\ at[r] \in {"retirePaper", "resubmit"} => intent[r].doc \in Requests
        /\ at[r] = "retirePaper" => idPaper[r].owner = OwnerOf(r) /\ idPaper[r].kind = intent[r].matter

(* A paper that is not active has a successor. *)
Succeeded(p) == \E q \in Requests : /\ q > p /\ idPaper[q].owner = idPaper[p].owner
                                    /\ idPaper[q].kind = idPaper[p].kind

PapersInOrder(o, kind) ==
    /\ AllEqual(PaperHandlers(o, kind))
    /\ (\A r \in PaperHandlers(o, kind) : at[r] /= "retirePaper") => AllEqual(ActivePapers(o, kind))
    /\ \A r \in PaperHandlers(o, kind) :
        /\ at[r] = "createPaper" => ActivePapers(o, kind) \subseteq {intent[r].doc}
        /\ at[r] = "retirePaper" => ActivePapers(o, kind) \subseteq {intent[r].doc, r}

PapersInv ==
    /\ \A r \in Requests : /\ PaperHandler(r) /\ (~ Received(r) => idPaper[r].owner = Unowned)
                           /\ idPaper[r].owner /= Unowned /\ ~ idPaper[r].active => Succeeded(r)
    /\ \A o \in Owners, kind \in PaperKinds : Calm(o, kind) => PapersInOrder(o, kind)

--------------------------------------------------------------------------------
(* Contacts. *)

ContactHandler(r) ==
    at[r] \in ContactSteps =>
        /\ OwnerOf(r) \in Owners /\ intent[r].matter = "contacts"
        /\ op[r] = "addContact" /\ contact[r].owner = Unowned

Primaries(o) == {c \in ContactsOf(o) : contact[c].primary}

ContactsInOrder(o) ==
    /\ AllEqual(ContactHandlers(o)) /\ AllEqual(Primaries(o))
    /\ Cardinality(ContactsOf(o)) <= MaxContacts
    /\ \A c, e \in ContactsOf(o) :
          contact[c].phone = contact[e].phone => c = e \/ contact[c].edited \/ contact[e].edited
    /\ \A r \in ContactHandlers(o) :
        /\ Cardinality(ContactsOf(o)) < MaxContacts
        /\ intent[r].wish = "yes" => ContactsOf(o) = {}
        /\ at[r] = "saveContact" => \A c \in ContactsOf(o) : contact[c].phone /= intent[r].phone

ContactsInv ==
    /\ \A r \in Requests : ContactHandler(r) /\ (~ Received(r) => contact[r].owner = Unowned)
    /\ \A o \in Owners : Calm(o, "contacts") => ContactsInOrder(o)

--------------------------------------------------------------------------------
(* Ratings. *)

RatingHandler(r) ==
    at[r] \in RatingSteps =>
        /\ OwnerOf(r) \in Owners /\ intent[r].matter = "ratings" /\ op[r] = "rate"
        /\ at[r] = "saveRating" => rating[r].owner = Unowned
        /\ at[r] = "markRated" => rating[r] = [owner |-> OwnerOf(r), of |-> intent[r].of]

RatingsInOrder(o) ==
    /\ AllEqual(RatingHandlers(o)) /\ \A i \in Completed : AllEqual(RatingsOf(o, i))
    /\ \A r \in RatingHandlers(o) : at[r] = "saveRating" => RatingsOf(o, intent[r].of) = {}

RatingsInv ==
    /\ \A r \in Requests : RatingHandler(r) /\ (~ Received(r) => rating[r].owner = Unowned)
    /\ \A mark \in rated : RatingsOf(mark[1], mark[2]) /= {}
    /\ \A o \in Owners : Calm(o, "ratings") => RatingsInOrder(o)

PersonalInv == PersonalTypes /\ InTurn /\ AccountsInv /\ PapersInv /\ ContactsInv /\ RatingsInv

--------------------------------------------------------------------------------
(* Handlers. *)

(* A step of the handler of request r, or its arrival. *)
Moves(r, step) ==
    /\ at' = [at EXCEPT ![r] = step]
    /\ \A q \in Requests \ {r} : op'[q] = op[q] /\ intent'[q] = intent[q]
    /\ Received(r) => op'[r] = op[r] /\ (intent'[r] = intent[r] \/ op[r] = "dropAccount")
    /\ overlapped \subseteq overlapped'

(* The handlers at the steps S are those that were, but for those that a stop  *)
(* ended and marked.                                                           *)
Kept(S) ==
    /\ \A q \in Requests : Received(q) => op'[q] = op[q]
    /\ \A q \in Requests : op[q] = "editAccount" => intent'[q] = intent[q]
    /\ \A q \in Requests : at'[q] \in S => at'[q] = at[q] /\ intent'[q] = intent[q] /\ op'[q] = op[q]
    /\ \A q \in Requests : at[q] \in S =>
          at'[q] = at[q] \/ <<intent[q].owner, intent[q].matter>> \in overlapped'
    /\ overlapped \subseteq overlapped'

LEMMA OthersKept ==
    ASSUME PersonalTypes, NEW r \in Requests, NEW step, Moves(r, step), NEW S,
           at[r] \notin S, step \notin S
    PROVE  Kept(S)
BY DEF Kept, Moves, Received, PersonalTypes

LEMMA NoIntentTyped == NoIntent \in Intent
<1>1. (CHOOSE x \in Phones : TRUE) \in Phones /\ (CHOOSE i \in Completed : TRUE) \in Completed
    BY PersonalAssumption
<1> QED BY <1>1 DEF NoIntent, Intent, Matters, Wishes

(* Who asks is the next one; if his matter is calm, nobody else is at it. *)
LEMMA Asked ==
    ASSUME PersonalInv, NEW r \in Requests, NEW kind \in PersonalKinds \ {"none"},
           NEW step \in PersonalSteps, NEW new \in Intent, new.owner \in Owners,
           Ask(r, kind, step, new)
    PROVE  /\ ~ Received(r) /\ op[r] = "none" /\ op'[r] = kind /\ at'[r] = step /\ intent'[r] = new
           /\ at[r] \notin AccountSteps \cup PaperSteps \cup ContactSteps \cup RatingSteps
           /\ Moves(r, step)
           /\ op' \in [Requests -> PersonalKinds] /\ at' \in [Requests -> PersonalSteps]
           /\ stops' \in Nat
           /\ intent' \in [Requests -> Intent] /\ overlapped' \subseteq Owners \X Matters
           /\ Calm(new.owner, new.matter)' => ~ Meets(new.owner, new.matter)
<1>1. ~ Received(r) /\ op' = [op EXCEPT ![r] = kind] /\ at' = [at EXCEPT ![r] = step] /\ stops' = stops
      /\ intent' = [intent EXCEPT ![r] = new]
    BY DEF Ask, Receive, IsNext, IsTurnOf
<1>2. PersonalTypes
    BY DEF PersonalInv
<1>3. op[r] = "none"
    BY <1>1 DEF Received
<1>4. at[r] \notin AccountSteps \cup PaperSteps \cup ContactSteps \cup RatingSteps
    BY <1>3 DEF PersonalInv, AccountsInv, AccountHandler, PapersInv, PaperHandler, ContactsInv,
                ContactHandler, RatingsInv, RatingHandler
<1>5. new.matter \in Matters
    BY DEF Intent
<1>6. overlapped \subseteq overlapped' /\ overlapped' \subseteq Owners \X Matters
    BY <1>2, <1>5 DEF Ask, PersonalTypes, PersonalTypeOK
<1>7. Calm(new.owner, new.matter)' => ~ Meets(new.owner, new.matter)
    BY DEF Ask, Calm
<1>8. Moves(r, step)
    BY <1>1, <1>2, <1>6 DEF Moves, PersonalTypes, PersonalTypeOK
<1>9. /\ op' \in [Requests -> PersonalKinds] /\ at' \in [Requests -> PersonalSteps]
      /\ stops' \in Nat /\ intent' \in [Requests -> Intent]
      /\ op'[r] = kind /\ at'[r] = step /\ intent'[r] = new
    BY <1>1, <1>2 DEF PersonalTypes, PersonalTypeOK
<1> QED BY <1>1, <1>3, <1>4, <1>6, <1>7, <1>8, <1>9

(* A request about no matter of the invariant. *)
LEMMA Noted ==
    ASSUME PersonalInv, NEW r \in Requests, NEW kind \in PersonalKinds \ {"none"},
           Receive(r, kind, "done"), UNCHANGED <<intent, overlapped>>
    PROVE  /\ Moves(r, "done")
           /\ at[r] \notin AccountSteps \cup PaperSteps \cup ContactSteps \cup RatingSteps
           /\ op' \in [Requests -> PersonalKinds] /\ at' \in [Requests -> PersonalSteps]
           /\ stops' \in Nat
<1>1. ~ Received(r) /\ op' = [op EXCEPT ![r] = kind] /\ at' = [at EXCEPT ![r] = "done"] /\ stops' = stops
    BY DEF Receive, IsNext, IsTurnOf
<1>2. PersonalTypes /\ op[r] = "none"
    BY <1>1 DEF PersonalInv, Received
<1>4. at[r] \notin AccountSteps \cup PaperSteps \cup ContactSteps \cup RatingSteps
    BY <1>2 DEF PersonalInv, AccountsInv, AccountHandler, PapersInv, PaperHandler, ContactsInv,
                ContactHandler, RatingsInv, RatingHandler
<1>5. "done" \in PersonalSteps
    BY DEF PersonalSteps, Finished
<1>8. Moves(r, "done")
    BY <1>1, <1>2 DEF Moves, PersonalTypes, PersonalTypeOK
<1> QED BY <1>1, <1>2, <1>4, <1>5, <1>8 DEF PersonalTypes

(* A step of a handler. *)
LEMMA Stepped ==
    ASSUME PersonalTypes, NEW r \in Requests, NEW step \in PersonalSteps, Goto(r, step),
           at[r] \in AccountSteps \cup PaperSteps \cup ContactSteps \cup RatingSteps
    PROVE  /\ at'[r] = step /\ op' = op
           /\ UNCHANGED <<intent, overlapped>> => Moves(r, step)
           /\ op' \in [Requests -> PersonalKinds] /\ at' \in [Requests -> PersonalSteps]
           /\ stops' \in Nat
BY DEF Goto, Moves, PersonalTypes, PersonalTypeOK

LEMMA FewEqual ==
    ASSUME NEW S \in SUBSET Requests
    PROVE  /\ IsFiniteSet(S) /\ Cardinality(S) \in Nat
           /\ AllEqual(S) => Cardinality(S) <= 1
<1>1. IsFiniteSet(Requests)
    BY RequestsAssumption, FS_Interval DEF Requests
<1>2. IsFiniteSet(S)
    BY <1>1, FS_Subset
<1>3. ASSUME AllEqual(S) PROVE Cardinality(S) <= 1
    <2>1. CASE S = {}
        BY <2>1, FS_EmptySet
    <2>2. CASE S /= {}
        <3>1. PICK x \in S : S = {x}
            BY <2>2, <1>3 DEF AllEqual
        <3> QED BY <3>1, FS_Singleton
    <2> QED BY <2>1, <2>2
<1> QED BY <1>2, <1>3, FS_CardinalityType

--------------------------------------------------------------------------------
(* Bank accounts. *)

LEMMA AccountTypes ==
    ASSUME PersonalTypes, NEW a \in Requests
    PROVE  /\ account[a] = [owner |-> account[a].owner, active |-> account[a].active,
                            default |-> account[a].default]
           /\ account[a].owner \in Owners \cup {Unowned}
           /\ account[a].active \in BOOLEAN /\ account[a].default \in BOOLEAN
           /\ intent[a].doc \in Requests \cup {0} /\ intent[a].wish \in Wishes
           /\ intent[a].was \in BOOLEAN /\ intent[a].owner \in Owners \cup {Unowned}
           /\ intent[a].on \in Wishes /\ intent[a].wasOn \in BOOLEAN
           /\ intent[a] \in Intent
BY DEF PersonalTypes, PersonalTypeOK, Account, Intent

LEMMA AccountsKept ==
    ASSUME PersonalInv, Kept(AccountSteps), UNCHANGED account
    PROVE  AccountsInv'
<1>1. AccountsInv /\ PersonalTypes
    BY DEF PersonalInv
<1>2. ASSUME NEW r \in Requests PROVE (AccountHandler(r) /\ (~ Received(r) => account[r].owner = Unowned))'
    <2>1. AccountHandler(r)'
        BY <1>1 DEF Kept, AccountsInv, AccountHandler, OwnerOf
    <2>2. (~ Received(r) => account[r].owner = Unowned)'
        BY <1>1 DEF Kept, AccountsInv, Received
    <2> QED BY <2>1, <2>2
<1>3. ASSUME NEW o \in Owners, Calm(o, "accounts")' PROVE AccountsInOrder(o)'
    <2>1. Calm(o, "accounts") /\ AccountsInOrder(o)
        BY <1>1, <1>3 DEF Kept, Calm, AccountsInv
    <2>2. ASSUME NEW r \in AccountHandlers(o) PROVE at'[r] = at[r]
        <3>1. intent[r].owner = o /\ intent[r].matter = "accounts" /\ at[r] \in AccountSteps
            BY <1>1 DEF AccountHandlers, AccountsInv, AccountHandler, OwnerOf
        <3> QED BY <3>1, <1>3 DEF Kept, Calm, AccountHandlers
    <2>3. AccountHandlers(o)' = AccountHandlers(o)
        BY <2>2 DEF AccountHandlers, Kept, OwnerOf
    <2>4. ASSUME NEW r \in AccountHandlers(o)
          PROVE  at'[r] = at[r] /\ intent'[r] = intent[r] /\ op'[r] = op[r]
        BY <2>2 DEF AccountHandlers, Kept
    <2>5. \A a \in Requests : DefaultByEdit(a) => DefaultByEdit(a)'
        BY DEF DefaultByEdit, Kept, Received
    <2>6. AccountsOf(o)' = AccountsOf(o) /\ ActiveAccounts(o)' = ActiveAccounts(o)
          /\ Flagged(o)' = Flagged(o) /\ AccountsOf(o) \subseteq Requests
        BY DEF AccountsOf, ActiveAccounts, Flagged
    <2>7. \A a \in Requests : TakenOver(o, a) => TakenOver(o, a)'
        BY <2>3, <2>4 DEF TakenOver
    <2>8. \A r \in AccountHandlers(o) : intent[r].doc \in Requests
        BY <1>1 DEF AccountHandlers, AccountsInv, AccountHandler
    <2>9. (\A a \in AccountsOf(o) : account[a].default /\ ~ account[a].active => DefaultByEdit(a) \/ TakenOver(o, a))'
        BY <2>1, <2>5, <2>6, <2>7 DEF AccountsInOrder
    <2>10. (AllEqual(AccountHandlers(o)) /\ AllEqual(Flagged(o)))'
        BY <2>1, <2>3, <2>6 DEF AccountsInOrder, AllEqual
    <2> QED BY <2>1, <2>3, <2>4, <2>5, <2>6, <2>8, <2>9, <2>10 DEF AccountsInOrder
<1> QED BY <1>2, <1>3 DEF AccountsInv

(* What the step of a handler may do to the accounts, besides those of its owner. *)
AccountMoved(r, step) ==
    /\ Moves(r, step) /\ op' = op /\ overlapped' = overlapped
    /\ intent'[r].owner = intent[r].owner /\ intent'[r].matter = intent[r].matter
    /\ \A a \in Requests :
        \/ account'[a] = account[a]
        \/ /\ account'[a].owner = intent[r].owner
           /\ account[a].owner = intent[r].owner \/ (a = r /\ account[a].owner = Unowned)

LEMMA OthersAccounts ==
    ASSUME PersonalInv, NEW r \in Requests, NEW step \in PersonalSteps, AccountMoved(r, step),
           at[r] \in AccountSteps, NEW o \in Owners, o /= intent[r].owner, Calm(o, "accounts")'
    PROVE  AccountsInOrder(o)'
<1>1. AccountsInv /\ PersonalTypes
    BY DEF PersonalInv
<1>2. Calm(o, "accounts") /\ AccountsInOrder(o)
    BY <1>1 DEF AccountMoved, Calm, AccountsInv
<1>3. intent[r].owner \in Owners
    BY <1>1 DEF AccountsInv, AccountHandler, OwnerOf
<1>4. \A q \in Requests \ {r} : at'[q] = at[q] /\ intent'[q] = intent[q] /\ op'[q] = op[q]
    BY <1>1 DEF AccountMoved, Moves, PersonalTypes
<1>5. AccountHandlers(o)' = AccountHandlers(o) /\ r \notin AccountHandlers(o)
    BY <1>4 DEF AccountHandlers, AccountMoved, OwnerOf
<1>6. \A a \in Requests : \/ account'[a] = account[a]
                          \/ account'[a].owner /= o /\ account[a].owner /= o
    BY <1>3, PersonalAssumption DEF AccountMoved
<1>7. \A a \in AccountsOf(o) \cup AccountsOf(o)' : account'[a] = account[a] /\ a \in Requests
    BY <1>6 DEF AccountsOf
<1>8. AccountsOf(o)' = AccountsOf(o) /\ ActiveAccounts(o)' = ActiveAccounts(o)
      /\ Flagged(o)' = Flagged(o) /\ AccountsOf(o) \subseteq Requests
    BY <1>6 DEF AccountsOf, ActiveAccounts, Flagged
<1>9. \A a \in Requests : DefaultByEdit(a) => DefaultByEdit(a)'
    <2>1. op[r] = "editAccount" => intent'[r] = intent[r]
        BY DEF AccountMoved, Moves, Received
    <2> QED BY <1>4, <2>1 DEF DefaultByEdit, AccountMoved
<1>10. \A q \in AccountHandlers(o) :
          /\ at'[q] = at[q] /\ intent'[q] = intent[q] /\ op'[q] = op[q]
          /\ intent[q].doc \in Requests
          /\ op[q] = "dropAccount" => account'[intent[q].doc] = account[intent[q].doc]
          /\ at[q] \in {"countActive", "deactivate", "pickDefault"} => op[q] = "dropAccount"
    <2> TAKE q \in AccountHandlers(o)
    <2>1. q \in Requests /\ q /= r /\ intent[q].owner = o /\ at[q] \in AccountSteps /\ AccountHandler(q)
        BY <1>1, <1>5 DEF AccountHandlers, AccountsInv, OwnerOf
    <2>2. op[q] = "dropAccount" => intent[q].doc \in AccountsOf(o)
        BY <2>1 DEF AccountHandler, AccountsOf, OwnerOf
    <2> QED BY <2>1, <2>2, <1>4, <1>7 DEF AccountHandler
<1>11. \A a \in Requests : TakenOver(o, a) => TakenOver(o, a)'
    BY <1>5, <1>10 DEF TakenOver
<1>12. (\A a \in AccountsOf(o) : account[a].default /\ ~ account[a].active => DefaultByEdit(a) \/ TakenOver(o, a))'
    BY <1>2, <1>7, <1>8, <1>9, <1>11 DEF AccountsInOrder
<1>13. (AllEqual(AccountHandlers(o)) /\ AllEqual(Flagged(o)))'
    BY <1>2, <1>5, <1>8 DEF AccountsInOrder, AllEqual
<1> QED BY <1>2, <1>5, <1>8, <1>9, <1>10, <1>12, <1>13 DEF AccountsInOrder

(* A step is right if it is right about its owner's accounts. *)
LEMMA AccountStepped ==
    ASSUME PersonalInv, NEW r \in Requests, NEW step \in PersonalSteps, AccountMoved(r, step),
           at[r] \in AccountSteps, AccountHandler(r)', NEW u \in Owners, u = intent[r].owner,
           Calm(u, "accounts") => AccountsInOrder(u)'
    PROVE  AccountsInv'
<1>1. AccountsInv /\ PersonalTypes
    BY DEF PersonalInv
<1>3. intent[r].owner \in Owners /\ Received(r)
    BY <1>1 DEF AccountsInv, AccountHandler, OwnerOf, Received
<1>4. \A q \in Requests \ {r} : at'[q] = at[q] /\ intent'[q] = intent[q] /\ op'[q] = op[q]
    BY <1>1 DEF AccountMoved, Moves, PersonalTypes
<1>5. ASSUME NEW q \in Requests, q /= r PROVE AccountHandler(q)'
    <2>1. AccountHandler(q) /\ intent[q].doc \in Requests \cup {0}
        BY <1>1, AccountTypes DEF AccountsInv
    <2>2. account[q].owner = Unowned => account'[q].owner = Unowned
        BY <1>5, <1>3, PersonalAssumption DEF AccountMoved
    <2>3. intent[q].doc \in Requests /\ account[intent[q].doc].owner \in Owners =>
             account'[intent[q].doc].owner = account[intent[q].doc].owner
        BY PersonalAssumption DEF AccountMoved
    <2> QED BY <1>4, <1>5, <2>1, <2>2, <2>3 DEF AccountHandler, OwnerOf
<1>6. ASSUME NEW q \in Requests, ~ Received(q)' PROVE account'[q].owner = Unowned
    <2>1. ~ Received(q) /\ q /= r /\ account[q].owner = Unowned
        BY <1>1, <1>3, <1>6 DEF AccountMoved, Received, AccountsInv
    <2> QED BY <2>1, <1>3, PersonalAssumption DEF AccountMoved
<1>7. ASSUME NEW o \in Owners, Calm(o, "accounts")' PROVE AccountsInOrder(o)'
    <2>1. Calm(o, "accounts")
        BY <1>7 DEF AccountMoved, Calm
    <2> QED BY <2>1, <1>7, OthersAccounts
<1> QED BY <1>5, <1>6, <1>7 DEF AccountsInv

(* The handler at an account of a user whose accounts are calm. *)
AtWork(r, o) ==
    /\ PersonalInv /\ r \in Requests /\ at[r] \in AccountSteps /\ o \in Owners /\ o = intent[r].owner
    /\ Calm(o, "accounts")

LEMMA AccountAtWork ==
    ASSUME NEW r, NEW o, AtWork(r, o)
    PROVE  /\ r \in Requests /\ AccountHandlers(o) = {r} /\ AllEqual(Flagged(o))
           /\ o /= Unowned /\ intent[r].doc \in Requests
           /\ \A a \in AccountsOf(o) :
                 account[a].default /\ ~ account[a].active =>
                     \/ DefaultByEdit(a)
                     \/ /\ op[r] = "dropAccount"
                        /\ \/ at[r] = "pickDefault" /\ a = intent[r].doc
                           \/ at[r] = "preSave" /\ ~ intent[r].was /\ a /= intent[r].doc
<1>1. AccountsInOrder(o) /\ r \in AccountHandlers(o) /\ AccountHandler(r)
    BY DEF AtWork, PersonalInv, AccountsInv, AccountHandlers, OwnerOf
<1>2. AccountHandlers(o) = {r}
    BY <1>1 DEF AccountsInOrder, AllEqual
<1> QED BY <1>1, <1>2, PersonalAssumption DEF AtWork, AccountsInOrder, TakenOver, AccountHandler

(* The handlers at a user's accounts after a step of the one. *)
LEMMA AtWorkNext ==
    ASSUME NEW r, NEW o, AtWork(r, o), NEW step \in PersonalSteps, AccountMoved(r, step)
    PROVE  /\ AccountHandlers(o)' = IF step \in AccountSteps THEN {r} ELSE {}
           /\ at'[r] = step /\ intent'[r].owner = o /\ AllEqual(AccountHandlers(o)')
           /\ \A a \in Requests : DefaultByEdit(a) => DefaultByEdit(a)'
<1>1. AccountHandlers(o) = {r} /\ r \in Requests
    BY AccountAtWork
<1>2. PersonalTypes
    BY DEF AtWork, PersonalInv
<1>4. \A q \in Requests \ {r} : at'[q] = at[q] /\ intent'[q] = intent[q] /\ op'[q] = op[q]
    BY <1>2 DEF AccountMoved, Moves, PersonalTypes
<1>5. at'[r] = step /\ intent'[r].owner = o
    BY <1>1, <1>2 DEF AccountMoved, Moves, PersonalTypes, AtWork
<1>6. AccountHandlers(o)' = IF step \in AccountSteps THEN {r} ELSE {}
    BY <1>1, <1>4, <1>5 DEF AccountHandlers, OwnerOf
<1>7. op[r] = "editAccount" => intent'[r] = intent[r]
    BY <1>1 DEF AccountMoved, Moves, Received
<1>8. \A a \in Requests : DefaultByEdit(a) => DefaultByEdit(a)'
    BY <1>4, <1>7 DEF DefaultByEdit, AccountMoved
<1> QED BY <1>5, <1>6, <1>8 DEF AllEqual

LEMMA DemotedAccounts ==
    ASSUME PersonalInv, NEW r \in Requests, at[r] \in AccountSteps, NEW o, o = intent[r].owner
    PROVE  /\ Demoted(r) \in [Requests -> Account]
           /\ \A a \in Requests :
                 /\ Demoted(r)[a].owner = account[a].owner /\ Demoted(r)[a].active = account[a].active
                 /\ account[a].owner /= o => Demoted(r)[a] = account[a]
                 /\ a = intent[r].doc => Demoted(r)[a] = account[a]
                 /\ account[a].owner = o /\ a /= intent[r].doc => Demoted(r)[a].default = FALSE
                 /\ Demoted(r)[a].default => account[a].default
<1>1. PersonalTypes
    BY DEF PersonalInv
<1>2. ASSUME NEW a \in Requests
      PROVE  /\ Demoted(r)[a] \in Account
             /\ Demoted(r)[a].owner = account[a].owner /\ Demoted(r)[a].active = account[a].active
             /\ account[a].owner /= o => Demoted(r)[a] = account[a]
             /\ a = intent[r].doc => Demoted(r)[a] = account[a]
             /\ account[a].owner = o /\ a /= intent[r].doc => Demoted(r)[a].default = FALSE
             /\ Demoted(r)[a].default => account[a].default
    <2>1. account[a] \in Account
        BY <1>1 DEF PersonalTypes, PersonalTypeOK
    <2>2. CASE account[a].owner = o /\ a /= intent[r].doc
        <3>1. Demoted(r)[a] = [account[a] EXCEPT !.default = FALSE]
            BY <2>2 DEF Demoted, OwnerOf
        <3> QED BY <3>1, <2>1, <2>2 DEF Account
    <2>3. CASE ~ (account[a].owner = o /\ a /= intent[r].doc)
        <3>1. Demoted(r)[a] = account[a]
            BY <2>3 DEF Demoted, OwnerOf
        <3> QED BY <3>1, <2>1, <2>3
    <2> QED BY <2>2, <2>3
<1>3. Demoted(r) \in [Requests -> Account]
    BY <1>2 DEF Demoted
<1> QED BY <1>2, <1>3

LEMMA UnsettingAccounts ==
    ASSUME PersonalInv, NEW r \in Requests, UnsetOthers(r)
    PROVE  AccountsInv' /\ account' \in [Requests -> Account]
<1> DEFINE o == intent[r].owner  a == intent[r].doc
<1>1. PersonalTypes /\ AccountsInv /\ AccountHandler(r) /\ at[r] = "unsetOthers" /\ o \in Owners
    BY DEF PersonalInv, AccountsInv, AccountHandler, UnsetOthers, At, AccountSteps, OwnerOf
<1>2. Moves(r, "preSave") /\ op' = op /\ intent' = intent /\ overlapped' = overlapped /\ at'[r] = "preSave"
    BY <1>1, Stepped DEF UnsetOthers, AccountSteps, History, PersonalSteps
<1>3. account' = Demoted(r)
    BY DEF UnsetOthers
<1>4. AccountMoved(r, "preSave") /\ account' \in [Requests -> Account]
    BY <1>1, <1>2, <1>3, DemotedAccounts DEF AccountMoved, AccountSteps
<1>5. AccountHandler(r)'
    BY <1>1, <1>2, <1>3, DemotedAccounts DEF AccountHandler, AccountSteps, OwnerOf
<1>6. ASSUME Calm(o, "accounts") PROVE AccountsInOrder(o)'
    <2> PICK u \in Owners : u = o BY <1>1
    <2>1. AtWork(r, u)
        BY <1>1, <1>6 DEF AtWork, AccountSteps
    <2>2. /\ AccountHandlers(u)' = {r} /\ at'[r] = "preSave" /\ AllEqual(AccountHandlers(u)')
          /\ \A b \in Requests : DefaultByEdit(b) => DefaultByEdit(b)'
        BY <2>1, <1>4, AtWorkNext DEF AccountSteps, PersonalSteps
    <2>8. \A b \in Requests : account'[b].owner = account[b].owner
                             /\ (account[b].owner = u /\ b /= a => account'[b].default = FALSE)
        BY <1>1, <1>3, DemotedAccounts DEF AccountSteps
    <2>3. Flagged(u)' \subseteq {a}
        BY <2>8 DEF Flagged, ActiveAccounts, AccountsOf
    <2>4. (\A b \in AccountsOf(u) : account[b].default /\ ~ account[b].active => DefaultByEdit(b))'
        <3> SUFFICES ASSUME NEW b \in Requests, account'[b].owner = u, account'[b].default,
                            ~ account'[b].active
                     PROVE  DefaultByEdit(b)'
            BY DEF AccountsOf
        <3>1. b \in AccountsOf(u) /\ account[b].default /\ ~ account[b].active
            BY <1>1, <1>3, DemotedAccounts DEF AccountsOf, AccountSteps
        <3> QED BY <3>1, <1>1, <2>1, <2>2, AccountAtWork
    <2>5. op[r] /= "dropAccount"
        BY <1>1 DEF AccountHandler, AccountSteps
    <2> HIDE DEF o, a
    <2>6. AllEqual(Flagged(u)')
        BY <2>3 DEF AllEqual
    <2>7. AccountsInOrder(u)'
        BY <1>2, <2>2, <2>3, <2>4, <2>5, <2>6 DEF AccountsInOrder, a
    <2> QED BY <2>7, <1>2 DEF o
<1>7. PICK u \in Owners : u = o BY <1>1
<1>8. Calm(u, "accounts") => AccountsInOrder(u)'
    BY <1>6, <1>7, <1>2
<1> QED BY <1>1, <1>4, <1>5, <1>7, <1>8, AccountStepped DEF AccountSteps, PersonalSteps

LEMMA PreSavingAccounts ==
    ASSUME PersonalInv, NEW r \in Requests, PreSave(r)
    PROVE  AccountsInv' /\ account' \in [Requests -> Account]
<1> DEFINE o == intent[r].owner  a == intent[r].doc
<1>1. PersonalTypes /\ AccountsInv /\ AccountHandler(r) /\ at[r] = "preSave" /\ o \in Owners
    BY DEF PersonalInv, AccountsInv, AccountHandler, PreSave, At, AccountSteps, OwnerOf
<1>2. Moves(r, "save") /\ op' = op /\ intent' = intent /\ overlapped' = overlapped /\ at'[r] = "save"
    BY <1>1, Stepped DEF PreSave, AccountSteps, History, PersonalSteps
<1>3. account' = IF intent[r].was THEN account ELSE Demoted(r)
    BY DEF PreSave
<1>4. /\ account' \in [Requests -> Account]
      /\ \A b \in Requests :
             /\ account'[b].owner = account[b].owner /\ account'[b].active = account[b].active
             /\ account[b].owner /= o => account'[b] = account[b]
             /\ b = a => account'[b] = account[b]
             /\ ~ intent[r].was /\ account[b].owner = o /\ b /= a => account'[b].default = FALSE
             /\ account'[b].default => account[b].default
    BY <1>1, <1>3, DemotedAccounts DEF AccountSteps, PersonalTypes, PersonalTypeOK
<1>5. AccountMoved(r, "save")
    BY <1>1, <1>2, <1>4 DEF AccountMoved
<1>6. AccountHandler(r)'
    BY <1>1, <1>2, <1>4 DEF AccountHandler, AccountSteps, OwnerOf
<1>7. PICK u \in Owners : u = o BY <1>1
<1>8. ASSUME Calm(u, "accounts") PROVE AccountsInOrder(u)'
    <2>1. AtWork(r, u)
        BY <1>1, <1>7, <1>8 DEF AtWork, AccountSteps
    <2>2. /\ AccountHandlers(u)' = {r} /\ AllEqual(AccountHandlers(u)')
          /\ \A b \in Requests : DefaultByEdit(b) => DefaultByEdit(b)'
        BY <2>1, <1>5, AtWorkNext DEF AccountSteps, PersonalSteps
    <2>3. intent[r].was => Flagged(u) \subseteq {a}
        BY <1>1, <1>7, <1>8 DEF AccountsInv, AccountsInOrder, AccountHandlers, AccountSteps, OwnerOf
    <2>4. Flagged(u)' \subseteq {a} /\ Flagged(u)' \subseteq Flagged(u)
        BY <1>4, <1>7, <2>3 DEF Flagged, ActiveAccounts, AccountsOf
    <2>5. (\A b \in AccountsOf(u) : account[b].default /\ ~ account[b].active => DefaultByEdit(b))'
        <3> SUFFICES ASSUME NEW b \in Requests, account'[b].owner = u, account'[b].default,
                            ~ account'[b].active
                     PROVE  DefaultByEdit(b)'
            BY DEF AccountsOf
        <3>1. b \in AccountsOf(u) /\ account[b].default /\ ~ account[b].active
            BY <1>4 DEF AccountsOf
        <3>2. ~ intent[r].was => b = a
            BY <1>4, <1>7
        <3> QED BY <3>1, <3>2, <1>1, <2>1, <2>2, AccountAtWork
    <2>6. op[r] = "dropAccount" => account'[a].active /\ intent[r].wish = "yes"
        <3>1. op[r] = "dropAccount" => account[a].active /\ intent[r].wish = "yes"
            BY <1>1, <1>7, <1>8 DEF AccountsInv, AccountsInOrder, AccountHandlers, AccountSteps, OwnerOf
        <3>2. a \in Requests
            BY <1>1 DEF AccountHandler, AccountSteps
        <3> QED BY <3>1, <3>2, <1>4
    <2> HIDE DEF o, a
    <2>7. AllEqual(Flagged(u)')
        BY <2>4 DEF AllEqual
    <2> QED BY <1>2, <2>2, <2>4, <2>5, <2>6, <2>7 DEF AccountsInOrder, a
<1> QED BY <1>1, <1>4, <1>5, <1>6, <1>7, <1>8, AccountStepped DEF AccountSteps, PersonalSteps

LEMMA SavingAccounts ==
    ASSUME PersonalInv, NEW r \in Requests, Save(r)
    PROVE  AccountsInv' /\ account' \in [Requests -> Account]
<1> DEFINE o == intent[r].owner  a == intent[r].doc  wish == intent[r].wish
<1>1. PersonalTypes /\ AccountsInv /\ AccountHandler(r) /\ at[r] = "save" /\ o \in Owners /\ a \in Requests
      /\ Received(r)
    BY DEF PersonalInv, AccountsInv, AccountHandler, Save, At, AccountSteps, OwnerOf, Received
<1>2. Moves(r, "done") /\ op' = op /\ intent' = intent /\ overlapped' = overlapped /\ at'[r] = "done"
    BY <1>1, Stepped DEF Save, AccountSteps, History, PersonalSteps, Finished
<1>3. PICK u \in Owners : u = o BY <1>1
<1>4. /\ account' \in [Requests -> Account]
      /\ \A b \in Requests : b /= a => account'[b] = account[b]
      /\ account'[a].owner = u
      /\ IF op[r] = "addAccount"
           THEN a = r /\ account[r].owner = Unowned /\ account'[a].active
                /\ account'[a].default = (wish = "yes")
           ELSE /\ account[a].owner = u
                /\ intent[r].on /= "no" /\ account[a].active => account'[a].active
                /\ wish /= "yes" /\ account'[a].default => account[a].default
    <2>1. account \in [Requests -> Account] /\ wish \in Wishes /\ account[a].default \in BOOLEAN
          /\ intent[r].on \in Wishes /\ account[a].active \in BOOLEAN
        BY <1>1, AccountTypes DEF PersonalTypes, PersonalTypeOK
    <2>2. CASE op[r] = "addAccount"
        <3>1. account' = [account EXCEPT ![a] = [owner |-> o, active |-> TRUE, default |-> wish = "yes"]]
            BY <2>2 DEF Save, OwnerOf
        <3>2. [owner |-> o, active |-> TRUE, default |-> wish = "yes"] \in Account
            BY <1>1 DEF Account
        <3> QED BY <1>1, <1>3, <2>1, <2>2, <3>1, <3>2 DEF AccountHandler, AccountSteps, OwnerOf
    <2>3. CASE op[r] /= "addAccount"
        <3> DEFINE new == Written(wish, intent[r].was, account[a].default)
                   kept == Written(intent[r].on, intent[r].wasOn, account[a].active)
        <3>1. account' = [account EXCEPT ![a].default = new, ![a].active = kept]
            BY <2>3 DEF Save
        <3>2. /\ new \in BOOLEAN /\ (wish /= "yes" /\ new => account[a].default)
              /\ kept \in BOOLEAN /\ (intent[r].on /= "no" /\ account[a].active => kept)
            BY <2>1 DEF Written, Wishes
        <3>3. account[a].owner = o
            BY <1>1, <2>3 DEF AccountHandler, AccountSteps, OwnerOf
        <3> HIDE DEF new, kept
        <3>4. account'[a] = [account[a] EXCEPT !.default = new, !.active = kept] /\ account[a] \in Account
            BY <3>1, <2>1, <1>1 DEF Account
        <3>5. account'[a].default = new /\ account'[a].owner = o /\ account'[a].active = kept
              /\ account'[a] \in Account
            BY <3>2, <3>3, <3>4 DEF Account
        <3>6. account' \in [Requests -> Account] /\ \A b \in Requests : b /= a => account'[b] = account[b]
            BY <3>1, <3>4, <3>5, <2>1
        <3> QED BY <1>1, <1>3, <2>1, <2>3, <3>2, <3>3, <3>5, <3>6
    <2> QED BY <2>2, <2>3
<1>5. AccountMoved(r, "done")
    BY <1>1, <1>2, <1>3, <1>4 DEF AccountMoved
<1>6. AccountHandler(r)'
    BY <1>2 DEF AccountHandler, AccountSteps
<1>8. ASSUME Calm(u, "accounts") PROVE AccountsInOrder(u)'
    <2>1. AtWork(r, u) /\ u /= Unowned
        BY <1>1, <1>3, <1>8, PersonalAssumption DEF AtWork, AccountSteps
    <2>2. /\ AccountHandlers(u)' = {} /\ AllEqual(AccountHandlers(u)')
          /\ \A b \in Requests : DefaultByEdit(b) => DefaultByEdit(b)'
        BY <2>1, <1>5, AtWorkNext DEF AccountSteps, PersonalSteps, Finished
    <2>3. /\ wish = "yes" => Flagged(u) \subseteq {a}
          /\ op[r] = "dropAccount" => account[a].active
        BY <1>1, <1>3, <1>8 DEF AccountsInv, AccountsInOrder, AccountHandlers, AccountSteps, OwnerOf
    <2>4. \/ Flagged(u)' \subseteq {a}
          \/ Flagged(u)' \subseteq Flagged(u)
        BY <1>4, <2>3 DEF Flagged, ActiveAccounts, AccountsOf
    <2>5. (\A b \in AccountsOf(u) : account[b].default /\ ~ account[b].active => DefaultByEdit(b))'
        <3> SUFFICES ASSUME NEW b \in Requests, account'[b].owner = u, account'[b].default,
                            ~ account'[b].active
                     PROVE  DefaultByEdit(b)'
            BY DEF AccountsOf
        <3>1. CASE b /= a
            BY <3>1, <1>1, <1>4, <2>1, <2>2, AccountAtWork DEF AccountsOf
        <3>2. CASE b = a
            <4>1. CASE op[r] = "editAccount" /\ (wish = "yes" \/ intent[r].on = "no")
                BY <4>1, <3>2, <1>2 DEF DefaultByEdit
            <4>2. CASE op[r] = "addAccount"
                BY <4>2, <3>2, <1>4
            <4>3. CASE op[r] = "dropAccount"
                BY <4>3, <3>2, <1>1, <1>4, <2>3 DEF AccountHandler, AccountSteps
            <4>4. CASE op[r] = "editAccount" /\ wish /= "yes" /\ intent[r].on /= "no"
                BY <4>4, <3>2, <1>1, <1>4, <2>1, <2>2, AccountAtWork DEF AccountsOf
            <4>5. op[r] \in {"addAccount", "editAccount", "dropAccount"}
                BY <1>1 DEF AccountHandler, AccountSteps
            <4> QED BY <4>1, <4>2, <4>3, <4>4, <4>5
        <3> QED BY <3>1, <3>2
    <2>7. AllEqual(Flagged(u)')
        BY <2>4, <2>1, AccountAtWork DEF AllEqual
    <2> QED BY <2>2, <2>5, <2>7 DEF AccountsInOrder
<1> QED BY <1>1, <1>3, <1>4, <1>5, <1>6, <1>8, AccountStepped DEF AccountSteps, PersonalSteps, Finished

LEMMA CountingAccounts ==
    ASSUME PersonalInv, NEW r \in Requests, CountActive(r)
    PROVE  AccountsInv'
<1> DEFINE a == intent[r].doc
<1>1. PersonalTypes /\ AccountsInv /\ AccountHandler(r) /\ at[r] = "countActive"
    BY DEF PersonalInv, AccountsInv, AccountHandler, CountActive, At, AccountSteps, OwnerOf
<1>2. PICK u \in Owners : u = intent[r].owner
    BY <1>1 DEF AccountHandler, AccountSteps, OwnerOf
<1>3. PICK step \in {"failed", "deactivate"} :
         /\ Goto(r, step)
         /\ step = "deactivate" => ~ (intent[r].was /\ Cardinality(ActiveAccounts(u)) = 1)
    BY <1>2 DEF CountActive, OwnerOf
<1>4. step \in PersonalSteps /\ UNCHANGED <<account, intent, overlapped>>
    BY DEF PersonalSteps, AccountSteps, Finished, CountActive, personalVars
<1>5. Moves(r, step) /\ op' = op /\ at'[r] = step
    BY <1>1, <1>3, <1>4, Stepped DEF AccountSteps
<1>6. AccountMoved(r, step)
    BY <1>4, <1>5 DEF AccountMoved
<1>7. AccountHandler(r)'
    BY <1>1, <1>4, <1>5 DEF AccountHandler, AccountSteps, OwnerOf
<1>8. ASSUME Calm(u, "accounts") PROVE AccountsInOrder(u)'
    <2>1. AtWork(r, u)
        BY <1>1, <1>2, <1>8 DEF AtWork, AccountSteps
    <2>2. /\ AccountHandlers(u)' \subseteq {r} /\ AllEqual(AccountHandlers(u)')
          /\ step = "failed" => AccountHandlers(u)' = {}
          /\ \A b \in Requests : DefaultByEdit(b) => DefaultByEdit(b)'
        BY <2>1, <1>4, <1>6, AtWorkNext DEF AccountSteps
    <2>3. (\A b \in AccountsOf(u) : account[b].default /\ ~ account[b].active => DefaultByEdit(b))'
        BY <1>1, <1>4, <2>1, <2>2, AccountAtWork DEF AccountsOf
    <2>4. AllEqual(Flagged(u)')
        BY <1>4, <2>1, AccountAtWork DEF AllEqual, Flagged, ActiveAccounts, AccountsOf
    <2>5. /\ intent[r].was = account[a].default /\ intent[r].wasOn = account[a].active
          /\ a \in Requests /\ account[a].owner = u
        <3>1. r \in AccountHandlers(u)
            BY <1>1, <1>2 DEF AccountHandlers, AccountSteps, OwnerOf
        <3>2. AccountsInOrder(u)
            BY <1>1, <1>8 DEF AccountsInv
        <3>3. intent[r].was = account[a].default /\ intent[r].wasOn = account[a].active
            BY <1>1, <3>1, <3>2 DEF AccountsInOrder
        <3>4. a \in Requests /\ account[a].owner = u
            BY <1>1, <1>2 DEF AccountHandler, AccountSteps, OwnerOf
        <3> QED BY <3>3, <3>4
    <2>6. step = "deactivate" /\ intent[r].was /\ account[a].active => ActiveAccounts(u) \ {a} /= {}
        <3> SUFFICES ASSUME step = "deactivate", intent[r].was, account[a].active,
                            ActiveAccounts(u) \ {a} = {}
                     PROVE  FALSE
            OBVIOUS
        <3>1. ActiveAccounts(u) = {a}
            BY <2>5 DEF ActiveAccounts, AccountsOf
        <3> QED BY <3>1, <1>3, FS_Singleton
    <2>7. ActiveAccounts(u)' = ActiveAccounts(u)
        BY <1>4 DEF ActiveAccounts, AccountsOf
    <2> QED BY <1>3, <1>4, <1>5, <2>2, <2>3, <2>4, <2>5, <2>6, <2>7 DEF AccountsInOrder
<1> QED BY <1>1, <1>2, <1>4, <1>6, <1>7, <1>8, AccountStepped DEF AccountSteps

LEMMA DeactivatingAccounts ==
    ASSUME PersonalInv, NEW r \in Requests, Deactivate(r)
    PROVE  AccountsInv' /\ account' \in [Requests -> Account]
<1>0. PICK a \in Requests : a = intent[r].doc
    BY DEF PersonalInv, AccountsInv, AccountHandler, Deactivate, At, AccountSteps
<1>1. PersonalTypes /\ AccountsInv /\ AccountHandler(r) /\ at[r] = "deactivate" /\ a = intent[r].doc
    BY <1>0 DEF PersonalInv, AccountsInv, AccountHandler, Deactivate, At, AccountSteps, OwnerOf
<1>2. PICK u \in Owners : u = intent[r].owner
    BY <1>1 DEF AccountHandler, AccountSteps, OwnerOf
<1>3. PICK step \in {"done", "pickDefault"} :
         Goto(r, step) /\ step = (IF intent[r].was THEN "pickDefault" ELSE "done")
    BY DEF Deactivate
<1>4. step \in PersonalSteps /\ UNCHANGED <<intent, overlapped>>
    BY DEF PersonalSteps, AccountSteps, Finished, Deactivate, History
<1>5. Moves(r, step) /\ op' = op /\ at'[r] = step
    BY <1>1, <1>3, <1>4, Stepped DEF AccountSteps
<1>6. /\ account' \in [Requests -> Account] /\ account'[a].owner = u /\ account[a].owner = u
      /\ account'[a].default = account[a].default
      /\ intent[r].wasOn = account[a].active => account'[a].active = FALSE
      /\ \A b \in Requests : b /= a => account'[b] = account[b]
    <2> DEFINE kept == Written("no", intent[r].wasOn, account[a].active)
    <2>1. account' = [account EXCEPT ![a].active = kept] /\ account \in [Requests -> Account]
        BY <1>1 DEF Deactivate, PersonalTypes, PersonalTypeOK
    <2>3. kept \in BOOLEAN /\ (intent[r].wasOn = account[a].active => kept = FALSE)
        BY <1>1, AccountTypes DEF Written
    <2>2. account[a].owner = u
        BY <1>1, <1>2 DEF AccountHandler, AccountSteps, OwnerOf
    <2> HIDE DEF kept
    <2> QED BY <2>1, <2>2, <2>3, <1>1 DEF Account
<1>7. AccountMoved(r, step)
    BY <1>2, <1>4, <1>5, <1>6 DEF AccountMoved
<1>8. AccountHandler(r)'
    BY <1>1, <1>2, <1>4, <1>5, <1>6 DEF AccountHandler, AccountSteps, OwnerOf
<1>9. ASSUME Calm(u, "accounts") PROVE AccountsInOrder(u)'
    <2>1. AtWork(r, u)
        BY <1>1, <1>2, <1>9 DEF AtWork, AccountSteps
    <2>2. /\ AccountHandlers(u)' = (IF step = "pickDefault" THEN {r} ELSE {})
          /\ AllEqual(AccountHandlers(u)') /\ \A b \in Requests : DefaultByEdit(b) => DefaultByEdit(b)'
        BY <2>1, <1>4, <1>7, AtWorkNext DEF AccountSteps
    <2>3. /\ intent[r].was = account[a].default
          /\ intent[r].was /\ account[a].active => ActiveAccounts(u) \ {a} /= {}
          /\ account'[a].active = FALSE
        BY <1>1, <1>2, <1>6, <1>9 DEF AccountsInv, AccountsInOrder, AccountHandlers, AccountSteps, OwnerOf
    <2>4. /\ Flagged(u)' = Flagged(u)
          /\ ActiveAccounts(u)' = ActiveAccounts(u) \ {a}
          /\ a \in AccountsOf(u)
        BY <1>1, <1>6, <2>3 DEF Flagged, ActiveAccounts, AccountsOf
    <2>5. (\A b \in AccountsOf(u) : account[b].default /\ ~ account[b].active =>
                                       DefaultByEdit(b) \/ TakenOver(u, b))'
        <3> SUFFICES ASSUME NEW b \in Requests, account'[b].owner = u, account'[b].default,
                            ~ account'[b].active
                     PROVE  DefaultByEdit(b)' \/ TakenOver(u, b)'
            BY DEF AccountsOf
        <3>1. CASE b /= a
            BY <3>1, <1>1, <1>6, <2>1, <2>2, AccountAtWork DEF AccountsOf
        <3>2. CASE b = a
            <4>1. intent[r].was /\ step = "pickDefault"
                BY <3>2, <1>3, <1>6, <2>3
            <4>2. op[r] = "dropAccount"
                BY <1>1 DEF AccountHandler, AccountSteps
            <4> QED BY <4>1, <4>2, <3>2, <1>1, <1>4, <1>5, <2>2 DEF TakenOver
        <3> QED BY <3>1, <3>2
    <2>6. account[a].default /\ ~ DefaultByEdit(a)' =>
             ActiveAccounts(u)' \ {a} /= {} /\ Flagged(u)' = {a}
        <3> SUFFICES ASSUME account[a].default, ~ DefaultByEdit(a)'
                     PROVE  ActiveAccounts(u)' \ {a} /= {} /\ Flagged(u)' = {a}
            OBVIOUS
        <3>1. ~ DefaultByEdit(a)
            BY <1>1, <2>2
        <3>2. account[a].active
            BY <3>1, <1>1, <2>1, <2>4, AccountAtWork
        <3>3. a \in Flagged(u)
            BY <2>4 DEF Flagged
        <3>4. AllEqual(Flagged(u))
            BY <2>1, AccountAtWork
        <3> QED BY <3>2, <3>3, <3>4, <2>3, <2>4 DEF AllEqual
    <2>7. AllEqual(Flagged(u)')
        BY <2>4, <2>1, AccountAtWork DEF AllEqual
    <2>8. \A q \in AccountHandlers(u)' : q = r
        BY <2>2
    <2> QED BY <1>1, <1>3, <1>4, <1>5, <1>6, <2>2, <2>5, <2>6, <2>7, <2>8 DEF AccountsInOrder
<1> QED BY <1>1, <1>2, <1>4, <1>6, <1>7, <1>8, <1>9, AccountStepped DEF AccountSteps

LEMMA PickingDefault ==
    ASSUME PersonalInv, NEW r \in Requests, PickDefault(r)
    PROVE  AccountsInv' /\ intent' \in [Requests -> Intent] /\ (\E step \in PersonalSteps : Moves(r, step)
              /\ step \in AccountSteps \cup Finished)
<1> DEFINE a == intent[r].doc
<1>1. PersonalTypes /\ AccountsInv /\ AccountHandler(r) /\ at[r] = "pickDefault" /\ a \in Requests
      /\ op[r] = "dropAccount"
    BY DEF PersonalInv, AccountsInv, AccountHandler, PickDefault, At, AccountSteps, OwnerOf
<1>2. PICK u \in Owners : u = intent[r].owner
    BY <1>1 DEF AccountHandler, AccountSteps, OwnerOf
<1>3. /\ UNCHANGED <<account, overlapped>> /\ AccountsOf(u)' = AccountsOf(u)
      /\ ActiveAccounts(u)' = ActiveAccounts(u) /\ Flagged(u)' = Flagged(u)
    BY DEF PickDefault, AccountsOf, ActiveAccounts, Flagged
<1>4. Calm(u, "accounts") =>
         /\ AtWork(r, u)
         /\ account[a].default /\ ~ DefaultByEdit(a) => ActiveAccounts(u) \ {a} /= {} /\ Flagged(u) = {a}
    BY <1>1, <1>2 DEF AtWork, AccountsInv, AccountsInOrder, AccountHandlers, AccountSteps, OwnerOf
<1>5. CASE ActiveAccounts(u) \ {a} = {} /\ Goto(r, "done") /\ UNCHANGED intent
    <2>1. "done" \in PersonalSteps
        BY DEF PersonalSteps, Finished
    <2>2. Moves(r, "done") /\ op' = op /\ at'[r] = "done"
        BY <1>1, <1>3, <1>5, <2>1, Stepped DEF AccountSteps
    <2>3. AccountMoved(r, "done")
        BY <1>3, <1>5, <2>2 DEF AccountMoved
    <2>4. AccountHandler(r)'
        BY <2>2 DEF AccountHandler, AccountSteps
    <2>5. ASSUME Calm(u, "accounts") PROVE AccountsInOrder(u)'
        <3>1. /\ AccountHandlers(u)' = {} /\ AllEqual(AccountHandlers(u)')
              /\ \A b \in Requests : DefaultByEdit(b) => DefaultByEdit(b)'
            BY <1>4, <2>1, <2>3, <2>5, AtWorkNext DEF AccountSteps
        <3>2. (\A b \in AccountsOf(u) : account[b].default /\ ~ account[b].active => DefaultByEdit(b))'
            BY <1>1, <1>3, <1>4, <1>5, <2>5, <3>1, AccountAtWork DEF AccountsOf
        <3>3. AllEqual(Flagged(u)')
            BY <1>3, <1>4, <2>5, AccountAtWork
        <3> QED BY <3>1, <3>2, <3>3 DEF AccountsInOrder
    <2>6. AccountsInv'
        BY <1>1, <1>2, <2>1, <2>3, <2>4, <2>5, AccountStepped DEF AccountSteps
    <2> QED BY <1>1, <1>5, <2>1, <2>2, <2>6 DEF PersonalTypes, PersonalTypeOK, Finished
<1>6. CASE \E n \in ActiveAccounts(u) \ {a} :
              /\ intent' = [intent EXCEPT ![r] = [@ EXCEPT !.doc = n, !.wish = "yes",
                                                           !.was = account[n].default]]
              /\ Goto(r, "preSave")
    <2>1. PICK n \in ActiveAccounts(u) \ {a} :
              /\ intent' = [intent EXCEPT ![r] = [@ EXCEPT !.doc = n, !.wish = "yes",
                                                           !.was = account[n].default]]
              /\ Goto(r, "preSave")
        BY <1>6
    <2>2. n \in Requests /\ account[n].owner = u /\ account[n].active /\ n /= a
          /\ account[n].default \in BOOLEAN
        BY <1>1, <2>1, AccountTypes DEF ActiveAccounts, AccountsOf
    <2>3. /\ intent' \in [Requests -> Intent] /\ intent'[r].doc = n /\ intent'[r].wish = "yes"
          /\ intent'[r].was = account[n].default /\ intent'[r].owner = u
          /\ intent'[r].matter = intent[r].matter /\ intent'[r].on = intent[r].on
          /\ \A q \in Requests \ {r} : intent'[q] = intent[q]
        <3>1. intent[r] \in Intent /\ intent \in [Requests -> Intent]
            BY <1>1, AccountTypes DEF PersonalTypes, PersonalTypeOK
        <3> QED BY <1>2, <2>1, <2>2, <3>1 DEF Intent, Wishes
    <2>4. "preSave" \in PersonalSteps /\ at'[r] = "preSave" /\ op' = op /\ Moves(r, "preSave")
        <3>1. "preSave" \in PersonalSteps
            BY DEF PersonalSteps, AccountSteps
        <3> QED BY <1>1, <1>3, <2>1, <2>3, <3>1 DEF Goto, Moves, PersonalTypes
    <2>5. AccountMoved(r, "preSave")
        BY <1>2, <1>3, <2>3, <2>4 DEF AccountMoved
    <2>6. AccountHandler(r)'
        BY <1>1, <1>2, <1>3, <2>2, <2>3, <2>4 DEF AccountHandler, AccountSteps, OwnerOf
    <2>7. ASSUME Calm(u, "accounts") PROVE AccountsInOrder(u)'
        <3>1. /\ AccountHandlers(u)' = {r} /\ AllEqual(AccountHandlers(u)')
              /\ \A b \in Requests : DefaultByEdit(b) => DefaultByEdit(b)'
            BY <1>4, <2>4, <2>5, <2>7, AtWorkNext DEF AccountSteps
        <3>2. AllEqual(Flagged(u)) /\ AllEqual(Flagged(u)')
            BY <1>3, <1>4, <2>7, AccountAtWork
        <3>3. account[n].default => Flagged(u) \subseteq {n}
            BY <2>1, <3>2 DEF AllEqual, Flagged, ActiveAccounts
        <3>4. (\A b \in AccountsOf(u) : account[b].default /\ ~ account[b].active =>
                                           DefaultByEdit(b) \/ TakenOver(u, b))'
            <4> SUFFICES ASSUME NEW b \in Requests, account[b].owner = u, account[b].default,
                                ~ account[b].active, ~ DefaultByEdit(b)
                         PROVE  TakenOver(u, b)'
                BY <1>3, <3>1 DEF AccountsOf
            <4>1. b = a /\ b /= n
                BY <1>1, <1>4, <2>2, <2>7, AccountAtWork DEF AccountsOf
            <4>2. Flagged(u) = {a}
                BY <4>1, <1>4, <2>7
            <4>3. ~ account[n].default
                BY <2>1, <2>2, <4>2 DEF Flagged, ActiveAccounts
            <4> QED BY <1>1, <2>3, <2>4, <3>1, <4>1, <4>3 DEF TakenOver
        <3> QED BY <1>3, <2>2, <2>3, <2>4, <3>1, <3>2, <3>3, <3>4 DEF AccountsInOrder
    <2>8. AccountsInv'
        BY <1>1, <1>2, <2>4, <2>5, <2>6, <2>7, AccountStepped DEF AccountSteps
    <2> QED BY <2>3, <2>4, <2>8 DEF AccountSteps
<1> QED BY <1>2, <1>5, <1>6 DEF PickDefault, OwnerOf

(* A request about an account. *)
LEMMA AccountAsked ==
    ASSUME PersonalInv, NEW r \in Requests, NEW o \in Owners, UNCHANGED account,
           NEW kind \in {"addAccount", "editAccount", "dropAccount"},
           NEW step \in {"unsetOthers", "save", "countActive"},
           NEW new \in Intent, new.owner = o, new.matter = "accounts", Ask(r, kind, step, new),
           new.doc \in Requests,
           IF kind = "addAccount" THEN new.doc = r /\ ~ new.was ELSE account[new.doc].owner = o,
           kind = "dropAccount" <=> step = "countActive", step = "unsetOthers" <=> new.wish = "yes",
           step = "countActive" => /\ new.was = account[new.doc].default
                                   /\ new.wasOn = account[new.doc].active /\ new.on = "unset"
    PROVE  AccountsInv'
<1>1. PersonalTypes /\ AccountsInv
    BY DEF PersonalInv
<1>2. kind \in PersonalKinds \ {"none"} /\ step \in PersonalSteps /\ step \in AccountSteps
    BY DEF PersonalKinds, PersonalSteps, AccountSteps
<1>3. /\ ~ Received(r) /\ op'[r] = kind /\ at'[r] = step /\ intent'[r] = new /\ Moves(r, step)
      /\ at[r] \notin AccountSteps
      /\ Calm(o, "accounts")' => ~ Meets(o, "accounts")
    BY <1>2, Asked
<1>4. /\ \A q \in Requests \ {r} : at'[q] = at[q] /\ intent'[q] = intent[q] /\ op'[q] = op[q]
      /\ overlapped \subseteq overlapped'
    BY <1>1, <1>3 DEF Moves, PersonalTypes
<1>5. AccountHandler(r)'
    BY <1>1, <1>2, <1>3 DEF AccountHandler, OwnerOf, AccountsInv
<1>6. ASSUME NEW q \in Requests PROVE (AccountHandler(q) /\ (~ Received(q) => account[q].owner = Unowned))'
    <2>1. CASE q = r
        BY <2>1, <1>3, <1>5 DEF Received
    <2>2. CASE q /= r
        <3>1. AccountHandler(q) /\ (~ Received(q) => account[q].owner = Unowned)
            BY <1>1 DEF AccountsInv
        <3> QED BY <3>1, <2>2, <1>4 DEF AccountHandler, OwnerOf, Received
    <2> QED BY <2>1, <2>2
<1>7. \A a \in Requests : DefaultByEdit(a) => DefaultByEdit(a)'
    BY <1>3, <1>4 DEF DefaultByEdit, Received
<1>8. \A u : /\ AccountsOf(u)' = AccountsOf(u) /\ ActiveAccounts(u)' = ActiveAccounts(u)
             /\ Flagged(u)' = Flagged(u)
    BY DEF AccountsOf, ActiveAccounts, Flagged
<1>9. ASSUME NEW u \in Owners, Calm(u, "accounts")' PROVE AccountsInOrder(u)'
    <2>1. Calm(u, "accounts") /\ AccountsInOrder(u)
        BY <1>1, <1>4, <1>9 DEF Calm, AccountsInv
    <2>2. CASE u = o
        <3>1. AccountHandlers(u) = {}
            <4> SUFFICES ASSUME NEW q \in AccountHandlers(u) PROVE FALSE
                OBVIOUS
            <4>1. q \in Requests /\ at[q] \in AccountSteps /\ intent[q].owner = u
                  /\ intent[q].matter = "accounts" /\ op[q] /= "none"
                BY <1>1 DEF AccountHandlers, AccountsInv, AccountHandler, OwnerOf
            <4> QED BY <4>1, <1>3, <1>9, <2>2 DEF Meets, Running, Received, AccountSteps, Finished
        <3>2. AccountHandlers(u)' = {r}
            BY <3>1, <1>2, <1>3, <1>4, <2>2 DEF AccountHandlers, OwnerOf
        <3>3. (\A a \in AccountsOf(u) : account[a].default /\ ~ account[a].active => DefaultByEdit(a))'
            BY <2>1, <3>1, <1>7, <1>8 DEF AccountsInOrder, TakenOver, AccountsOf
        <3>4. AllEqual(AccountHandlers(u))' /\ AllEqual(Flagged(u))'
            BY <2>1, <3>2, <1>8 DEF AccountsInOrder, AllEqual
        <3> QED BY <3>2, <3>3, <3>4, <1>3 DEF AccountsInOrder
    <2>3. CASE u /= o
        <3>1. AccountHandlers(u)' = AccountHandlers(u) /\ r \notin AccountHandlers(u)
            BY <1>3, <1>4, <2>3 DEF AccountHandlers, OwnerOf
        <3>2. ASSUME NEW q \in AccountHandlers(u)
              PROVE  /\ at'[q] = at[q] /\ intent'[q] = intent[q] /\ op'[q] = op[q]
                     /\ intent[q].doc \in Requests
            BY <1>1, <1>4, <3>1 DEF AccountHandlers, AccountsInv, AccountHandler
        <3>3. \A a \in Requests : TakenOver(u, a) => TakenOver(u, a)'
            BY <3>1, <3>2 DEF TakenOver
        <3>4. (\A a \in AccountsOf(u) : account[a].default /\ ~ account[a].active =>
                                           DefaultByEdit(a) \/ TakenOver(u, a))'
            BY <2>1, <1>7, <1>8, <3>3 DEF AccountsInOrder, AccountsOf
        <3>5. AllEqual(AccountHandlers(u))' /\ AllEqual(Flagged(u))'
            BY <2>1, <3>1, <1>8 DEF AccountsInOrder, AllEqual
        <3> QED BY <2>1, <1>7, <1>8, <3>1, <3>2, <3>4, <3>5 DEF AccountsInOrder
    <2> QED BY <2>2, <2>3
<1> QED BY <1>6, <1>9 DEF AccountsInv

(* What is the same for the requests, and for the steps, of every matter. *)
KeptBut(steps) ==
    \A S \in {AccountSteps, PaperSteps, ContactSteps, RatingSteps} : S /= steps => Kept(S)

Handling ==
    /\ op' \in [Requests -> PersonalKinds] /\ at' \in [Requests -> PersonalSteps] /\ stops' \in Nat
    /\ overlapped' \subseteq Owners \X Matters /\ intent' \in [Requests -> Intent]

LEMMA OtherSteps ==
    ASSUME PersonalInv, NEW r \in Requests, NEW step, Moves(r, step),
           NEW S \in {AccountSteps, PaperSteps, ContactSteps, RatingSteps},
           step \in S \cup Finished, at[r] \in S \/ at[r] \notin UNION {AccountSteps, PaperSteps, ContactSteps, RatingSteps}
    PROVE  KeptBut(S)
<1> SUFFICES ASSUME NEW T \in {AccountSteps, PaperSteps, ContactSteps, RatingSteps}, T /= S
             PROVE  Kept(T)
    BY DEF KeptBut
<1>1. T \cap (S \cup Finished) = {}
    BY DEF AccountSteps, PaperSteps, ContactSteps, RatingSteps, Finished
<1>2. PersonalTypes
    BY DEF PersonalInv
<1> QED BY <1>1, <1>2, OthersKept

LEMMA AccountRequest ==
    ASSUME PersonalInv, NEW r \in Requests, NEW o \in Owners, AccountRequests(r, o)
    PROVE  AccountsInv' /\ UNCHANGED account /\ OthersUntouched /\ Handling /\ KeptBut(AccountSteps)
<1>1. PersonalTypes
    BY DEF PersonalInv
<1>2. ASSUME UNCHANGED account, OthersUntouched,
             NEW kind \in {"addAccount", "editAccount", "dropAccount"},
             NEW step \in {"unsetOthers", "save", "countActive"},
             NEW new \in Intent, new.owner = o, new.matter = "accounts", Ask(r, kind, step, new),
             new.doc \in Requests,
             IF kind = "addAccount" THEN new.doc = r /\ ~ new.was ELSE account[new.doc].owner = o,
             kind = "dropAccount" <=> step = "countActive",
             step = "unsetOthers" <=> new.wish = "yes",
             step = "countActive" => /\ new.was = account[new.doc].default
                                     /\ new.wasOn = account[new.doc].active /\ new.on = "unset"
      PROVE  AccountsInv' /\ UNCHANGED account /\ OthersUntouched /\ Handling /\ KeptBut(AccountSteps)
    <2>1. kind \in PersonalKinds \ {"none"} /\ step \in PersonalSteps /\ step \in AccountSteps
        BY DEF PersonalKinds, PersonalSteps, AccountSteps
    <2>2. AccountsInv'
        BY <1>2, AccountAsked
    <2>3. /\ Handling /\ Moves(r, step)
          /\ at[r] \notin UNION {AccountSteps, PaperSteps, ContactSteps, RatingSteps}
        BY <1>2, <2>1, Asked DEF Handling
    <2> QED BY <1>2, <2>1, <2>2, <2>3, OtherSteps
<1>3. ASSUME NEW default \in {"yes", "no"}, CreateBankAccount(r, o, default)
      PROVE  AccountsInv' /\ UNCHANGED account /\ OthersUntouched /\ Handling /\ KeptBut(AccountSteps)
    <2> DEFINE new == [NoIntent EXCEPT !.owner = o, !.doc = r, !.wish = default]
               step == IF default = "yes" THEN "unsetOthers" ELSE "save"
    <2>1. new \in Intent /\ new.owner = o /\ new.matter = "accounts" /\ new.doc = r /\ new.wish = default
          /\ ~ new.was
        BY NoIntentTyped DEF NoIntent, Intent, Wishes
    <2>2. Ask(r, "addAccount", step, new) /\ UNCHANGED account /\ OthersUntouched
        BY <1>3 DEF CreateBankAccount
    <2>3. step \in {"unsetOthers", "save"} /\ (step = "unsetOthers" <=> default = "yes")
        OBVIOUS
    <2> HIDE DEF new, step
    <2> QED BY <1>2, <2>1, <2>2, <2>3
<1>4. ASSUME NEW a \in Requests, DeleteBankAccount(r, o, a)
      PROVE  AccountsInv' /\ UNCHANGED account /\ OthersUntouched /\ Handling /\ KeptBut(AccountSteps)
    <2> DEFINE new == [NoIntent EXCEPT !.owner = o, !.doc = a, !.was = account[a].default,
                                       !.wasOn = account[a].active]
    <2>1. new \in Intent /\ new.owner = o /\ new.matter = "accounts" /\ new.doc = a /\ new.wish = "unset"
          /\ new.was = account[a].default /\ new.wasOn = account[a].active /\ new.on = "unset"
        BY <1>1, NoIntentTyped, AccountTypes DEF NoIntent, Intent, Wishes
    <2>2. Ask(r, "dropAccount", "countActive", new) /\ UNCHANGED account /\ OthersUntouched
          /\ account[a].owner = o
        BY <1>4 DEF DeleteBankAccount, AccountsOf
    <2> HIDE DEF new
    <2> QED BY <1>2, <2>1, <2>2
<1>5. ASSUME NEW a \in Requests, NEW default \in Wishes, NEW on \in Wishes,
             UpdateBankAccount(r, o, a, default, on)
      PROVE  AccountsInv' /\ UNCHANGED account /\ OthersUntouched /\ Handling /\ KeptBut(AccountSteps)
    <2> DEFINE new == [NoIntent EXCEPT !.owner = o, !.doc = a, !.wish = default, !.was = account[a].default,
                                       !.on = on, !.wasOn = account[a].active]
               step == IF default = "yes" THEN "unsetOthers" ELSE "save"
    <2>1. new \in Intent /\ new.owner = o /\ new.matter = "accounts" /\ new.doc = a /\ new.wish = default
        BY <1>1, NoIntentTyped, AccountTypes DEF NoIntent, Intent, Wishes
    <2>2. Ask(r, "editAccount", step, new) /\ UNCHANGED account /\ OthersUntouched
          /\ account[a].owner = o
        BY <1>5 DEF UpdateBankAccount, AccountsOf
    <2>3. step \in {"unsetOthers", "save"} /\ (step = "unsetOthers" <=> default = "yes")
        OBVIOUS
    <2> HIDE DEF new, step
    <2> QED BY <1>2, <2>1, <2>2, <2>3
<1> QED BY <1>3, <1>4, <1>5 DEF AccountRequests

AccountActions(r) ==
    UnsetOthers(r) \/ PreSave(r) \/ Save(r) \/ CountActive(r) \/ Deactivate(r) \/ PickDefault(r)

LEMMA AccountAction ==
    ASSUME PersonalInv, NEW r \in Requests, AccountActions(r)
    PROVE  /\ AccountsInv' /\ account' \in [Requests -> Account] /\ OthersUntouched
           /\ Handling /\ KeptBut(AccountSteps)
<1>1. PersonalTypes
    BY DEF PersonalInv
<1>2. ASSUME NEW step \in AccountSteps \cup Finished, Goto(r, step), Moves(r, step), at[r] \in AccountSteps,
             overlapped' = overlapped, intent' \in [Requests -> Intent]
      PROVE  Handling /\ KeptBut(AccountSteps)
    <2>1. step \in PersonalSteps
        BY DEF PersonalSteps
    <2>2. Handling
        BY <1>1, <1>2, <2>1, Stepped DEF Handling, PersonalTypes, PersonalTypeOK
    <2>3. KeptBut(AccountSteps)
        BY <1>2, OtherSteps
    <2> QED BY <2>2, <2>3
<1>3. ASSUME NEW step \in AccountSteps \cup Finished, Goto(r, step), at[r] \in AccountSteps,
             UNCHANGED <<intent, overlapped>>
      PROVE  Handling /\ KeptBut(AccountSteps)
    <2>1. step \in PersonalSteps
        BY DEF PersonalSteps
    <2> QED BY <1>1, <1>2, <1>3, <2>1, Stepped DEF PersonalTypes, PersonalTypeOK
<1>4. CASE UnsetOthers(r)
    BY <1>3, <1>4, UnsettingAccounts DEF UnsetOthers, At, AccountSteps, History
<1>5. CASE PreSave(r)
    BY <1>3, <1>5, PreSavingAccounts DEF PreSave, At, AccountSteps, History
<1>6. CASE Save(r)
    BY <1>3, <1>6, SavingAccounts DEF Save, At, AccountSteps, History, Finished
<1>7. CASE CountActive(r)
    <2>1. UNCHANGED <<account, idPaper, contact, rating, rated, issue, intent, overlapped>>
        BY <1>7 DEF CountActive, personalVars
    <2>2. PICK step \in {"failed", "deactivate"} : Goto(r, step)
        BY <1>7 DEF CountActive
    <2>3. Handling /\ KeptBut(AccountSteps)
        BY <1>3, <1>7, <2>1, <2>2 DEF CountActive, At, AccountSteps, Finished
    <2> QED BY <1>1, <1>7, <2>1, <2>3, CountingAccounts
            DEF OthersUntouched, PersonalTypes, PersonalTypeOK
<1>8. CASE Deactivate(r)
    <2>2. PICK step \in {"done", "pickDefault"} : Goto(r, step)
        BY <1>8 DEF Deactivate
    <2> QED BY <1>3, <1>8, <2>2, DeactivatingAccounts DEF Deactivate, At, AccountSteps, History, Finished
<1>9. CASE PickDefault(r)
    <2>1. PICK step \in PersonalSteps : Moves(r, step) /\ step \in AccountSteps \cup Finished
        BY <1>9, PickingDefault
    <2>2. Handling
        <3>1. PICK s2 \in {"done", "preSave"} : Goto(r, s2)
            BY <1>9 DEF PickDefault
        <3>2. s2 \in PersonalSteps /\ at[r] \in AccountSteps
            BY <1>9 DEF PersonalSteps, AccountSteps, Finished, PickDefault, At
        <3> QED BY <1>1, <1>9, <3>1, <3>2, Stepped, PickingDefault
                DEF Handling, PickDefault, PersonalTypes, PersonalTypeOK
    <2>3. at[r] \in AccountSteps
        BY <1>9 DEF PickDefault, At, AccountSteps
    <2> QED BY <1>1, <1>9, <2>1, <2>2, <2>3, OtherSteps, PickingDefault
            DEF PickDefault, PersonalTypes, PersonalTypeOK
<1> QED BY <1>4, <1>5, <1>6, <1>7, <1>8, <1>9 DEF AccountActions

--------------------------------------------------------------------------------
(* Papers. *)

LEMMA PaperTypes ==
    ASSUME PersonalTypes, NEW p \in Requests
    PROVE  /\ idPaper[p] \in IdPaper /\ idPaper[p].owner \in Owners \cup {Unowned}
           /\ idPaper[p].kind \in PaperKinds /\ idPaper[p].active \in BOOLEAN
           /\ idPaper \in [Requests -> IdPaper]
           /\ intent[p].doc \in Requests \cup {0} /\ intent[p].matter \in Matters
           /\ p \in Nat /\ p > 0
BY RequestsAssumption DEF PersonalTypes, PersonalTypeOK, IdPaper, Intent, Requests

(* What matters of a paper here, besides what its review says of it. *)
SamePaper(p) ==
    /\ idPaper'[p].owner = idPaper[p].owner /\ idPaper'[p].kind = idPaper[p].kind
    /\ idPaper'[p].active = idPaper[p].active

(* Handlers may end, but for the one that is to retire a paper. *)
FewerPaperHandlers ==
    /\ \A q \in Requests : Received(q) => op'[q] = op[q]
    /\ \A q \in Requests : at'[q] \in PaperSteps =>
          at'[q] = at[q] /\ intent'[q] = intent[q] /\ op'[q] = op[q]
    /\ \A q \in Requests : at[q] = "retirePaper" =>
          at'[q] = at[q] \/ <<intent[q].owner, intent[q].matter>> \in overlapped'
    /\ overlapped \subseteq overlapped'

LEMMA PapersKept ==
    ASSUME PersonalInv, FewerPaperHandlers, \A p \in Requests : SamePaper(p)
    PROVE  PapersInv'
<1>1. PapersInv /\ PersonalTypes
    BY DEF PersonalInv
<1>2. \A p \in Requests : Succeeded(p) => Succeeded(p)'
    BY DEF Succeeded, SamePaper
<1>3. ASSUME NEW r \in Requests
      PROVE  (/\ PaperHandler(r) /\ (~ Received(r) => idPaper[r].owner = Unowned)
              /\ idPaper[r].owner /= Unowned /\ ~ idPaper[r].active => Succeeded(r))'
    <2>1. PaperHandler(r) /\ (~ Received(r) => idPaper[r].owner = Unowned)
          /\ (idPaper[r].owner /= Unowned /\ ~ idPaper[r].active => Succeeded(r))
        BY <1>1 DEF PapersInv
    <2>2. PaperHandler(r)'
        <3>1. intent[r].doc \in Requests => SamePaper(intent[r].doc)
            OBVIOUS
        <3>2. intent[r].doc \in Requests \cup {0} /\ SamePaper(r)
            BY <1>1, PaperTypes
        <3> QED BY <2>1, <3>1, <3>2 DEF FewerPaperHandlers, PaperHandler, OwnerOf, SamePaper
    <2>3. (~ Received(r) => idPaper[r].owner = Unowned)'
        BY <2>1 DEF FewerPaperHandlers, Received, SamePaper
    <2>4. (idPaper[r].owner /= Unowned /\ ~ idPaper[r].active => Succeeded(r))'
        BY <2>1, <1>2 DEF SamePaper
    <2> QED BY <2>2, <2>3, <2>4
<1>4. ASSUME NEW o \in Owners, NEW kind \in PaperKinds, Calm(o, kind)' PROVE PapersInOrder(o, kind)'
    <2>1. Calm(o, kind) /\ PapersInOrder(o, kind)
        BY <1>1, <1>4 DEF FewerPaperHandlers, Calm, PapersInv
    <2>2. PaperHandlers(o, kind)' \subseteq PaperHandlers(o, kind)
        BY DEF PaperHandlers, FewerPaperHandlers, OwnerOf
    <2>3. ASSUME NEW q \in PaperHandlers(o, kind)' PROVE at'[q] = at[q] /\ intent'[q] = intent[q]
        BY DEF PaperHandlers, FewerPaperHandlers
    <2>4. ASSUME NEW q \in PaperHandlers(o, kind), at[q] = "retirePaper"
          PROVE  q \in PaperHandlers(o, kind)' /\ at'[q] = at[q]
        BY <2>4, <1>4 DEF PaperHandlers, FewerPaperHandlers, OwnerOf, Calm
    <2>5. ActivePapers(o, kind)' = ActivePapers(o, kind)
        BY DEF ActivePapers, PapersOf, SamePaper
    <2>6. (AllEqual(PaperHandlers(o, kind)))'
        BY <2>1, <2>2 DEF PapersInOrder, AllEqual
    <2>7. ((\A r \in PaperHandlers(o, kind) : at[r] /= "retirePaper") => AllEqual(ActivePapers(o, kind)))'
        BY <2>1, <2>4, <2>5 DEF PapersInOrder, AllEqual
    <2> QED BY <2>1, <2>2, <2>3, <2>5, <2>6, <2>7 DEF PapersInOrder
<1> QED BY <1>3, <1>4 DEF PapersInv

(* A request about a paper. *)
LEMMA PaperAsked ==
    ASSUME PersonalInv, NEW r \in Requests, NEW o \in Owners, UNCHANGED idPaper,
           NEW kind \in {"uploadPaper", "editPaper"}, NEW k \in PaperKinds,
           NEW step \in {"createPaper", "resubmit", "failed"},
           NEW new \in Intent, new.owner = o, new.matter = k, Ask(r, kind, step, new),
           \/ new.doc = 0 /\ step /= "resubmit"
           \/ new.doc \in Requests /\ idPaper[new.doc].owner = o /\ idPaper[new.doc].kind = k,
           step = "createPaper" => new.doc \in ActivePapers(o, k) \/ ActivePapers(o, k) = {}
    PROVE  PapersInv'
<1>1. PersonalTypes /\ PapersInv
    BY DEF PersonalInv
<1>2. kind \in PersonalKinds \ {"none"} /\ step \in PersonalSteps /\ step \in PaperSteps \cup {"failed"}
    BY DEF PersonalKinds, PersonalSteps, PaperSteps, Finished
<1>3. /\ ~ Received(r) /\ op'[r] = kind /\ at'[r] = step /\ intent'[r] = new /\ Moves(r, step)
      /\ at[r] \notin PaperSteps
      /\ Calm(o, k)' => ~ Meets(o, k)
    BY <1>2, Asked
<1>4. /\ \A q \in Requests \ {r} : at'[q] = at[q] /\ intent'[q] = intent[q] /\ op'[q] = op[q]
      /\ overlapped \subseteq overlapped'
    BY <1>1, <1>3 DEF Moves, PersonalTypes
<1>5. new.doc \in 0..(r - 1)
    <2>1. CASE new.doc \in Requests /\ idPaper[new.doc].owner = o
        <3>1. Received(new.doc)
            BY <2>1, <1>1, PersonalAssumption DEF PapersInv
        <3>2. new.doc \in Nat /\ r \in Nat /\ new.doc /= r
            BY <2>1, <3>1, <1>3, RequestsAssumption DEF Requests
        <3>3. ~ (r < new.doc)
            BY <2>1, <3>1, <1>3 DEF PersonalInv, InTurn
        <3> QED BY <3>2, <3>3
    <2>2. CASE new.doc = 0
        BY <2>2, <1>1, PaperTypes
    <2> QED BY <2>1, <2>2
<1>6. PaperHandler(r)'
    BY <1>1, <1>3, <1>5 DEF PaperHandler, OwnerOf, PapersInv
<1>7. \A q \in Requests : Succeeded(q) => Succeeded(q)'
    BY DEF Succeeded
<1>8. ASSUME NEW q \in Requests
      PROVE  (/\ PaperHandler(q) /\ (~ Received(q) => idPaper[q].owner = Unowned)
              /\ idPaper[q].owner /= Unowned /\ ~ idPaper[q].active => Succeeded(q))'
    <2>1. PaperHandler(q) /\ (~ Received(q) => idPaper[q].owner = Unowned)
          /\ (idPaper[q].owner /= Unowned /\ ~ idPaper[q].active => Succeeded(q))
        BY <1>1 DEF PapersInv
    <2>2. PaperHandler(q)'
        <3>1. CASE q = r
            BY <3>1, <1>6
        <3>2. CASE q /= r
            BY <2>1, <3>2, <1>4 DEF PaperHandler, OwnerOf
        <3> QED BY <3>1, <3>2
    <2>3. (~ Received(q) => idPaper[q].owner = Unowned)'
        BY <2>1, <1>3, <1>4 DEF Received
    <2> QED BY <2>1, <2>2, <2>3, <1>7
<1>9. \A u, m : ActivePapers(u, m)' = ActivePapers(u, m)
    BY DEF ActivePapers, PapersOf
<1>10. ASSUME NEW u \in Owners, NEW m \in PaperKinds, Calm(u, m)' PROVE PapersInOrder(u, m)'
    <2>1. Calm(u, m) /\ PapersInOrder(u, m)
        BY <1>1, <1>4, <1>10 DEF Calm, PapersInv
    <2>2. CASE u = o /\ m = k
        <3>1. PaperHandlers(u, m) = {}
            <4> SUFFICES ASSUME NEW q \in PaperHandlers(u, m) PROVE FALSE
                OBVIOUS
            <4>1. q \in Requests /\ at[q] \in PaperSteps /\ intent[q].owner = u
                  /\ intent[q].matter = m /\ op[q] /= "none"
                BY <1>1 DEF PaperHandlers, PapersInv, PaperHandler, OwnerOf
            <4> QED BY <4>1, <1>3, <1>10, <2>2 DEF Meets, Running, Received, PaperSteps, Finished
        <3>2. PaperHandlers(u, m)' \subseteq {r}
            BY <3>1, <1>3, <1>4, <2>2 DEF PaperHandlers, OwnerOf
        <3>3. AllEqual(ActivePapers(u, m))
            BY <2>1, <3>1 DEF PapersInOrder
        <3>4. step = "createPaper" => ActivePapers(u, m) \subseteq {new.doc}
            BY <3>3, <2>2 DEF AllEqual
        <3>5. AllEqual(PaperHandlers(u, m)') /\ AllEqual(ActivePapers(u, m)')
            BY <3>2, <3>3, <1>9 DEF AllEqual
        <3> QED BY <3>2, <3>4, <3>5, <1>3, <1>9 DEF PapersInOrder
    <2>3. CASE ~ (u = o /\ m = k)
        <3>1. PaperHandlers(u, m)' = PaperHandlers(u, m) /\ r \notin PaperHandlers(u, m)
            BY <1>3, <1>4, <2>3 DEF PaperHandlers, OwnerOf
        <3>2. ASSUME NEW q \in PaperHandlers(u, m)
              PROVE  at'[q] = at[q] /\ intent'[q] = intent[q]
            BY <1>4, <3>1 DEF PaperHandlers
        <3> QED BY <2>1, <1>9, <3>1, <3>2 DEF PapersInOrder, AllEqual
    <2> QED BY <2>2, <2>3
<1> QED BY <1>8, <1>10 DEF PapersInv

(* A step of a handler is right if it is right about the papers it is about. *)
LEMMA PaperStepped ==
    ASSUME PersonalInv, NEW r \in Requests, NEW step \in PersonalSteps, Moves(r, step), op' = op,
           intent' = intent, overlapped' = overlapped, at[r] \in PaperSteps, PaperHandler(r)',
           NEW o \in Owners, o = intent[r].owner, NEW k \in PaperKinds, k = intent[r].matter,
           \A p \in Requests :
               \/ SamePaper(p) \/ (p = r /\ idPaper[r].owner = Unowned /\ idPaper'[r].owner = o
                                        /\ idPaper'[r].kind = k /\ idPaper'[r].active)
               \/ /\ idPaper[p].owner = o /\ idPaper[p].kind = k
                  /\ idPaper'[p].owner = o /\ idPaper'[p].kind = k /\ Succeeded(p)',
           Calm(o, k) => PapersInOrder(o, k)'
    PROVE  PapersInv'
<1>1. PersonalTypes /\ PapersInv /\ o /= Unowned /\ Received(r)
    BY PersonalAssumption DEF PersonalInv, PapersInv, PaperHandler, Received
<1>2. \A q \in Requests \ {r} : at'[q] = at[q]
    BY <1>1 DEF Moves, PersonalTypes
<1>3. \A p \in Requests : idPaper[p].owner /= Unowned =>
         idPaper'[p].owner = idPaper[p].owner /\ idPaper'[p].kind = idPaper[p].kind
    BY <1>1 DEF SamePaper
<1>4. \A p \in Requests : idPaper[p].owner /= Unowned /\ Succeeded(p) => Succeeded(p)'
    BY <1>3 DEF Succeeded
<1>5. ASSUME NEW q \in Requests
      PROVE  (/\ PaperHandler(q) /\ (~ Received(q) => idPaper[q].owner = Unowned)
              /\ idPaper[q].owner /= Unowned /\ ~ idPaper[q].active => Succeeded(q))'
    <2>1. PaperHandler(q) /\ (~ Received(q) => idPaper[q].owner = Unowned)
          /\ (idPaper[q].owner /= Unowned /\ ~ idPaper[q].active => Succeeded(q))
        BY <1>1 DEF PapersInv
    <2>2. PaperHandler(q)'
        <3>1. CASE q = r
            BY <3>1
        <3>2. CASE q /= r
            <4>1. idPaper[q].owner = Unowned => idPaper'[q].owner = Unowned
                BY <1>1, <3>2 DEF SamePaper
            <4>2. idPaper[q].owner \in Owners => idPaper'[q].owner = idPaper[q].owner
                                                 /\ idPaper'[q].kind = idPaper[q].kind
                BY <1>3, PersonalAssumption
            <4>3. intent[q].doc \in Requests /\ idPaper[intent[q].doc].owner \in Owners =>
                     /\ idPaper'[intent[q].doc].owner = idPaper[intent[q].doc].owner
                     /\ idPaper'[intent[q].doc].kind = idPaper[intent[q].doc].kind
                BY <1>3, PersonalAssumption
            <4>4. intent[q].doc \in Requests \cup {0}
                BY <1>1, PaperTypes
            <4> QED BY <2>1, <3>2, <1>2, <4>1, <4>2, <4>3, <4>4 DEF PaperHandler, OwnerOf
        <3> QED BY <3>1, <3>2
    <2>3. (~ Received(q) => idPaper[q].owner = Unowned)'
        BY <2>1, <1>1 DEF Received, SamePaper
    <2>4. (idPaper[q].owner /= Unowned /\ ~ idPaper[q].active => Succeeded(q))'
        BY <2>1, <1>4 DEF SamePaper
    <2> QED BY <2>2, <2>3, <2>4
<1>6. ASSUME NEW u \in Owners, NEW m \in PaperKinds, Calm(u, m)' PROVE PapersInOrder(u, m)'
    <2>1. Calm(u, m) /\ PapersInOrder(u, m)
        BY <1>1, <1>6 DEF Calm, PapersInv
    <2>2. CASE u = o /\ m = k
        BY <2>1, <2>2
    <2>3. CASE ~ (u = o /\ m = k)
        <3>1. PaperHandlers(u, m)' = PaperHandlers(u, m) /\ r \notin PaperHandlers(u, m)
            BY <1>2, <2>3 DEF PaperHandlers, OwnerOf
        <3>2. ASSUME NEW q \in PaperHandlers(u, m)
              PROVE  at'[q] = at[q] /\ intent'[q] = intent[q]
            BY <1>2, <3>1 DEF PaperHandlers
        <3>3. ActivePapers(u, m)' = ActivePapers(u, m)
            <4>1. ASSUME NEW p \in Requests
                  PROVE  p \in ActivePapers(u, m)' <=> p \in ActivePapers(u, m)
                BY <1>1, <2>3, PersonalAssumption DEF ActivePapers, PapersOf, SamePaper
            <4> QED BY <4>1 DEF ActivePapers, PapersOf
        <3> QED BY <2>1, <3>1, <3>2, <3>3 DEF PapersInOrder, AllEqual
    <2> QED BY <2>2, <2>3
<1> QED BY <1>5, <1>6 DEF PapersInv

(* The handler that is at the papers of a kind of a user. *)
LEMMA AtPapers ==
    ASSUME PersonalInv, NEW r \in Requests, at[r] \in PaperSteps
    PROVE  /\ intent[r].owner \in Owners /\ intent[r].matter \in PaperKinds
           /\ intent[r].doc \in 0..(r - 1) /\ PaperHandler(r) /\ intent[r].owner /= Unowned
           /\ Calm(intent[r].owner, intent[r].matter) =>
                 /\ PaperHandlers(intent[r].owner, intent[r].matter) = {r}
                 /\ PapersInOrder(intent[r].owner, intent[r].matter)
<1>1. PaperHandler(r) /\ PapersInv
    BY DEF PersonalInv, PapersInv
<1>2. intent[r].owner \in Owners /\ intent[r].matter \in PaperKinds /\ intent[r].doc \in 0..(r - 1)
    BY <1>1 DEF PaperHandler, OwnerOf
<1>3. r \in PaperHandlers(intent[r].owner, intent[r].matter)
    BY DEF PaperHandlers, OwnerOf
<1>4. Calm(intent[r].owner, intent[r].matter) => PapersInOrder(intent[r].owner, intent[r].matter)
    BY <1>1, <1>2 DEF PapersInv
<1> QED BY <1>1, <1>2, <1>3, <1>4, PersonalAssumption DEF PapersInOrder, AllEqual

LEMMA AtPapersNext ==
    ASSUME PersonalInv, NEW r \in Requests, NEW step, Moves(r, step), intent' = intent,
           NEW o, NEW k, PaperHandlers(o, k) = {r}
    PROVE  /\ PaperHandlers(o, k)' = IF step \in PaperSteps THEN {r} ELSE {}
           /\ AllEqual(PaperHandlers(o, k)') /\ at'[r] = step
<1>1. at' = [at EXCEPT ![r] = step] /\ at \in [Requests -> PersonalSteps]
    BY DEF Moves, PersonalInv, PersonalTypes
<1>2. at'[r] = step /\ \A q \in Requests \ {r} : at'[q] = at[q]
    BY <1>1
<1>3. PaperHandlers(o, k)' = IF step \in PaperSteps THEN {r} ELSE {}
    BY <1>2 DEF PaperHandlers, OwnerOf
<1> QED BY <1>2, <1>3 DEF AllEqual

LEMMA CreatingPapers ==
    ASSUME PersonalInv, NEW r \in Requests, CreatePaper(r)
    PROVE  PapersInv' /\ idPaper' \in [Requests -> IdPaper]
<1>1. PersonalTypes /\ at[r] = "createPaper" /\ at[r] \in PaperSteps
    BY DEF PersonalInv, CreatePaper, At, PaperSteps
<1>2. PICK o \in Owners, k \in PaperKinds, a \in Nat :
        /\ o = intent[r].owner /\ k = intent[r].matter /\ a = intent[r].doc /\ a < r
        /\ a = 0 \/ a \in Requests
    BY <1>1, AtPapers, PaperTypes
<1>3. PaperHandler(r) /\ idPaper[r].owner = Unowned /\ o /= Unowned
      /\ (Calm(o, k) => PaperHandlers(o, k) = {r} /\ ActivePapers(o, k) \subseteq {a})
    BY <1>1, <1>2, AtPapers DEF PaperHandler, PapersInOrder
<1>4. PICK step \in {"done", "retirePaper"} :
         Goto(r, step) /\ step = (IF a = 0 THEN "done" ELSE "retirePaper")
    BY <1>2 DEF CreatePaper
<1>5. step \in PersonalSteps /\ intent' = intent /\ overlapped' = overlapped
      /\ (step \in PaperSteps <=> step = "retirePaper")
    BY DEF PersonalSteps, PaperSteps, Finished, CreatePaper, History
<1>6. Moves(r, step) /\ op' = op /\ at'[r] = step
    BY <1>1, <1>4, <1>5, Stepped
<1>7. /\ idPaper' \in [Requests -> IdPaper] /\ idPaper'[r].owner = o /\ idPaper'[r].kind = k
      /\ idPaper'[r].active /\ \A p \in Requests : p /= r => idPaper'[p] = idPaper[p]
    <2>1. idPaper' = [idPaper EXCEPT ![r] = [owner |-> o, kind |-> k, active |-> TRUE, status |-> "PENDING"]]
        BY <1>2 DEF CreatePaper, OwnerOf
    <2>2. [owner |-> o, kind |-> k, active |-> TRUE, status |-> "PENDING"] \in IdPaper
        BY DEF IdPaper
    <2> QED BY <2>1, <2>2, <1>1, PaperTypes
<1>8. PaperHandler(r)'
    <2>1. CASE step = "done"
        BY <2>1, <1>6 DEF PaperHandler, PaperSteps
    <2>2. CASE step = "retirePaper"
        <3>1. a \in Requests /\ a /= r
            BY <1>2, <1>4, <2>2, PaperTypes, <1>1
        <3>2. idPaper[a].owner = o /\ idPaper[a].kind = k
            BY <3>1, <1>1, <1>2, <1>3, PaperTypes DEF PaperHandler, OwnerOf
        <3> QED BY <3>1, <3>2, <2>2, <1>2, <1>3, <1>1, <1>5, <1>6, <1>7 DEF PaperHandler, OwnerOf
    <2> QED BY <2>1, <2>2
<1>9. ASSUME Calm(o, k) PROVE PapersInOrder(o, k)'
    <2>1. /\ PaperHandlers(o, k)' = (IF step \in PaperSteps THEN {r} ELSE {})
          /\ AllEqual(PaperHandlers(o, k)')
        BY <1>3, <1>5, <1>6, <1>9, AtPapersNext
    <2>2. ActivePapers(o, k)' \subseteq ActivePapers(o, k) \cup {r}
        BY <1>7 DEF ActivePapers, PapersOf
    <2>3. ActivePapers(o, k)' \subseteq {a, r} /\ (a = 0 => AllEqual(ActivePapers(o, k)'))
        <3>1. a = 0 => ActivePapers(o, k) = {}
            BY <1>3, <1>9, RequestsAssumption DEF ActivePapers, PapersOf, Requests
        <3> QED BY <3>1, <2>2, <1>3, <1>9 DEF AllEqual
    <2> QED BY <2>1, <2>3, <1>2, <1>4, <1>5, <1>6 DEF PapersInOrder, PaperSteps
<1> QED BY <1>1, <1>2, <1>3, <1>5, <1>6, <1>7, <1>8, <1>9, PaperStepped DEF SamePaper

LEMMA RetiringPapers ==
    ASSUME PersonalInv, NEW r \in Requests, RetirePaper(r)
    PROVE  PapersInv' /\ idPaper' \in [Requests -> IdPaper]
<1>1. PersonalTypes /\ at[r] = "retirePaper" /\ at[r] \in PaperSteps
    BY DEF PersonalInv, RetirePaper, At, PaperSteps
<1>2. PICK o \in Owners, k \in PaperKinds, a \in Requests :
        /\ o = intent[r].owner /\ k = intent[r].matter /\ a = intent[r].doc /\ a < r
    BY <1>1, AtPapers, PaperTypes DEF PaperHandler
<1>3. /\ idPaper[r].owner = o /\ idPaper[r].kind = k /\ idPaper[a].owner = o /\ idPaper[a].kind = k
      /\ o /= Unowned
      /\ (Calm(o, k) => PaperHandlers(o, k) = {r} /\ ActivePapers(o, k) \subseteq {a, r})
    <2>1. a /= 0
        BY <1>1, PaperTypes
    <2> QED BY <2>1, <1>1, <1>2, AtPapers DEF PaperHandler, PapersInOrder, OwnerOf
<1>4. "done" \in PersonalSteps /\ "done" \notin PaperSteps
    BY DEF PersonalSteps, PaperSteps, Finished
<1>5. intent' = intent /\ overlapped' = overlapped /\ Goto(r, "done")
    BY DEF RetirePaper, History
<1>6. Moves(r, "done") /\ op' = op /\ at'[r] = "done"
    BY <1>1, <1>4, <1>5, Stepped
<1>7. /\ idPaper' \in [Requests -> IdPaper] /\ idPaper'[a].owner = o /\ idPaper'[a].kind = k
      /\ idPaper'[a].active = FALSE /\ \A p \in Requests : p /= a => idPaper'[p] = idPaper[p]
    <2>1. idPaper' = [idPaper EXCEPT ![a].active = FALSE]
        BY <1>2 DEF RetirePaper
    <2>2. idPaper[a] \in IdPaper /\ idPaper \in [Requests -> IdPaper]
        BY <1>1, PaperTypes
    <2> QED BY <2>1, <2>2, <1>3 DEF IdPaper
<1>8. PaperHandler(r)'
    BY <1>4, <1>6 DEF PaperHandler
<1>9. Succeeded(a)'
    <2>1. idPaper'[r].owner = o /\ idPaper'[r].kind = k /\ r > a
        BY <1>1, <1>2, <1>3, <1>7, PaperTypes
    <2> QED BY <2>1, <1>7 DEF Succeeded
<1>10. ASSUME Calm(o, k) PROVE PapersInOrder(o, k)'
    <2>1. PaperHandlers(o, k)' = {} /\ AllEqual(PaperHandlers(o, k)')
        BY <1>3, <1>4, <1>5, <1>6, <1>10, AtPapersNext
    <2>2. ActivePapers(o, k)' \subseteq ActivePapers(o, k) \ {a}
        BY <1>7 DEF ActivePapers, PapersOf
    <2>3. AllEqual(ActivePapers(o, k)')
        BY <2>2, <1>3, <1>10 DEF AllEqual
    <2> QED BY <2>1, <2>3 DEF PapersInOrder
<1> QED BY <1>1, <1>2, <1>3, <1>4, <1>5, <1>6, <1>7, <1>8, <1>9, <1>10, PaperStepped DEF SamePaper

LEMMA ResubmittingPapers ==
    ASSUME PersonalInv, NEW r \in Requests, Resubmit(r)
    PROVE  PapersInv' /\ idPaper' \in [Requests -> IdPaper]
<1>1. PersonalTypes /\ at[r] = "resubmit" /\ at[r] \in PaperSteps
    BY DEF PersonalInv, Resubmit, At, PaperSteps
<1>2. PICK a \in Requests : a = intent[r].doc
    BY <1>1, AtPapers DEF PaperHandler
<1>4. "done" \in PersonalSteps /\ "done" \notin PaperSteps
    BY DEF PersonalSteps, PaperSteps, Finished
<1>5. intent' = intent /\ overlapped' = overlapped /\ Goto(r, "done")
    BY DEF Resubmit, History
<1>6. Moves(r, "done") /\ op' = op /\ at'[r] = "done" /\ at' = [at EXCEPT ![r] = "done"]
    BY <1>1, <1>4, <1>5, Stepped DEF Goto
<1>7. idPaper' \in [Requests -> IdPaper] /\ \A p \in Requests : SamePaper(p)
    <2>1. idPaper' = [idPaper EXCEPT ![a].status = "PENDING"]
        BY <1>2 DEF Resubmit
    <2>2. idPaper[a] \in IdPaper /\ idPaper \in [Requests -> IdPaper]
        BY <1>1, PaperTypes
    <2> QED BY <2>1, <2>2 DEF IdPaper, SamePaper
<1>8. FewerPaperHandlers
    BY <1>1, <1>4, <1>5, <1>6 DEF FewerPaperHandlers, PersonalTypes
<1> QED BY <1>7, <1>8, PapersKept

LEMMA PaperRequest ==
    ASSUME PersonalInv, NEW r \in Requests, NEW o \in Owners, PaperRequests(r, o)
    PROVE  /\ PapersInv' /\ idPaper' \in [Requests -> IdPaper] /\ PapersUntouched
           /\ Handling /\ KeptBut(PaperSteps)
<1>1. PersonalTypes
    BY DEF PersonalInv
<1>2. ASSUME UNCHANGED idPaper, PapersUntouched,
             NEW kind \in {"uploadPaper", "editPaper"}, NEW k \in PaperKinds,
             NEW step \in {"createPaper", "resubmit", "failed"},
             NEW new \in Intent, new.owner = o, new.matter = k, Ask(r, kind, step, new),
             \/ new.doc = 0 /\ step /= "resubmit"
             \/ new.doc \in Requests /\ idPaper[new.doc].owner = o /\ idPaper[new.doc].kind = k,
             step = "createPaper" => new.doc \in ActivePapers(o, k) \/ ActivePapers(o, k) = {}
      PROVE  /\ PapersInv' /\ idPaper' \in [Requests -> IdPaper] /\ PapersUntouched
             /\ Handling /\ KeptBut(PaperSteps)
    <2>1. kind \in PersonalKinds \ {"none"} /\ step \in PersonalSteps /\ step \in PaperSteps \cup Finished
        BY DEF PersonalKinds, PersonalSteps, PaperSteps, Finished
    <2>2. PapersInv'
        BY <1>2, PaperAsked
    <2>3. /\ Handling /\ Moves(r, step)
          /\ at[r] \notin UNION {AccountSteps, PaperSteps, ContactSteps, RatingSteps}
        BY <1>2, <2>1, Asked DEF Handling
    <2> QED BY <1>1, <1>2, <2>1, <2>2, <2>3, OtherSteps DEF PersonalTypes, PersonalTypeOK
<1>3. ASSUME NEW k \in PaperKinds, UploadPaper(r, o, k)
      PROVE  /\ PapersInv' /\ idPaper' \in [Requests -> IdPaper] /\ PapersUntouched
             /\ Handling /\ KeptBut(PaperSteps)
    <2> DEFINE first == [NoIntent EXCEPT !.owner = o, !.matter = k]
    <2>1. first \in Intent /\ first.owner = o /\ first.matter = k /\ first.doc = 0
        BY NoIntentTyped DEF NoIntent, Intent, Matters
    <2>2. CASE ActivePapers(o, k) = {} /\ Ask(r, "uploadPaper", "createPaper", first)
        <3>1. UNCHANGED idPaper /\ PapersUntouched
            BY <1>3 DEF UploadPaper
        <3> HIDE DEF first
        <3> QED BY <1>2, <2>1, <2>2, <3>1
    <2>3. CASE \E p \in ActivePapers(o, k) :
                  Ask(r, "uploadPaper",
                      IF idPaper[p].status = "REJECTED" THEN "createPaper" ELSE "failed",
                      [NoIntent EXCEPT !.owner = o, !.matter = k, !.doc = p])
        <3>1. PICK p \in ActivePapers(o, k), step \in {"createPaper", "failed"} :
                  Ask(r, "uploadPaper", step, [NoIntent EXCEPT !.owner = o, !.matter = k, !.doc = p])
            BY <2>3
        <3> DEFINE new == [NoIntent EXCEPT !.owner = o, !.matter = k, !.doc = p]
        <3>2. p \in Requests /\ idPaper[p].owner = o /\ idPaper[p].kind = k
            BY <3>1 DEF ActivePapers, PapersOf
        <3>3. new \in Intent /\ new.owner = o /\ new.matter = k /\ new.doc = p
            BY <3>2, NoIntentTyped DEF NoIntent, Intent, Matters
        <3>4. UNCHANGED idPaper /\ PapersUntouched /\ Ask(r, "uploadPaper", step, new)
            BY <1>3, <3>1 DEF UploadPaper
        <3> HIDE DEF new
        <3> QED BY <1>2, <3>1, <3>2, <3>3, <3>4
    <2> QED BY <1>3, <2>2, <2>3 DEF UploadPaper
<1>4. ASSUME NEW p \in Requests, EditPaper(r, o, p)
      PROVE  /\ PapersInv' /\ idPaper' \in [Requests -> IdPaper] /\ PapersUntouched
             /\ Handling /\ KeptBut(PaperSteps)
    <2> DEFINE new == [NoIntent EXCEPT !.owner = o, !.matter = idPaper[p].kind, !.doc = p]
    <2>1. PICK step \in {"failed", "resubmit"} : Ask(r, "editPaper", step, new)
        BY <1>4 DEF EditPaper
    <2>2. PICK k \in PaperKinds : k = idPaper[p].kind
        BY <1>1, PaperTypes
    <2>3. new \in Intent /\ new.owner = o /\ new.matter = k /\ new.doc = p
        BY <2>2, NoIntentTyped DEF NoIntent, Intent, Matters
    <2>4. UNCHANGED idPaper /\ PapersUntouched /\ idPaper[p].owner = o
        BY <1>4 DEF EditPaper
    <2> HIDE DEF new
    <2> QED BY <1>2, <2>1, <2>2, <2>3, <2>4
<1>5. ASSUME NEW p \in Requests, NEW v \in {"VERIFIED", "REJECTED"}, ReviewPaper(r, p, v)
      PROVE  /\ PapersInv' /\ idPaper' \in [Requests -> IdPaper] /\ PapersUntouched
             /\ Handling /\ KeptBut(PaperSteps)
    <2>1. Receive(r, "reviewPaper", "done") /\ UNCHANGED <<intent, overlapped>> /\ PapersUntouched
        BY <1>5 DEF ReviewPaper, History
    <2>2. /\ Moves(r, "done")
          /\ at[r] \notin UNION {AccountSteps, PaperSteps, ContactSteps, RatingSteps}
          /\ Handling
        BY <1>1, <2>1, Noted DEF Handling, PersonalKinds, PersonalTypes, PersonalTypeOK
    <2>3. idPaper' \in [Requests -> IdPaper] /\ \A q \in Requests : SamePaper(q)
        <3>1. idPaper' = [idPaper EXCEPT ![p].status = v]
            BY <1>5 DEF ReviewPaper
        <3>2. idPaper[p] \in IdPaper /\ idPaper \in [Requests -> IdPaper]
            BY <1>1, PaperTypes
        <3> QED BY <3>1, <3>2 DEF IdPaper, SamePaper
    <2>4. Kept(PaperSteps)
        BY <1>1, <2>2, OthersKept DEF PaperSteps
    <2>5. FewerPaperHandlers
        BY <2>4 DEF Kept, FewerPaperHandlers, PaperSteps
    <2>6. KeptBut(PaperSteps)
        BY <2>2, OtherSteps DEF Finished
    <2> QED BY <2>1, <2>2, <2>3, <2>5, <2>6, PapersKept
<1> QED BY <1>3, <1>4, <1>5 DEF PaperRequests

PaperActions(r) == CreatePaper(r) \/ RetirePaper(r) \/ Resubmit(r)

LEMMA PaperAction ==
    ASSUME PersonalInv, NEW r \in Requests, PaperActions(r)
    PROVE  /\ PapersInv' /\ idPaper' \in [Requests -> IdPaper] /\ PapersUntouched
           /\ Handling /\ KeptBut(PaperSteps)
<1>1. PersonalTypes
    BY DEF PersonalInv
<1>2. PICK step \in {"done", "retirePaper"} : Goto(r, step)
    BY DEF PaperActions, CreatePaper, RetirePaper, Resubmit
<1>3. UNCHANGED <<intent, overlapped>> /\ PapersUntouched /\ at[r] \in PaperSteps
    BY DEF PaperActions, CreatePaper, RetirePaper, Resubmit, History, At, PaperSteps
<1>4. step \in PersonalSteps /\ step \in PaperSteps \cup Finished
    BY DEF PersonalSteps, PaperSteps, Finished
<1>5. Handling /\ Moves(r, step)
    BY <1>1, <1>2, <1>3, <1>4, Stepped DEF Handling, PersonalTypes, PersonalTypeOK
<1>6. KeptBut(PaperSteps)
    BY <1>3, <1>4, <1>5, OtherSteps
<1> QED BY <1>3, <1>5, <1>6, CreatingPapers, RetiringPapers, ResubmittingPapers DEF PaperActions

--------------------------------------------------------------------------------
(* Contacts. *)

LEMMA ContactTypes ==
    ASSUME PersonalTypes, NEW c \in Requests
    PROVE  /\ contact[c] \in Contact /\ contact[c].owner \in Owners \cup {Unowned}
           /\ contact[c].primary \in BOOLEAN /\ contact[c].edited \in BOOLEAN
           /\ contact \in [Requests -> Contact]
           /\ intent[c].phone \in Phones /\ intent[c].wish \in Wishes
BY DEF PersonalTypes, PersonalTypeOK, Contact, Intent

LEMMA ContactsKept ==
    ASSUME PersonalInv, Kept(ContactSteps), UNCHANGED contact
    PROVE  ContactsInv'
<1>1. ContactsInv
    BY DEF PersonalInv
<1>2. ASSUME NEW r \in Requests PROVE (ContactHandler(r) /\ (~ Received(r) => contact[r].owner = Unowned))'
    <2>1. ContactHandler(r)'
        BY <1>1 DEF Kept, ContactsInv, ContactHandler, OwnerOf
    <2>2. (~ Received(r) => contact[r].owner = Unowned)'
        BY <1>1 DEF Kept, ContactsInv, Received
    <2> QED BY <2>1, <2>2
<1>3. ASSUME NEW o \in Owners, Calm(o, "contacts")' PROVE ContactsInOrder(o)'
    <2>1. ContactsInOrder(o)
        BY <1>1, <1>3 DEF Kept, Calm, ContactsInv
    <2>2. ContactHandlers(o)' \subseteq ContactHandlers(o)
        BY DEF ContactHandlers, Kept, OwnerOf
    <2>3. ASSUME NEW q \in ContactHandlers(o)' PROVE at'[q] = at[q] /\ intent'[q] = intent[q]
        BY DEF ContactHandlers, Kept
    <2>4. ContactsOf(o)' = ContactsOf(o) /\ Primaries(o)' = Primaries(o)
        BY DEF ContactsOf, Primaries
    <2>5. AllEqual(ContactHandlers(o)') /\ AllEqual(Primaries(o)')
        BY <2>1, <2>2, <2>4 DEF ContactsInOrder, AllEqual
    <2> QED BY <2>1, <2>2, <2>3, <2>4, <2>5 DEF ContactsInOrder
<1> QED BY <1>2, <1>3 DEF ContactsInv

(* A step, or a request, is right if it is right about the contacts of its user. *)
LEMMA ContactMoved ==
    ASSUME PersonalInv, NEW r \in Requests, NEW step, Moves(r, step), Received(r)',
           NEW o \in Owners, at[r] \in ContactSteps => intent[r].owner = o,
           step \in ContactSteps => intent'[r].owner = o, ContactHandler(r)',
           \A c \in Requests :
               \/ contact'[c] = contact[c]
               \/ /\ {contact[c].owner, contact'[c].owner} \subseteq {o, Unowned}
                  /\ contact[c].owner = Unowned => c = r,
           Calm(o, "contacts")' => ContactsInOrder(o)'
    PROVE  ContactsInv'
<1>1. PersonalTypes /\ ContactsInv
    BY DEF PersonalInv
<1>2. /\ \A q \in Requests \ {r} : at'[q] = at[q] /\ intent'[q] = intent[q] /\ op'[q] = op[q]
      /\ at'[r] = step /\ overlapped \subseteq overlapped'
    BY <1>1 DEF Moves, PersonalTypes
<1>3. ASSUME NEW q \in Requests
      PROVE  (ContactHandler(q) /\ (~ Received(q) => contact[q].owner = Unowned))'
    <2>1. CASE q = r
        BY <2>1
    <2>2. CASE q /= r
        <3>1. ContactHandler(q) /\ (~ Received(q) => contact[q].owner = Unowned)
            BY <1>1 DEF ContactsInv
        <3>2. contact[q].owner = Unowned => contact'[q].owner = Unowned
            BY <2>2
        <3> QED BY <2>2, <3>1, <3>2, <1>2 DEF ContactHandler, OwnerOf, Received
    <2> QED BY <2>1, <2>2
<1>4. ASSUME NEW u \in Owners, Calm(u, "contacts")' PROVE ContactsInOrder(u)'
    <2>1. ContactsInOrder(u)
        BY <1>1, <1>2, <1>4 DEF Calm, ContactsInv
    <2>2. CASE u = o
        BY <1>4, <2>2
    <2>3. CASE u /= o
        <3>1. ContactHandlers(u)' = ContactHandlers(u) /\ r \notin ContactHandlers(u)
            BY <1>2, <2>3 DEF ContactHandlers, OwnerOf
        <3>2. ASSUME NEW q \in ContactHandlers(u) PROVE at'[q] = at[q] /\ intent'[q] = intent[q]
            BY <1>2, <3>1 DEF ContactHandlers
        <3>3. \A c \in Requests : \/ contact'[c] = contact[c]
                                  \/ contact[c].owner /= u /\ contact'[c].owner /= u
            BY <2>3, PersonalAssumption
        <3>4. ContactsOf(u)' = ContactsOf(u) /\ Primaries(u)' = Primaries(u)
            BY <3>3 DEF ContactsOf, Primaries
        <3>5. \A c \in ContactsOf(u) : contact'[c] = contact[c]
            BY <3>3 DEF ContactsOf
        <3>6. AllEqual(ContactHandlers(u)') /\ AllEqual(Primaries(u)')
            BY <2>1, <3>1, <3>4 DEF ContactsInOrder
        <3> QED BY <2>1, <3>1, <3>2, <3>4, <3>5, <3>6 DEF ContactsInOrder
    <2> QED BY <2>2, <2>3
<1> QED BY <1>3, <1>4 DEF ContactsInv

(* Nobody is at the contacts of a user who asks, if they are calm. *)
LEMMA ContactsAsked ==
    ASSUME PersonalInv, NEW r \in Requests, NEW o \in Owners, NEW new \in Intent, new.owner = o,
           new.matter = "contacts", NEW kind \in {"addContact", "removeContact", "editContact"},
           NEW step \in ContactSteps \cup Finished, Ask(r, kind, step, new)
    PROVE  /\ ~ Received(r) /\ Received(r)' /\ op'[r] = kind /\ at'[r] = step /\ intent'[r] = new
           /\ Moves(r, step) /\ Handling /\ KeptBut(ContactSteps)
           /\ at[r] \notin ContactSteps /\ contact[r].owner = Unowned
           /\ Calm(o, "contacts")' =>
                 /\ ContactHandlers(o)' = (IF step \in ContactSteps THEN {r} ELSE {})
                 /\ AllEqual(ContactHandlers(o)') /\ ContactsInOrder(o)
<1>1. PersonalTypes /\ ContactsInv
    BY DEF PersonalInv
<1>2. kind \in PersonalKinds \ {"none"} /\ step \in PersonalSteps
    BY DEF PersonalKinds, PersonalSteps
<1>3. /\ ~ Received(r) /\ op'[r] = kind /\ at'[r] = step /\ intent'[r] = new /\ Moves(r, step)
      /\ at[r] \notin UNION {AccountSteps, PaperSteps, ContactSteps, RatingSteps}
      /\ (Calm(o, "contacts")' => ~ Meets(o, "contacts"))
      /\ Handling
    BY <1>2, Asked DEF Handling
<1>4. /\ \A q \in Requests \ {r} : at'[q] = at[q] /\ intent'[q] = intent[q]
      /\ overlapped \subseteq overlapped'
    BY <1>1, <1>3 DEF Moves, PersonalTypes
<1>5. ASSUME Calm(o, "contacts")'
      PROVE  /\ ContactHandlers(o)' = (IF step \in ContactSteps THEN {r} ELSE {})
             /\ ContactsInOrder(o)
    <2>1. ContactHandlers(o) = {}
        <3> SUFFICES ASSUME NEW q \in ContactHandlers(o) PROVE FALSE
            OBVIOUS
        <3>1. q \in Requests /\ at[q] \in ContactSteps /\ intent[q].owner = o
              /\ intent[q].matter = "contacts" /\ op[q] /= "none"
            BY <1>1 DEF ContactHandlers, ContactsInv, ContactHandler, OwnerOf
        <3> QED BY <3>1, <1>3, <1>5 DEF Meets, Running, Received, ContactSteps, Finished
    <2>2. ContactHandlers(o)' = (IF step \in ContactSteps THEN {r} ELSE {})
        BY <2>1, <1>3, <1>4 DEF ContactHandlers, OwnerOf
    <2>3. ContactsInOrder(o)
        BY <1>1, <1>4, <1>5 DEF Calm, ContactsInv
    <2> QED BY <2>2, <2>3
<1>6. KeptBut(ContactSteps)
    BY <1>3, OtherSteps
<1>7. Received(r)' /\ contact[r].owner = Unowned
    BY <1>1, <1>3 DEF Received, ContactsInv
<1> QED BY <1>3, <1>5, <1>6, <1>7 DEF AllEqual

LEMMA ContactIntents ==
    ASSUME NEW o \in Owners
    PROVE  LET new == [NoIntent EXCEPT !.owner = o, !.matter = "contacts"] IN
           new \in Intent /\ new.owner = o /\ new.matter = "contacts"
BY NoIntentTyped DEF NoIntent, Intent, Matters

LEMMA AddingContacts ==
    ASSUME PersonalInv, NEW r \in Requests, NEW o \in Owners, NEW phone \in Phones,
           AddContact(r, o, phone)
    PROVE  ContactsInv' /\ contact' \in [Requests -> Contact] /\ ContactsUntouched
           /\ Handling /\ KeptBut(ContactSteps)
<1> DEFINE count == Cardinality(ContactsOf(o))
           new == [NoIntent EXCEPT !.owner = o, !.matter = "contacts", !.phone = phone,
                                   !.wish = IF count = 0 THEN "yes" ELSE "no"]
           step == IF count >= MaxContacts THEN "failed" ELSE "isUnique"
<1>1. PersonalTypes
    BY DEF PersonalInv
<1>2. Ask(r, "addContact", step, new) /\ UNCHANGED contact /\ ContactsUntouched
    BY DEF AddContact
<1>3. new \in Intent /\ new.owner = o /\ new.matter = "contacts"
      /\ new.wish = (IF count = 0 THEN "yes" ELSE "no")
    BY NoIntentTyped DEF NoIntent, Intent, Matters, Wishes
<1>4. step \in ContactSteps \cup Finished /\ (step = "isUnique" \/ step \notin ContactSteps)
    BY DEF ContactSteps, Finished
<1>5. /\ count \in Nat /\ (count = 0 => ContactsOf(o) = {}) /\ (step = "isUnique" => count < MaxContacts)
      /\ ContactsOf(o)' = ContactsOf(o) /\ Primaries(o)' = Primaries(o)
    <2>1. ContactsOf(o) \in SUBSET Requests
        BY DEF ContactsOf
    <2>2. ContactsOf(o)' = ContactsOf(o) /\ Primaries(o)' = Primaries(o)
        BY <1>2 DEF ContactsOf, Primaries
    <2> QED BY <2>1, <2>2, FewEqual, FS_EmptySet, PersonalAssumption
<1> HIDE DEF step, new
<1>6. /\ Received(r)' /\ op'[r] = "addContact" /\ at'[r] = step /\ intent'[r] = new
      /\ Moves(r, step) /\ Handling /\ KeptBut(ContactSteps)
      /\ at[r] \notin ContactSteps /\ contact[r].owner = Unowned
      /\ Calm(o, "contacts")' =>
            /\ ContactHandlers(o)' = (IF step \in ContactSteps THEN {r} ELSE {})
            /\ AllEqual(ContactHandlers(o)') /\ ContactsInOrder(o)
    BY <1>2, <1>3, <1>4, ContactsAsked
<1>7. ContactHandler(r)'
    BY <1>2, <1>3, <1>4, <1>6 DEF ContactHandler, OwnerOf
<1>8. ASSUME Calm(o, "contacts")' PROVE ContactsInOrder(o)'
    <2>1. AllEqual(Primaries(o)') /\ (Cardinality(ContactsOf(o)) <= MaxContacts)'
          /\ (\A c, e \in ContactsOf(o) :
                contact[c].phone = contact[e].phone => c = e \/ contact[c].edited \/ contact[e].edited)'
        BY <1>2, <1>5, <1>6, <1>8 DEF ContactsInOrder
    <2>2. ASSUME NEW q \in ContactHandlers(o)'
          PROVE  q = r /\ count < MaxContacts /\ at'[q] /= "saveContact"
                 /\ (intent'[q].wish = "yes" => ContactsOf(o) = {})
        BY <1>3, <1>4, <1>5, <1>6, <1>8 DEF ContactSteps
    <2> QED BY <2>1, <2>2, <1>5, <1>6, <1>8 DEF ContactsInOrder
<1>9. ContactsInv'
    BY <1>2, <1>3, <1>6, <1>7, <1>8, ContactMoved
<1> QED BY <1>1, <1>2, <1>6, <1>9, ContactTypes DEF PersonalTypes, PersonalTypeOK

LEMMA RemovingContacts ==
    ASSUME PersonalInv, NEW r \in Requests, NEW o \in Owners, NEW c \in Requests,
           RemoveContact(r, o, c)
    PROVE  ContactsInv' /\ contact' \in [Requests -> Contact] /\ ContactsUntouched
           /\ Handling /\ KeptBut(ContactSteps)
<1> DEFINE new == [NoIntent EXCEPT !.owner = o, !.matter = "contacts"]
<1>1. PersonalTypes
    BY DEF PersonalInv
<1>2. Ask(r, "removeContact", "done", new) /\ contact' = [contact EXCEPT ![c].owner = Unowned]
      /\ ContactsUntouched /\ contact[c].owner = o
    BY DEF RemoveContact, ContactsOf
<1>3. new \in Intent /\ new.owner = o /\ new.matter = "contacts"
    BY ContactIntents
<1>4. "done" \in Finished /\ "done" \notin ContactSteps
    BY DEF ContactSteps, Finished
<1> HIDE DEF new
<1>5. /\ contact' \in [Requests -> Contact] /\ contact'[c].owner = Unowned
      /\ \A e \in Requests : e /= c => contact'[e] = contact[e]
    BY <1>1, <1>2, ContactTypes DEF Contact
<1>6. /\ Received(r)' /\ op'[r] = "removeContact" /\ at'[r] = "done" /\ intent'[r] = new
      /\ Moves(r, "done") /\ Handling /\ KeptBut(ContactSteps) /\ at[r] \notin ContactSteps
      /\ contact[r].owner = Unowned
      /\ Calm(o, "contacts")' =>
            ContactHandlers(o)' = {} /\ AllEqual(ContactHandlers(o)') /\ ContactsInOrder(o)
    BY <1>2, <1>3, <1>4, ContactsAsked
<1>7. ContactHandler(r)'
    BY <1>4, <1>6 DEF ContactHandler
<1>8. ASSUME Calm(o, "contacts")' PROVE ContactsInOrder(o)'
    <2>1. ContactsOf(o)' \subseteq ContactsOf(o) /\ Primaries(o)' \subseteq Primaries(o)
          /\ \A e \in ContactsOf(o)' : contact'[e] = contact[e]
        BY <1>2, <1>5, PersonalAssumption DEF ContactsOf, Primaries
    <2>2. Cardinality(ContactsOf(o)') <= Cardinality(ContactsOf(o))
        <3>1. ContactsOf(o) \in SUBSET Requests
            BY DEF ContactsOf
        <3> QED BY <2>1, <3>1, FewEqual, FS_Subset
    <2>3. Cardinality(ContactsOf(o)') \in Nat /\ Cardinality(ContactsOf(o)) \in Nat
        <3>1. ContactsOf(o) \in SUBSET Requests /\ ContactsOf(o)' \in SUBSET Requests
            BY DEF ContactsOf
        <3> QED BY <3>1, FewEqual
    <2>4. (Cardinality(ContactsOf(o)) <= MaxContacts)'
        BY <2>2, <2>3, <1>6, <1>8, PersonalAssumption DEF ContactsInOrder
    <2>5. AllEqual(Primaries(o)')
        BY <2>1, <1>6, <1>8 DEF ContactsInOrder, AllEqual
    <2> QED BY <2>1, <2>4, <2>5, <1>6, <1>8 DEF ContactsInOrder
<1>9. \A e \in Requests : \/ contact'[e] = contact[e]
                          \/ /\ {contact[e].owner, contact'[e].owner} \subseteq {o, Unowned}
                             /\ contact[e].owner = Unowned => e = r
    BY <1>2, <1>5, PersonalAssumption
<1>10. ContactsInv'
    BY <1>3, <1>4, <1>6, <1>7, <1>8, <1>9, ContactMoved
<1> QED BY <1>2, <1>5, <1>6, <1>10

LEMMA UpdatingContacts ==
    ASSUME PersonalInv, NEW r \in Requests, NEW o \in Owners, NEW c \in Requests, NEW phone \in Phones,
           UpdateContact(r, o, c, phone)
    PROVE  ContactsInv' /\ contact' \in [Requests -> Contact] /\ ContactsUntouched
           /\ Handling /\ KeptBut(ContactSteps)
<1> DEFINE new == [NoIntent EXCEPT !.owner = o, !.matter = "contacts"]
<1>1. PersonalTypes
    BY DEF PersonalInv
<1>2. Ask(r, "editContact", "done", new) /\ ContactsUntouched /\ contact[c].owner = o
      /\ contact' = [contact EXCEPT ![c] = [@ EXCEPT !.phone = phone, !.edited = TRUE]]
    BY DEF UpdateContact, ContactsOf
<1>3. new \in Intent /\ new.owner = o /\ new.matter = "contacts"
    BY ContactIntents
<1>4. "done" \in Finished /\ "done" \notin ContactSteps
    BY DEF ContactSteps, Finished
<1> HIDE DEF new
<1>5. /\ contact' \in [Requests -> Contact] /\ contact'[c].owner = o /\ contact'[c].edited = TRUE
      /\ contact'[c].primary = contact[c].primary
      /\ \A e \in Requests : e /= c => contact'[e] = contact[e]
    BY <1>1, <1>2, ContactTypes DEF Contact
<1>6. /\ Received(r)' /\ op'[r] = "editContact" /\ at'[r] = "done" /\ intent'[r] = new
      /\ Moves(r, "done") /\ Handling /\ KeptBut(ContactSteps) /\ at[r] \notin ContactSteps
      /\ contact[r].owner = Unowned
      /\ Calm(o, "contacts")' =>
            ContactHandlers(o)' = {} /\ AllEqual(ContactHandlers(o)') /\ ContactsInOrder(o)
    BY <1>2, <1>3, <1>4, ContactsAsked
<1>7. ContactHandler(r)'
    BY <1>4, <1>6 DEF ContactHandler
<1>8. ASSUME Calm(o, "contacts")' PROVE ContactsInOrder(o)'
    <2>1. ContactsOf(o)' = ContactsOf(o) /\ Primaries(o)' = Primaries(o)
        BY <1>2, <1>5 DEF ContactsOf, Primaries
    <2>2. AllEqual(Primaries(o)') /\ (Cardinality(ContactsOf(o)) <= MaxContacts)'
        BY <2>1, <1>6, <1>8 DEF ContactsInOrder
    <2>3. (\A d, e \in ContactsOf(o) :
              contact[d].phone = contact[e].phone => d = e \/ contact[d].edited \/ contact[e].edited)'
        <3> SUFFICES ASSUME NEW d \in ContactsOf(o), NEW e \in ContactsOf(o),
                            contact'[d].phone = contact'[e].phone
                     PROVE  d = e \/ contact'[d].edited \/ contact'[e].edited
            BY <2>1
        <3>1. CASE d = c \/ e = c
            BY <3>1, <1>5
        <3>2. CASE d /= c /\ e /= c
            <4>1. contact'[d] = contact[d] /\ contact'[e] = contact[e]
                BY <3>2, <1>5 DEF ContactsOf
            <4> QED BY <4>1, <1>6, <1>8 DEF ContactsInOrder
        <3> QED BY <3>1, <3>2
    <2> QED BY <2>2, <2>3, <1>6, <1>8 DEF ContactsInOrder
<1>9. \A e \in Requests : \/ contact'[e] = contact[e]
                          \/ /\ {contact[e].owner, contact'[e].owner} \subseteq {o, Unowned}
                             /\ contact[e].owner = Unowned => e = r
    BY <1>2, <1>5, PersonalAssumption
<1>10. ContactsInv'
    BY <1>3, <1>4, <1>6, <1>7, <1>8, <1>9, ContactMoved
<1> QED BY <1>2, <1>5, <1>6, <1>10

(* The handler that is at the contacts of a user. *)
LEMMA AtContacts ==
    ASSUME PersonalInv, NEW r \in Requests, at[r] \in ContactSteps
    PROVE  /\ intent[r].owner \in Owners /\ intent[r].owner /= Unowned /\ Received(r)
           /\ ContactHandler(r) /\ contact[r].owner = Unowned
           /\ Calm(intent[r].owner, "contacts") =>
                 /\ ContactHandlers(intent[r].owner) = {r}
                 /\ ContactsInOrder(intent[r].owner)
<1>1. ContactHandler(r) /\ ContactsInv
    BY DEF PersonalInv, ContactsInv
<1>2. intent[r].owner \in Owners /\ Received(r) /\ contact[r].owner = Unowned
    BY <1>1 DEF ContactHandler, OwnerOf, Received
<1>3. r \in ContactHandlers(intent[r].owner)
    BY DEF ContactHandlers, OwnerOf
<1>4. Calm(intent[r].owner, "contacts") => ContactsInOrder(intent[r].owner)
    BY <1>1, <1>2 DEF ContactsInv
<1> QED BY <1>1, <1>2, <1>3, <1>4, PersonalAssumption DEF ContactsInOrder, AllEqual

LEMMA AtContactsNext ==
    ASSUME PersonalInv, NEW r \in Requests, NEW step, Moves(r, step), intent' = intent,
           NEW o, ContactHandlers(o) = {r}
    PROVE  /\ ContactHandlers(o)' = IF step \in ContactSteps THEN {r} ELSE {}
           /\ AllEqual(ContactHandlers(o)') /\ at'[r] = step
<1>1. at' = [at EXCEPT ![r] = step] /\ at \in [Requests -> PersonalSteps]
    BY DEF Moves, PersonalInv, PersonalTypes
<1>2. at'[r] = step /\ \A q \in Requests \ {r} : at'[q] = at[q]
    BY <1>1
<1>3. ContactHandlers(o)' = IF step \in ContactSteps THEN {r} ELSE {}
    BY <1>2 DEF ContactHandlers, OwnerOf
<1> QED BY <1>2, <1>3 DEF AllEqual

LEMMA CheckingContacts ==
    ASSUME PersonalInv, NEW r \in Requests, IsPhoneNumberUnique(r)
    PROVE  ContactsInv' /\ contact' = contact
<1>1. PersonalTypes /\ at[r] \in ContactSteps
    BY DEF PersonalInv, IsPhoneNumberUnique, At, ContactSteps
<1>2. PICK o \in Owners : o = intent[r].owner
    BY <1>1, AtContacts
<1>3. PICK step \in {"failed", "saveContact"} :
         /\ Goto(r, step)
         /\ step = "saveContact" => \A c \in ContactsOf(o) : contact[c].phone /= intent[r].phone
    BY <1>2 DEF IsPhoneNumberUnique, OwnerOf
<1>4. UNCHANGED <<contact, intent, overlapped>> /\ step \in PersonalSteps
      /\ (step \in ContactSteps <=> step = "saveContact")
    BY DEF IsPhoneNumberUnique, personalVars, PersonalSteps, ContactSteps, Finished
<1>5. Moves(r, step) /\ op' = op /\ at'[r] = step
    BY <1>1, <1>3, <1>4, Stepped
<1>6. ContactHandler(r)' /\ Received(r)'
    BY <1>1, <1>4, <1>5, AtContacts DEF ContactHandler, OwnerOf, Received
<1>7. ASSUME Calm(o, "contacts")' PROVE ContactsInOrder(o)'
    <2>1. ContactHandlers(o) = {r} /\ ContactsInOrder(o)
        BY <1>1, <1>2, <1>4, <1>7, AtContacts DEF Calm
    <2>2. /\ ContactHandlers(o)' = (IF step \in ContactSteps THEN {r} ELSE {})
          /\ AllEqual(ContactHandlers(o)')
        BY <1>4, <1>5, <2>1, AtContactsNext
    <2>3. ContactsOf(o)' = ContactsOf(o) /\ Primaries(o)' = Primaries(o)
        BY <1>4 DEF ContactsOf, Primaries
    <2> QED BY <1>3, <1>4, <1>5, <2>1, <2>2, <2>3 DEF ContactsInOrder
<1> QED BY <1>1, <1>2, <1>4, <1>5, <1>6, <1>7, ContactMoved

LEMMA SavingContacts ==
    ASSUME PersonalInv, NEW r \in Requests, SaveContact(r)
    PROVE  ContactsInv' /\ contact' \in [Requests -> Contact]
<1>1. PersonalTypes /\ at[r] \in ContactSteps /\ at[r] = "saveContact"
    BY DEF PersonalInv, SaveContact, At, ContactSteps
<1>2. PICK o \in Owners : o = intent[r].owner /\ o /= Unowned
    BY <1>1, AtContacts
<1>3. Goto(r, "done") /\ UNCHANGED <<intent, overlapped>> /\ "done" \in PersonalSteps
      /\ "done" \notin ContactSteps
    BY DEF SaveContact, History, PersonalSteps, ContactSteps, Finished
<1>4. Moves(r, "done") /\ op' = op /\ at'[r] = "done"
    BY <1>1, <1>3, Stepped
<1>5. /\ contact' \in [Requests -> Contact] /\ contact'[r].owner = o
      /\ contact'[r].phone = intent[r].phone
      /\ contact'[r].primary = (intent[r].wish = "yes")
      /\ \A c \in Requests : c /= r => contact'[c] = contact[c]
    <2> DEFINE new == [owner |-> o, phone |-> intent[r].phone, primary |-> intent[r].wish = "yes",
                       edited |-> FALSE]
    <2>1. contact' = [contact EXCEPT ![r] = new]
        BY <1>2 DEF SaveContact, OwnerOf
    <2>2. new \in Contact
        BY <1>1, ContactTypes DEF Contact
    <2>3. new.owner = o /\ new.phone = intent[r].phone /\ new.primary = (intent[r].wish = "yes")
        OBVIOUS
    <2> HIDE DEF new
    <2> QED BY <2>1, <2>2, <2>3, <1>1, ContactTypes
<1>6. ContactHandler(r)' /\ Received(r)'
    BY <1>1, <1>3, <1>4, AtContacts DEF ContactHandler, Received
<1>7. ASSUME Calm(o, "contacts")' PROVE ContactsInOrder(o)'
    <2>1. ContactHandlers(o) = {r} /\ ContactsInOrder(o) /\ contact[r].owner = Unowned
        BY <1>1, <1>2, <1>3, <1>7, AtContacts DEF Calm
    <2>2. ContactHandlers(o)' = {} /\ AllEqual(ContactHandlers(o)')
        BY <1>3, <1>4, <2>1, AtContactsNext
    <2>3. /\ Cardinality(ContactsOf(o)) < MaxContacts
          /\ intent[r].wish = "yes" => ContactsOf(o) = {}
          /\ \A c \in ContactsOf(o) : contact[c].phone /= intent[r].phone
        BY <1>1, <2>1 DEF ContactsInOrder
    <2>4. ContactsOf(o)' = ContactsOf(o) \cup {r} /\ r \notin ContactsOf(o)
        BY <1>2, <1>5, <2>1 DEF ContactsOf
    <2>5. (Cardinality(ContactsOf(o)) <= MaxContacts)'
        <3>1. ContactsOf(o) \in SUBSET Requests
            BY DEF ContactsOf
        <3>2. IsFiniteSet(ContactsOf(o)) /\ Cardinality(ContactsOf(o)) \in Nat
            BY <3>1, FewEqual
        <3>3. Cardinality(ContactsOf(o) \cup {r}) = Cardinality(ContactsOf(o)) + 1
            BY <2>4, <3>2, FS_AddElement
        <3> QED BY <2>3, <2>4, <3>2, <3>3, PersonalAssumption
    <2>6. AllEqual(Primaries(o)')
        <3>1. Primaries(o)' \subseteq Primaries(o) \cup {r}
            BY <1>5, <2>4 DEF Primaries, ContactsOf
        <3>2. CASE intent[r].wish = "yes"
            BY <3>1, <3>2, <2>3 DEF AllEqual, Primaries
        <3>3. CASE intent[r].wish /= "yes"
            <4>1. Primaries(o)' \subseteq Primaries(o)
                BY <3>1, <3>3, <1>5 DEF Primaries
            <4> QED BY <4>1, <2>1 DEF ContactsInOrder, AllEqual
        <3> QED BY <3>2, <3>3
    <2>7. (\A c, e \in ContactsOf(o) :
              contact[c].phone = contact[e].phone => c = e \/ contact[c].edited \/ contact[e].edited)'
        <3> SUFFICES ASSUME NEW c \in ContactsOf(o) \cup {r}, NEW e \in ContactsOf(o) \cup {r},
                            contact'[c].phone = contact'[e].phone, c /= e
                     PROVE  contact'[c].edited \/ contact'[e].edited
            BY <2>4
        <3>1. \A x \in ContactsOf(o) : contact'[x] = contact[x]
            BY <1>5, <2>4 DEF ContactsOf
        <3>2. CASE c = r \/ e = r
            BY <3>1, <3>2, <1>5, <2>3
        <3>3. CASE c /= r /\ e /= r
            BY <3>1, <3>3, <2>1 DEF ContactsInOrder
        <3> QED BY <3>2, <3>3
    <2> QED BY <2>2, <2>5, <2>6, <2>7 DEF ContactsInOrder
<1>8. \A c \in Requests : \/ contact'[c] = contact[c]
                          \/ /\ {contact[c].owner, contact'[c].owner} \subseteq {o, Unowned}
                             /\ contact[c].owner = Unowned => c = r
    BY <1>1, <1>5, AtContacts
<1> QED BY <1>1, <1>2, <1>3, <1>4, <1>5, <1>6, <1>7, <1>8, ContactMoved

LEMMA ContactRequest ==
    ASSUME PersonalInv, NEW r \in Requests, NEW o \in Owners, ContactRequests(r, o)
    PROVE  ContactsInv' /\ contact' \in [Requests -> Contact] /\ ContactsUntouched
           /\ Handling /\ KeptBut(ContactSteps)
BY AddingContacts, RemovingContacts, UpdatingContacts DEF ContactRequests

ContactActions(r) == IsPhoneNumberUnique(r) \/ SaveContact(r)

LEMMA ContactAction ==
    ASSUME PersonalInv, NEW r \in Requests, ContactActions(r)
    PROVE  ContactsInv' /\ contact' \in [Requests -> Contact] /\ ContactsUntouched
           /\ Handling /\ KeptBut(ContactSteps)
<1>1. PersonalTypes
    BY DEF PersonalInv
<1>2. PICK step \in {"done", "failed", "saveContact"} : Goto(r, step)
    BY DEF ContactActions, IsPhoneNumberUnique, SaveContact
<1>3. UNCHANGED <<intent, overlapped>> /\ ContactsUntouched /\ at[r] \in ContactSteps
    BY DEF ContactActions, IsPhoneNumberUnique, SaveContact, History, At, ContactSteps, personalVars,
           ContactsUntouched
<1>4. step \in PersonalSteps /\ step \in ContactSteps \cup Finished
    BY DEF PersonalSteps, ContactSteps, Finished
<1>5. Handling /\ Moves(r, step)
    BY <1>1, <1>2, <1>3, <1>4, Stepped DEF Handling, PersonalTypes, PersonalTypeOK
<1>6. KeptBut(ContactSteps)
    BY <1>3, <1>4, <1>5, OtherSteps
<1> QED BY <1>1, <1>3, <1>5, <1>6, CheckingContacts, SavingContacts
        DEF ContactActions, PersonalTypes, PersonalTypeOK

--------------------------------------------------------------------------------
(* Ratings. *)

LEMMA RatingTypes ==
    ASSUME PersonalTypes, NEW x \in Requests
    PROVE  /\ rating[x] \in Rating /\ rating[x].owner \in Owners \cup {Unowned}
           /\ rating \in [Requests -> Rating] /\ rated \subseteq Owners \X Completed
           /\ intent[x].of \in Completed /\ rating[x].of \in Completed
BY DEF PersonalTypes, PersonalTypeOK, Rating, Intent

LEMMA RatingsKept ==
    ASSUME PersonalInv, Kept(RatingSteps), UNCHANGED <<rating, rated>>
    PROVE  RatingsInv'
<1>1. RatingsInv
    BY DEF PersonalInv
<1>2. ASSUME NEW r \in Requests PROVE (RatingHandler(r) /\ (~ Received(r) => rating[r].owner = Unowned))'
    <2>1. RatingHandler(r)'
        BY <1>1 DEF Kept, RatingsInv, RatingHandler, OwnerOf
    <2>2. (~ Received(r) => rating[r].owner = Unowned)'
        BY <1>1 DEF Kept, RatingsInv, Received
    <2> QED BY <2>1, <2>2
<1>3. \A u, i : RatingsOf(u, i)' = RatingsOf(u, i)
    BY DEF RatingsOf
<1>4. ASSUME NEW o \in Owners, Calm(o, "ratings")' PROVE RatingsInOrder(o)'
    <2>1. RatingsInOrder(o)
        BY <1>1, <1>4 DEF Kept, Calm, RatingsInv
    <2>2. RatingHandlers(o)' \subseteq RatingHandlers(o)
        BY DEF RatingHandlers, Kept, OwnerOf
    <2>3. ASSUME NEW q \in RatingHandlers(o)' PROVE at'[q] = at[q] /\ intent'[q] = intent[q]
        BY DEF RatingHandlers, Kept
    <2> QED BY <2>1, <2>2, <2>3, <1>3 DEF RatingsInOrder, AllEqual
<1>5. (\A mark \in rated : RatingsOf(mark[1], mark[2]) /= {})'
    BY <1>1, <1>3 DEF RatingsInv
<1> QED BY <1>2, <1>4, <1>5 DEF RatingsInv

(* A step, or a request, is right if it is right about the ratings of its user. *)
LEMMA RatingMoved ==
    ASSUME PersonalInv, NEW r \in Requests, NEW step, Moves(r, step), Received(r)',
           NEW o \in Owners, at[r] \in RatingSteps => intent[r].owner = o,
           step \in RatingSteps => intent'[r].owner = o, RatingHandler(r)',
           \A x \in Requests : \/ rating'[x] = rating[x]
                               \/ x = r /\ rating[x].owner = Unowned /\ rating'[x].owner = o,
           \A mark \in rated' \ rated : RatingsOf(mark[1], mark[2])' /= {},
           Calm(o, "ratings")' => RatingsInOrder(o)'
    PROVE  RatingsInv'
<1>1. PersonalTypes /\ RatingsInv
    BY DEF PersonalInv
<1>2. /\ \A q \in Requests \ {r} : at'[q] = at[q] /\ intent'[q] = intent[q] /\ op'[q] = op[q]
      /\ at'[r] = step /\ overlapped \subseteq overlapped'
    BY <1>1 DEF Moves, PersonalTypes
<1>3. ASSUME NEW q \in Requests
      PROVE  (RatingHandler(q) /\ (~ Received(q) => rating[q].owner = Unowned))'
    <2>1. CASE q = r
        BY <2>1
    <2>2. CASE q /= r
        <3>1. RatingHandler(q) /\ (~ Received(q) => rating[q].owner = Unowned)
            BY <1>1 DEF RatingsInv
        <3>2. rating'[q] = rating[q]
            BY <2>2
        <3> QED BY <2>2, <3>1, <3>2, <1>2 DEF RatingHandler, OwnerOf, Received
    <2> QED BY <2>1, <2>2
<1>4. ASSUME NEW u \in Owners, NEW i PROVE RatingsOf(u, i) \subseteq RatingsOf(u, i)'
    BY PersonalAssumption DEF RatingsOf
<1>5. ASSUME NEW mark \in rated' PROVE RatingsOf(mark[1], mark[2])' /= {}
    <2>1. CASE mark \in rated
        <3>1. mark[1] \in Owners /\ RatingsOf(mark[1], mark[2]) /= {}
            BY <1>1, <2>1 DEF RatingsInv, PersonalTypes, PersonalTypeOK
        <3> QED BY <3>1, <1>4
    <2>2. CASE mark \notin rated
        BY <2>2
    <2> QED BY <2>1, <2>2
<1>6. ASSUME NEW u \in Owners, Calm(u, "ratings")' PROVE RatingsInOrder(u)'
    <2>1. RatingsInOrder(u)
        BY <1>1, <1>2, <1>6 DEF Calm, RatingsInv
    <2>2. CASE u = o
        BY <1>6, <2>2
    <2>3. CASE u /= o
        <3>1. RatingHandlers(u)' = RatingHandlers(u) /\ r \notin RatingHandlers(u)
            BY <1>2, <2>3 DEF RatingHandlers, OwnerOf
        <3>2. ASSUME NEW q \in RatingHandlers(u) PROVE at'[q] = at[q] /\ intent'[q] = intent[q]
            BY <1>2, <3>1 DEF RatingHandlers
        <3>3. \A i : RatingsOf(u, i)' = RatingsOf(u, i)
            BY <2>3, PersonalAssumption DEF RatingsOf
        <3> QED BY <2>1, <3>1, <3>2, <3>3 DEF RatingsInOrder, AllEqual
    <2> QED BY <2>2, <2>3
<1>7. (\A mark \in rated : RatingsOf(mark[1], mark[2]) /= {})'
    BY <1>5
<1> QED BY <1>3, <1>6, <1>7 DEF RatingsInv

(* The handler that is at the ratings of a user. *)
LEMMA AtRatings ==
    ASSUME PersonalInv, NEW r \in Requests, at[r] \in RatingSteps
    PROVE  /\ intent[r].owner \in Owners /\ intent[r].owner /= Unowned /\ Received(r)
           /\ RatingHandler(r)
           /\ Calm(intent[r].owner, "ratings") =>
                 /\ RatingHandlers(intent[r].owner) = {r}
                 /\ RatingsInOrder(intent[r].owner)
<1>1. RatingHandler(r) /\ RatingsInv
    BY DEF PersonalInv, RatingsInv
<1>2. intent[r].owner \in Owners /\ Received(r)
    BY <1>1 DEF RatingHandler, OwnerOf, Received
<1>3. r \in RatingHandlers(intent[r].owner)
    BY DEF RatingHandlers, OwnerOf
<1>4. Calm(intent[r].owner, "ratings") => RatingsInOrder(intent[r].owner)
    BY <1>1, <1>2 DEF RatingsInv
<1> QED BY <1>1, <1>2, <1>3, <1>4, PersonalAssumption DEF RatingsInOrder, AllEqual

LEMMA AtRatingsNext ==
    ASSUME PersonalInv, NEW r \in Requests, NEW step, Moves(r, step), intent' = intent,
           NEW o, RatingHandlers(o) = {r}
    PROVE  /\ RatingHandlers(o)' = IF step \in RatingSteps THEN {r} ELSE {}
           /\ AllEqual(RatingHandlers(o)') /\ at'[r] = step
<1>1. at' = [at EXCEPT ![r] = step] /\ at \in [Requests -> PersonalSteps]
    BY DEF Moves, PersonalInv, PersonalTypes
<1>2. at'[r] = step /\ \A q \in Requests \ {r} : at'[q] = at[q]
    BY <1>1
<1>3. RatingHandlers(o)' = IF step \in RatingSteps THEN {r} ELSE {}
    BY <1>2 DEF RatingHandlers, OwnerOf
<1> QED BY <1>2, <1>3 DEF AllEqual

LEMMA SubmittingRatings ==
    ASSUME PersonalInv, NEW r \in Requests, NEW o \in Owners, RatingRequests(r, o)
    PROVE  /\ RatingsInv' /\ UNCHANGED <<rating, rated>> /\ RatingsUntouched
           /\ Handling /\ KeptBut(RatingSteps)
<1>1. PersonalTypes /\ RatingsInv
    BY DEF PersonalInv
<1>2. PICK i \in Completed : SubmitRating(r, o, i)
    BY DEF RatingRequests
<1> DEFINE new == [NoIntent EXCEPT !.owner = o, !.matter = "ratings", !.of = i]
<1>3. PICK step \in {"saveRating", "failed"} :
         Ask(r, "rate", step, new) /\ (step = "saveRating" => RatingsOf(o, i) = {})
    BY <1>2 DEF SubmitRating
<1>4. new \in Intent /\ new.owner = o /\ new.matter = "ratings" /\ new.of = i
    BY NoIntentTyped DEF NoIntent, Intent, Matters
<1>5. UNCHANGED <<rating, rated>> /\ RatingsUntouched
    BY <1>2 DEF SubmitRating
<1>6. step \in PersonalSteps /\ step \in RatingSteps \cup Finished
      /\ (step \in RatingSteps <=> step = "saveRating") /\ "rate" \in PersonalKinds \ {"none"}
    BY DEF PersonalSteps, RatingSteps, Finished, PersonalKinds
<1> HIDE DEF new
<1>7. /\ ~ Received(r) /\ op'[r] = "rate" /\ at'[r] = step /\ intent'[r] = new /\ Moves(r, step)
      /\ at[r] \notin UNION {AccountSteps, PaperSteps, ContactSteps, RatingSteps}
      /\ (Calm(o, "ratings")' => ~ Meets(o, "ratings"))
      /\ Handling
    BY <1>3, <1>4, <1>6, Asked DEF Handling
<1>8. /\ \A q \in Requests \ {r} : at'[q] = at[q] /\ intent'[q] = intent[q]
      /\ overlapped \subseteq overlapped'
    BY <1>1, <1>7 DEF Moves, PersonalTypes
<1>9. Received(r)' /\ RatingHandler(r)' /\ at[r] \notin RatingSteps
    BY <1>1, <1>4, <1>5, <1>6, <1>7 DEF RatingHandler, OwnerOf, Received, RatingsInv
<1>10. ASSUME Calm(o, "ratings")' PROVE RatingsInOrder(o)'
    <2>1. RatingHandlers(o) = {}
        <3> SUFFICES ASSUME NEW q \in RatingHandlers(o) PROVE FALSE
            OBVIOUS
        <3>1. q \in Requests /\ at[q] \in RatingSteps /\ intent[q].owner = o
              /\ intent[q].matter = "ratings" /\ op[q] /= "none"
            BY <1>1 DEF RatingHandlers, RatingsInv, RatingHandler, OwnerOf
        <3> QED BY <3>1, <1>7, <1>10 DEF Meets, Running, Received, RatingSteps, Finished
    <2>2. RatingHandlers(o)' \subseteq {r}
        BY <2>1, <1>7, <1>8 DEF RatingHandlers, OwnerOf
    <2>3. RatingsInOrder(o)
        BY <1>1, <1>8, <1>10 DEF Calm, RatingsInv
    <2>4. \A j : RatingsOf(o, j)' = RatingsOf(o, j)
        BY <1>5 DEF RatingsOf
    <2> QED BY <2>2, <2>3, <2>4, <1>3, <1>4, <1>7 DEF RatingsInOrder, AllEqual
<1>11. RatingsInv'
    BY <1>4, <1>5, <1>7, <1>9, <1>10, RatingMoved
<1>12. KeptBut(RatingSteps)
    BY <1>6, <1>7, OtherSteps
<1> QED BY <1>5, <1>7, <1>11, <1>12

LEMMA SavingRatings ==
    ASSUME PersonalInv, NEW r \in Requests, SaveRating(r)
    PROVE  RatingsInv' /\ rating' \in [Requests -> Rating]
<1>1. PersonalTypes /\ at[r] = "saveRating" /\ at[r] \in RatingSteps
    BY DEF PersonalInv, SaveRating, At, RatingSteps
<1>2. PICK o \in Owners : o = intent[r].owner /\ o /= Unowned
    BY <1>1, AtRatings
<1>3. Goto(r, "markRated") /\ UNCHANGED <<intent, overlapped, rated>> /\ "markRated" \in PersonalSteps
      /\ "markRated" \in RatingSteps
    BY DEF SaveRating, History, PersonalSteps, RatingSteps
<1>4. Moves(r, "markRated") /\ op' = op /\ at'[r] = "markRated"
    BY <1>1, <1>3, Stepped
<1>5. /\ rating' \in [Requests -> Rating] /\ rating'[r] = [owner |-> o, of |-> intent[r].of]
      /\ rating'[r].owner = o /\ rating'[r].of = intent[r].of
      /\ \A x \in Requests : x /= r => rating'[x] = rating[x]
    <2>1. rating' = [rating EXCEPT ![r] = [owner |-> o, of |-> intent[r].of]]
        BY <1>2 DEF SaveRating, OwnerOf
    <2> QED BY <2>1, <1>1, RatingTypes DEF Rating
<1>6. RatingHandler(r)' /\ Received(r)' /\ rating[r].owner = Unowned
    BY <1>1, <1>2, <1>3, <1>4, <1>5, AtRatings DEF RatingHandler, OwnerOf, Received
<1>7. ASSUME Calm(o, "ratings")' PROVE RatingsInOrder(o)'
    <2>1. RatingHandlers(o) = {r} /\ RatingsInOrder(o)
        BY <1>1, <1>2, <1>3, <1>7, AtRatings DEF Calm
    <2>2. RatingHandlers(o)' = {r} /\ AllEqual(RatingHandlers(o)')
        BY <1>3, <1>4, <2>1, AtRatingsNext
    <2>3. ASSUME NEW i \in Completed PROVE AllEqual(RatingsOf(o, i)')
        <3>1. CASE i = intent[r].of
            <4>1. RatingsOf(o, i) = {}
                BY <1>1, <2>1, <3>1 DEF RatingsInOrder
            <4>2. RatingsOf(o, i)' \subseteq {r}
                BY <4>1, <1>5 DEF RatingsOf
            <4> QED BY <4>2 DEF AllEqual
        <3>2. CASE i /= intent[r].of
            <4>1. RatingsOf(o, i)' \subseteq RatingsOf(o, i)
                BY <3>2, <1>5 DEF RatingsOf
            <4> QED BY <4>1, <2>1 DEF RatingsInOrder, AllEqual
        <3> QED BY <3>1, <3>2
    <2>4. (\A i \in Completed : AllEqual(RatingsOf(o, i)))'
        BY <2>3 DEF AllEqual
    <2> QED BY <2>2, <2>4, <1>4 DEF RatingsInOrder
<1> QED BY <1>1, <1>2, <1>3, <1>4, <1>5, <1>6, <1>7, RatingMoved

LEMMA MarkingRated ==
    ASSUME PersonalInv, NEW r \in Requests, MarkRated(r)
    PROVE  RatingsInv' /\ rated' \subseteq Owners \X Completed
<1>1. PersonalTypes /\ at[r] = "markRated" /\ at[r] \in RatingSteps
    BY DEF PersonalInv, MarkRated, At, RatingSteps
<1>2. PICK o \in Owners : o = intent[r].owner /\ o /= Unowned
    BY <1>1, AtRatings
<1>3. Goto(r, "done") /\ UNCHANGED <<intent, overlapped, rating>> /\ "done" \in PersonalSteps
      /\ "done" \notin RatingSteps
    BY DEF MarkRated, History, PersonalSteps, RatingSteps, Finished
<1>4. Moves(r, "done") /\ op' = op /\ at'[r] = "done"
    BY <1>1, <1>3, Stepped
<1>5. rated' = rated \cup {<<o, intent[r].of>>} /\ intent[r].of \in Completed
    BY <1>1, <1>2, RatingTypes DEF MarkRated, OwnerOf
<1>6. RatingHandler(r)' /\ Received(r)'
    BY <1>1, <1>3, <1>4, AtRatings DEF RatingHandler, Received
<1>7. ASSUME Calm(o, "ratings")' PROVE RatingsInOrder(o)'
    <2>1. RatingHandlers(o) = {r} /\ RatingsInOrder(o)
        BY <1>1, <1>2, <1>3, <1>7, AtRatings DEF Calm
    <2>2. RatingHandlers(o)' = {} /\ AllEqual(RatingHandlers(o)')
        BY <1>3, <1>4, <2>1, AtRatingsNext
    <2>3. \A i : RatingsOf(o, i)' = RatingsOf(o, i)
        BY <1>3 DEF RatingsOf
    <2> QED BY <2>1, <2>2, <2>3 DEF RatingsInOrder, AllEqual
<1>8. r \in RatingsOf(o, intent[r].of)'
    <2>1. rating[r] = [owner |-> o, of |-> intent[r].of]
        BY <1>1, <1>2, AtRatings DEF RatingHandler, OwnerOf
    <2>2. rating'[r].owner = o /\ rating'[r].of = intent'[r].of
        BY <2>1, <1>3
    <2> QED BY <2>2 DEF RatingsOf
<1>9. \A mark \in rated' \ rated : RatingsOf(mark[1], mark[2])' /= {}
    BY <1>3, <1>5, <1>8 DEF RatingsOf
<1> QED BY <1>1, <1>2, <1>3, <1>4, <1>5, <1>6, <1>7, <1>9, RatingMoved DEF PersonalTypes, PersonalTypeOK

RatingActions(r) == SaveRating(r) \/ MarkRated(r)

LEMMA RatingAction ==
    ASSUME PersonalInv, NEW r \in Requests, RatingActions(r)
    PROVE  /\ RatingsInv' /\ rating' \in [Requests -> Rating] /\ rated' \subseteq Owners \X Completed
           /\ RatingsUntouched /\ Handling /\ KeptBut(RatingSteps)
<1>1. PersonalTypes
    BY DEF PersonalInv
<1>2. PICK step \in {"done", "markRated"} : Goto(r, step)
    BY DEF RatingActions, SaveRating, MarkRated
<1>3. UNCHANGED <<intent, overlapped>> /\ RatingsUntouched /\ at[r] \in RatingSteps
    BY DEF RatingActions, SaveRating, MarkRated, History, At, RatingSteps
<1>4. step \in PersonalSteps /\ step \in RatingSteps \cup Finished
    BY DEF PersonalSteps, RatingSteps, Finished
<1>5. Handling /\ Moves(r, step)
    BY <1>1, <1>2, <1>3, <1>4, Stepped DEF Handling, PersonalTypes, PersonalTypeOK
<1>6. KeptBut(RatingSteps)
    BY <1>3, <1>4, <1>5, OtherSteps
<1>7. CASE SaveRating(r)
    BY <1>1, <1>3, <1>5, <1>6, <1>7, SavingRatings DEF SaveRating, PersonalTypes, PersonalTypeOK
<1>8. CASE MarkRated(r)
    BY <1>1, <1>3, <1>5, <1>6, <1>8, MarkingRated DEF MarkRated, PersonalTypes, PersonalTypeOK
<1> QED BY <1>7, <1>8 DEF RatingActions

--------------------------------------------------------------------------------
(* All together. *)

LEMMA ReceivedInTurn ==
    ASSUME PersonalInv, NEW r \in Requests, PersonalReceive(r)
    PROVE  InTurn'
<1>1. PICK kind : op' = [op EXCEPT ![r] = kind]
    <2>1. PICK o \in Owners : \/ AccountRequests(r, o) \/ PaperRequests(r, o) \/ ContactRequests(r, o)
                              \/ RatingRequests(r, o) \/ IssueRequests(r, o)
        BY DEF PersonalReceive
    <2>2. CASE AccountRequests(r, o)
        BY <2>2 DEF AccountRequests, CreateBankAccount, UpdateBankAccount, DeleteBankAccount, Ask, Receive
    <2>3. CASE PaperRequests(r, o)
        BY <2>3 DEF PaperRequests, UploadPaper, EditPaper, ReviewPaper, Ask, Receive
    <2>4. CASE ContactRequests(r, o)
        BY <2>4 DEF ContactRequests, AddContact, RemoveContact, UpdateContact, Ask, Receive
    <2>5. CASE RatingRequests(r, o)
        BY <2>5 DEF RatingRequests, SubmitRating, Ask, Receive
    <2>6. CASE IssueRequests(r, o)
        BY <2>6 DEF IssueRequests, SubmitIssueReport, AssignReport, ResolveReport, Receive
    <2> QED BY <2>1, <2>2, <2>3, <2>4, <2>5, <2>6
<1>2. op \in [Requests -> PersonalKinds] /\ InTurn /\ IsTurnOf(r)
    BY DEF PersonalInv, PersonalTypes, PersonalReceive
<1>3. \A q \in Requests : q /= r => op'[q] = op[q]
    BY <1>1, <1>2
<1> SUFFICES ASSUME NEW p \in Requests, NEW q \in Requests, p < q, Received(q)'
             PROVE  Received(p)'
    BY DEF InTurn
<1>4. Received(p) /\ p /= r
    BY <1>2, <1>3 DEF InTurn, IsTurnOf, Received, Requests
<1> QED BY <1>3, <1>4 DEF Received

LEMMA StepsApart ==
    /\ AccountSteps /= PaperSteps /\ AccountSteps /= ContactSteps /\ AccountSteps /= RatingSteps
    /\ PaperSteps /= ContactSteps /\ PaperSteps /= RatingSteps /\ ContactSteps /= RatingSteps
<1>1. "save" \in AccountSteps /\ "resubmit" \in PaperSteps /\ "isUnique" \in ContactSteps
    BY DEF AccountSteps, PaperSteps, ContactSteps
<1>2. "save" \notin PaperSteps \cup ContactSteps \cup RatingSteps
      /\ "resubmit" \notin ContactSteps \cup RatingSteps /\ "isUnique" \notin RatingSteps
    BY DEF PaperSteps, ContactSteps, RatingSteps
<1> QED BY <1>1, <1>2

LEMMA KeptFewer ==
    ASSUME Kept(PaperSteps)
    PROVE  FewerPaperHandlers
BY DEF Kept, FewerPaperHandlers, PaperSteps

(* Each matter is left alone by the steps of the others. *)
LEMMA MattersApart ==
    ASSUME PersonalInv, NEW r \in Requests,
           \/ \E o \in Owners : \/ AccountRequests(r, o) \/ PaperRequests(r, o) \/ ContactRequests(r, o)
                               \/ RatingRequests(r, o) \/ IssueRequests(r, o)
           \/ AccountActions(r) \/ PaperActions(r) \/ ContactActions(r) \/ RatingActions(r)
    PROVE  PersonalTypes' /\ AccountsInv' /\ PapersInv' /\ ContactsInv' /\ RatingsInv'
<1>1. PersonalTypes
    BY DEF PersonalInv
<1> DEFINE Typed == /\ account' \in [Requests -> Account] /\ idPaper' \in [Requests -> IdPaper]
                    /\ contact' \in [Requests -> Contact] /\ rating' \in [Requests -> Rating]
                    /\ rated' \subseteq Owners \X Completed /\ issue' \in [Requests -> Issue]
<1>2. Handling /\ Typed => PersonalTypes'
    BY DEF Handling, PersonalTypes, PersonalTypeOK
<1>3. CASE (\E o \in Owners : AccountRequests(r, o)) \/ AccountActions(r)
    <2>1. /\ AccountsInv' /\ account' \in [Requests -> Account] /\ OthersUntouched
          /\ Handling /\ KeptBut(AccountSteps)
        BY <1>1, <1>3, AccountRequest, AccountAction DEF PersonalTypes, PersonalTypeOK
    <2>2. Kept(PaperSteps) /\ Kept(ContactSteps) /\ Kept(RatingSteps)
        BY <2>1, StepsApart DEF KeptBut
    <2>3. UNCHANGED <<idPaper, contact, rating, rated, issue>>
        BY <2>1 DEF OthersUntouched
    <2>4. Typed
        BY <1>1, <2>1, <2>3 DEF PersonalTypes, PersonalTypeOK
    <2>5. PapersInv'
        BY <2>2, <2>3, KeptFewer, PapersKept DEF SamePaper
    <2> QED BY <1>2, <2>1, <2>2, <2>3, <2>4, <2>5, ContactsKept, RatingsKept
<1>4. CASE (\E o \in Owners : PaperRequests(r, o)) \/ PaperActions(r)
    <2>1. /\ PapersInv' /\ idPaper' \in [Requests -> IdPaper] /\ PapersUntouched
          /\ Handling /\ KeptBut(PaperSteps)
        BY <1>4, PaperRequest, PaperAction
    <2>2. Kept(AccountSteps) /\ Kept(ContactSteps) /\ Kept(RatingSteps)
        BY <2>1, StepsApart DEF KeptBut
    <2>3. UNCHANGED <<account, contact, rating, rated, issue>>
        BY <2>1 DEF PapersUntouched
    <2>4. Typed
        BY <1>1, <2>1, <2>3 DEF PersonalTypes, PersonalTypeOK
    <2> QED BY <1>2, <2>1, <2>2, <2>3, <2>4, AccountsKept, ContactsKept, RatingsKept
<1>5. CASE (\E o \in Owners : ContactRequests(r, o)) \/ ContactActions(r)
    <2>1. /\ ContactsInv' /\ contact' \in [Requests -> Contact] /\ ContactsUntouched
          /\ Handling /\ KeptBut(ContactSteps)
        BY <1>5, ContactRequest, ContactAction
    <2>2. Kept(AccountSteps) /\ Kept(PaperSteps) /\ Kept(RatingSteps)
        BY <2>1, StepsApart DEF KeptBut
    <2>3. UNCHANGED <<account, idPaper, rating, rated, issue>>
        BY <2>1 DEF ContactsUntouched
    <2>4. Typed
        BY <1>1, <2>1, <2>3 DEF PersonalTypes, PersonalTypeOK
    <2>5. PapersInv'
        BY <2>2, <2>3, KeptFewer, PapersKept DEF SamePaper
    <2> QED BY <1>2, <2>1, <2>2, <2>3, <2>4, <2>5, AccountsKept, RatingsKept
<1>6. CASE (\E o \in Owners : RatingRequests(r, o)) \/ RatingActions(r)
    <2>1. /\ RatingsInv' /\ rating' \in [Requests -> Rating] /\ rated' \subseteq Owners \X Completed
          /\ RatingsUntouched /\ Handling /\ KeptBut(RatingSteps)
        BY <1>1, <1>6, SubmittingRatings, RatingAction DEF PersonalTypes, PersonalTypeOK
    <2>2. Kept(AccountSteps) /\ Kept(PaperSteps) /\ Kept(ContactSteps)
        BY <2>1, StepsApart DEF KeptBut
    <2>3. UNCHANGED <<account, idPaper, contact, issue>>
        BY <2>1 DEF RatingsUntouched
    <2>4. Typed
        BY <1>1, <2>1, <2>3 DEF PersonalTypes, PersonalTypeOK
    <2>5. PapersInv'
        BY <2>2, <2>3, KeptFewer, PapersKept DEF SamePaper
    <2> QED BY <1>2, <2>1, <2>2, <2>3, <2>4, <2>5, AccountsKept, ContactsKept
<1>7. CASE \E o \in Owners : IssueRequests(r, o)
    <2>1. PICK kind \in {"reportIssue", "assignReport", "resolveReport"} : Receive(r, kind, "done")
        BY <1>7 DEF IssueRequests, SubmitIssueReport, AssignReport, ResolveReport
    <2>2. IssuesOnly /\ issue' \in [Requests -> Issue]
        <3>1. issue \in [Requests -> Issue]
            BY <1>1 DEF PersonalTypes, PersonalTypeOK
        <3>2. CASE \E o \in Owners : SubmitIssueReport(r, o)
            BY <3>1, <3>2 DEF SubmitIssueReport, Issue
        <3>3. CASE \E x \in Requests : AssignReport(r, x)
            <4>1. PICK x \in Requests : AssignReport(r, x)
                BY <3>3
            <4>2. issue[x] \in Issue /\ [issue[x] EXCEPT !.assigned = TRUE] \in Issue
                BY <3>1 DEF Issue
            <4>3. IssuesOnly /\ issue' = [issue EXCEPT ![x] = [issue[x] EXCEPT !.assigned = TRUE]]
                BY <3>1, <4>1 DEF AssignReport
            <4> QED BY <3>1, <4>2, <4>3
        <3>4. CASE \E x \in Requests : ResolveReport(r, x)
            <4>1. PICK x \in Requests : ResolveReport(r, x)
                BY <3>4
            <4>2. issue[x] \in Issue /\ [issue[x] EXCEPT !.status = "RESOLVED"] \in Issue
                BY <3>1 DEF Issue
            <4>3. IssuesOnly /\ issue' = [issue EXCEPT ![x] = [issue[x] EXCEPT !.status = "RESOLVED"]]
                BY <3>1, <4>1 DEF ResolveReport
            <4> QED BY <3>1, <4>2, <4>3
        <3> QED BY <1>7, <3>2, <3>3, <3>4 DEF IssueRequests
    <2>3. UNCHANGED <<account, idPaper, contact, rating, rated, intent, overlapped>>
        BY <2>2 DEF IssuesOnly
    <2>4. /\ Moves(r, "done")
          /\ at[r] \notin UNION {AccountSteps, PaperSteps, ContactSteps, RatingSteps}
          /\ Handling
        BY <1>1, <2>1, <2>3, Noted DEF Handling, PersonalKinds, PersonalTypes, PersonalTypeOK
    <2>5. KeptBut(AccountSteps) /\ KeptBut(PaperSteps)
        BY <2>4, OtherSteps DEF Finished
    <2>6. Kept(AccountSteps) /\ Kept(PaperSteps) /\ Kept(ContactSteps) /\ Kept(RatingSteps)
        BY <2>5, StepsApart DEF KeptBut
    <2>7. Typed
        BY <1>1, <2>2, <2>3 DEF PersonalTypes, PersonalTypeOK
    <2>8. PapersInv'
        BY <2>3, <2>6, KeptFewer, PapersKept DEF SamePaper
    <2> QED BY <1>2, <2>3, <2>4, <2>6, <2>7, <2>8, AccountsKept, ContactsKept, RatingsKept
<1> QED BY <1>3, <1>4, <1>5, <1>6, <1>7

(* A stop marks the matters of all it ends. *)
LEMMA StopMarks ==
    ASSUME PersonalInv, Stop, PersonalStop
    PROVE  PersonalInv'
<1>1. PersonalTypes /\ AccountsInv /\ PapersInv /\ ContactsInv /\ RatingsInv
    BY DEF PersonalInv
<1>2. /\ op' = op /\ stops' = stops + 1 /\ intent' = intent
      /\ at' = [r \in Requests |-> IF Running(r) THEN "lost" ELSE at[r]]
      /\ UNCHANGED <<account, idPaper, contact, rating, rated, issue>>
      /\ overlapped' = overlapped \cup {<<intent[r].owner, intent[r].matter>> :
                                          r \in {q \in Requests : Running(q) /\ OwnerOf(q) /= Unowned}}
    BY DEF Stop, PersonalStop
<1>3. PersonalTypes'
    <2>1. "lost" \in PersonalSteps
        BY DEF PersonalSteps, Finished
    <2>2. \A r \in Requests : intent[r].owner \in Owners \cup {Unowned} /\ intent[r].matter \in Matters
        BY <1>1 DEF PersonalTypes, PersonalTypeOK, Intent
    <2>3. overlapped' \subseteq Owners \X Matters
        BY <1>1, <1>2, <2>2 DEF PersonalTypes, PersonalTypeOK, OwnerOf
    <2> QED BY <1>1, <1>2, <2>1, <2>3 DEF PersonalTypes, PersonalTypeOK
<1>4. ASSUME NEW S \in {AccountSteps, PaperSteps, ContactSteps, RatingSteps} PROVE Kept(S)
    <2>1. ASSUME NEW q \in Requests, at[q] \in S
          PROVE  <<intent[q].owner, intent[q].matter>> \in overlapped'
        <3>1. op[q] /= "none" /\ intent[q].owner \in Owners
            BY <1>1, <2>1 DEF AccountsInv, AccountHandler, PapersInv, PaperHandler, ContactsInv,
                              ContactHandler, RatingsInv, RatingHandler, OwnerOf
        <3>2. at[q] \notin Finished
            BY <2>1 DEF AccountSteps, PaperSteps, ContactSteps, RatingSteps, Finished
        <3> QED BY <3>1, <3>2, <1>2, PersonalAssumption DEF Running, Received, OwnerOf
    <2>2. "lost" \notin S
        BY DEF AccountSteps, PaperSteps, ContactSteps, RatingSteps
    <2>3. \A q \in Requests : at'[q] \in S => at'[q] = at[q]
        BY <1>2, <2>2
    <2> QED BY <1>2, <2>1, <2>3 DEF Kept
<1>5. InTurn'
    BY <1>2 DEF PersonalInv, InTurn, Received
<1>6. PapersInv'
    BY <1>2, <1>4, KeptFewer, PapersKept DEF SamePaper
<1> QED BY <1>2, <1>3, <1>4, <1>5, <1>6, AccountsKept, ContactsKept, RatingsKept DEF PersonalInv

LEMMA PersonalInitially ==
    ASSUME HandlersInit, PersonalInit
    PROVE  PersonalInv
<1>1. /\ op = [r \in Requests |-> "none"] /\ at = [r \in Requests |-> "idle"] /\ stops = 0
      /\ intent = [r \in Requests |-> NoIntent] /\ rated = {} /\ overlapped = {}
    BY DEF HandlersInit, PersonalInit, Every
<1>2. \A r \in Requests :
         /\ account[r] = [owner |-> Unowned, active |-> FALSE, default |-> FALSE]
         /\ idPaper[r] = [owner |-> Unowned, kind |-> "NRIC", active |-> FALSE, status |-> "PENDING"]
         /\ contact[r] = [owner |-> Unowned, phone |-> NoIntent.phone, primary |-> FALSE, edited |-> FALSE]
         /\ rating[r] = [owner |-> Unowned, of |-> NoIntent.of]
    BY DEF PersonalInit, Every
<1>3. NoIntent.phone \in Phones /\ NoIntent.of \in Completed
    BY NoIntentTyped DEF Intent
<1>4. PersonalTypeOK
    <2>1. account \in [Requests -> Account] /\ idPaper \in [Requests -> IdPaper]
        BY DEF PersonalInit, Every, Account, IdPaper, PaperKinds
    <2>2. contact \in [Requests -> Contact] /\ rating \in [Requests -> Rating]
        BY <1>3 DEF PersonalInit, Every, Contact, Rating
    <2>3. issue \in [Requests -> Issue]
        BY DEF PersonalInit, Every, Issue
    <2> QED BY <1>1, <2>1, <2>2, <2>3, NoIntentTyped DEF PersonalTypeOK
<1>5. PersonalTypes
    BY <1>1, <1>4 DEF PersonalTypes, PersonalKinds, PersonalSteps
<1>6. \A r \in Requests : at[r] \notin AccountSteps \cup PaperSteps \cup ContactSteps \cup RatingSteps
    BY <1>1 DEF AccountSteps, PaperSteps, ContactSteps, RatingSteps
<1>7. \A r \in Requests : /\ AccountHandler(r) /\ PaperHandler(r) /\ ContactHandler(r) /\ RatingHandler(r)
                          /\ account[r].owner = Unowned /\ idPaper[r].owner = Unowned
                          /\ contact[r].owner = Unowned /\ rating[r].owner = Unowned
    BY <1>2, <1>6 DEF AccountHandler, PaperHandler, ContactHandler, RatingHandler
<1>8. ASSUME NEW o \in Owners
      PROVE  /\ AccountHandlers(o) = {} /\ ContactHandlers(o) = {} /\ RatingHandlers(o) = {}
             /\ AccountsOf(o) = {} /\ ContactsOf(o) = {}
             /\ \A kind : PaperHandlers(o, kind) = {} /\ PapersOf(o, kind) = {}
             /\ \A i : RatingsOf(o, i) = {}
    <2>1. o /= Unowned
        BY PersonalAssumption
    <2> QED BY <2>1, <1>6, <1>7 DEF AccountHandlers, ContactHandlers, RatingHandlers, AccountsOf,
                                   ContactsOf, PaperHandlers, PapersOf, RatingsOf
<1>9. ASSUME NEW o \in Owners
      PROVE  /\ AccountsInOrder(o) /\ ContactsInOrder(o) /\ RatingsInOrder(o)
             /\ \A kind : PapersInOrder(o, kind)
    <2>1. AccountsInOrder(o)
        BY <1>8 DEF AccountsInOrder, Flagged, ActiveAccounts, AllEqual
    <2>2. ContactsInOrder(o)
        BY <1>8, FS_EmptySet, PersonalAssumption DEF ContactsInOrder, Primaries, AllEqual
    <2>3. RatingsInOrder(o)
        BY <1>8 DEF RatingsInOrder, AllEqual
    <2>4. \A kind : PapersInOrder(o, kind)
        BY <1>8 DEF PapersInOrder, ActivePapers, AllEqual
    <2> QED BY <2>1, <2>2, <2>3, <2>4
<1>10. InTurn
    BY <1>1 DEF InTurn, Received
<1> QED BY <1>1, <1>5, <1>7, <1>9, <1>10
        DEF PersonalInv, AccountsInv, PapersInv, ContactsInv, RatingsInv

LEMMA PersonalInvHolds == PersonalSpec => []PersonalInv
<1>1. HandlersInit /\ PersonalInit => PersonalInv
    BY PersonalInitially
<1>2. PersonalInv /\ [PersonalNext \/ (Stop /\ PersonalStop)]_<<handlerVars, personalVars>> => PersonalInv'
    <2> SUFFICES ASSUME PersonalInv, [PersonalNext \/ (Stop /\ PersonalStop)]_<<handlerVars, personalVars>>
                 PROVE  PersonalInv'
        OBVIOUS
    <2>1. ASSUME NEW r \in Requests, PersonalReceive(r) PROVE PersonalInv'
        <3>1. InTurn'
            BY <2>1, ReceivedInTurn
        <3> QED BY <2>1, <3>1, MattersApart DEF PersonalReceive, PersonalInv
    <2>2. ASSUME NEW r \in Requests, PersonalStep(r) PROVE PersonalInv'
        <3>1. AccountActions(r) \/ PaperActions(r) \/ ContactActions(r) \/ RatingActions(r)
            BY <2>2 DEF PersonalStep, AccountActions, PaperActions, ContactActions, RatingActions
        <3>2. op' = op
            BY <2>2 DEF PersonalStep, UnsetOthers, PreSave, Save, CountActive, Deactivate, PickDefault,
                        CreatePaper, RetirePaper, Resubmit, IsPhoneNumberUnique, SaveContact,
                        SaveRating, MarkRated, Goto
        <3>3. InTurn'
            BY <3>2 DEF PersonalInv, InTurn, Received
        <3> QED BY <3>1, <3>3, MattersApart DEF PersonalInv
    <2>3. CASE Stop /\ PersonalStop
        BY <2>3, StopMarks
    <2>4. CASE UNCHANGED <<handlerVars, personalVars>>
        <3>1. UNCHANGED <<op, at, stops>> /\ UNCHANGED personalVars
            BY <2>4 DEF handlerVars
        <3>2. UNCHANGED <<account, idPaper, contact, rating, rated, issue, intent, overlapped>>
            BY <3>1 DEF personalVars
        <3>3. \A S : Kept(S)
            BY <3>1, <3>2 DEF Kept
        <3>4. PersonalTypes' /\ InTurn'
            BY <3>1, <3>2 DEF PersonalInv, PersonalTypes, PersonalTypeOK, InTurn, Received
        <3>5. PapersInv'
            BY <3>2, <3>3, KeptFewer, PapersKept DEF SamePaper
        <3> QED BY <3>2, <3>3, <3>4, <3>5, AccountsKept, ContactsKept, RatingsKept DEF PersonalInv
    <2> QED BY <2>1, <2>2, <2>3, <2>4 DEF PersonalNext
<1> QED BY <1>1, <1>2, PTL DEF PersonalSpec

--------------------------------------------------------------------------------
(* What the invariant says of the rules. *)

(* Whoever is at a matter meets who asks. *)
LEMMA NobodyAtWork ==
    ASSUME PersonalInv, NEW o \in Owners
    PROVE  /\ ~ Meets(o, "accounts") => AccountHandlers(o) = {}
           /\ \A kind \in PaperKinds : ~ Meets(o, kind) => PaperHandlers(o, kind) = {}
<1>1. AccountsInv /\ PapersInv
    BY DEF PersonalInv
<1>2. ASSUME NEW q \in AccountHandlers(o) PROVE Meets(o, "accounts")
    <2>1. q \in Requests /\ at[q] \in AccountSteps /\ intent[q].owner = o
          /\ intent[q].matter = "accounts" /\ op[q] /= "none"
        BY <1>1 DEF AccountHandlers, AccountsInv, AccountHandler, OwnerOf
    <2> QED BY <2>1 DEF Meets, Running, Received, AccountSteps, Finished
<1>3. ASSUME NEW kind \in PaperKinds, NEW q \in PaperHandlers(o, kind) PROVE Meets(o, kind)
    <2>1. q \in Requests /\ at[q] \in PaperSteps /\ intent[q].owner = o
          /\ intent[q].matter = kind /\ op[q] /= "none"
        BY <1>1 DEF PaperHandlers, PapersInv, PaperHandler, OwnerOf
    <2> QED BY <2>1 DEF Meets, Running, Received, PaperSteps, Finished
<1> QED BY <1>2, <1>3

(* In a set of requests, some one has no greater. *)
LEMMA GreatestRequest ==
    ASSUME NEW S \in SUBSET Requests, S /= {}
    PROVE  \E p \in S : \A q \in S : ~ (q > p)
<1> DEFINE T == {MaxRequests - p : p \in S}
<1>1. S \subseteq 1..MaxRequests /\ MaxRequests \in Nat
    BY RequestsAssumption DEF Requests
<1>2. T \subseteq Nat /\ T /= {}
    <2>1. \A p \in S : MaxRequests - p \in Nat
        BY <1>1
    <2> QED BY <2>1
<1>3. PICK x \in T : \A y \in T : ~ (<<y, x>> \in OpToRel(<, Nat))
    BY <1>2, WFMin, NatLessThanWellFounded
<1>4. \A y \in T : ~ (y < x)
    BY <1>2, <1>3 DEF OpToRel
<1>5. PICK p \in S : x = MaxRequests - p
    BY <1>3
<1>6. ASSUME NEW q \in S, q > p PROVE FALSE
    <2>1. MaxRequests - q \in T /\ MaxRequests - q < x
        BY <1>1, <1>5, <1>6
    <2> QED BY <2>1, <1>4
<1> QED BY <1>6

LEMMA RulesFollow ==
    ASSUME PersonalInv
    PROVE  OwnersRules
<1>1. PersonalTypes /\ AccountsInv /\ PapersInv /\ ContactsInv /\ RatingsInv
    BY DEF PersonalInv
<1>2. ASSUME NEW o \in Owners PROVE OneDefault(o)
    <2>1. GetDefaultBankAccount(o) \in SUBSET Requests /\ GetDefaultBankAccount(o) \subseteq Flagged(o)
        BY DEF GetDefaultBankAccount, ActiveAccounts, AccountsOf, Flagged
    <2>2. Calm(o, "accounts") => AllEqual(GetDefaultBankAccount(o))
        BY <1>1, <2>1 DEF AccountsInv, AccountsInOrder, AllEqual
    <2> QED BY <2>1, <2>2, FewEqual DEF OneDefault
<1>3. ASSUME NEW o \in Owners PROVE DefaultHandedOn(o)
    <2> SUFFICES ASSUME Settled(o, "accounts"), NEW a \in AccountsOf(o),
                        account[a].default, ~ account[a].active, ~ DefaultByEdit(a)
                 PROVE  FALSE
        BY DEF DefaultHandedOn
    <2>1. AccountsInOrder(o) /\ AccountHandlers(o) = {}
        BY <1>1, NobodyAtWork DEF Settled, AccountsInv
    <2> QED BY <2>1 DEF AccountsInOrder, TakenOver
<1>4. ASSUME NEW o \in Owners PROVE PapersReplaced(o)
    <2> SUFFICES ASSUME NEW kind \in PaperKinds
                 PROVE  /\ PapersOf(o, kind) /= {} => ActivePapers(o, kind) /= {}
                        /\ Settled(o, kind) => Cardinality(ActivePapers(o, kind)) <= 1
        BY DEF PapersReplaced
    <2>1. ASSUME PapersOf(o, kind) /= {}, ActivePapers(o, kind) = {} PROVE FALSE
        <3>1. PapersOf(o, kind) \in SUBSET Requests
            BY DEF PapersOf
        <3>2. PICK p \in PapersOf(o, kind) : \A q \in PapersOf(o, kind) : ~ (q > p)
            BY <2>1, <3>1, GreatestRequest
        <3>3. p \in Requests /\ idPaper[p].owner = o /\ idPaper[p].kind = kind /\ ~ idPaper[p].active
            BY <2>1, <3>2 DEF PapersOf, ActivePapers
        <3>4. Succeeded(p)
            BY <1>1, <3>3, PersonalAssumption DEF PapersInv
        <3>5. PICK q \in Requests : q > p /\ idPaper[q].owner = o /\ idPaper[q].kind = kind
            BY <3>3, <3>4 DEF Succeeded
        <3> QED BY <3>2, <3>5 DEF PapersOf
    <2>2. ASSUME Settled(o, kind) PROVE Cardinality(ActivePapers(o, kind)) <= 1
        <3>1. PapersInOrder(o, kind) /\ PaperHandlers(o, kind) = {}
            BY <1>1, <2>2, NobodyAtWork DEF Settled, PapersInv
        <3>2. AllEqual(ActivePapers(o, kind)) /\ ActivePapers(o, kind) \in SUBSET Requests
            BY <3>1 DEF PapersInOrder, ActivePapers, PapersOf
        <3> QED BY <3>2, FewEqual
    <2> QED BY <2>1, <2>2
<1>5. ASSUME NEW o \in Owners PROVE FewContacts(o)
    <2> SUFFICES ASSUME Calm(o, "contacts") PROVE
            /\ Cardinality(ContactsOf(o)) <= MaxContacts
            /\ Cardinality(Primaries(o)) <= 1
            /\ \A c, e \in ContactsOf(o) :
                  contact[c].phone = contact[e].phone => c = e \/ contact[c].edited \/ contact[e].edited
        BY DEF FewContacts, Primaries
    <2>1. ContactsInOrder(o)
        BY <1>1 DEF ContactsInv
    <2>2. Primaries(o) \in SUBSET Requests
        BY DEF Primaries, ContactsOf
    <2> QED BY <2>1, <2>2, FewEqual DEF ContactsInOrder
<1>6. ASSUME NEW o \in Owners PROVE RatedOnce(o)
    <2> SUFFICES ASSUME Calm(o, "ratings"), NEW i \in Completed
                 PROVE  Cardinality(RatingsOf(o, i)) <= 1
        BY DEF RatedOnce
    <2>1. AllEqual(RatingsOf(o, i)) /\ RatingsOf(o, i) \in SUBSET Requests
        BY <1>1 DEF RatingsInv, RatingsInOrder, RatingsOf
    <2> QED BY <2>1, FewEqual
<1> QED BY <1>1, <1>2, <1>3, <1>4, <1>5, <1>6 DEF OwnersRules, RatingsInv

(* What a user keeps follows the rules that the handlers' reads are to enforce *)
(* (WalletService, the verification services, EmergencyContactsService and the *)
(* ratings of RidesService), however many users and requests there are.        *)
THEOREM OwnersRulesKept == PersonalSpec => []OwnersRules
<1>1. PersonalInv => OwnersRules
    BY RulesFollow
<1> QED BY <1>1, PersonalInvHolds, PTL

================================================================================
