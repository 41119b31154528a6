----------------------------- MODULE AccountProofs -----------------------------
(***************************************************************************)
(* Proofs about Accounts, for any number of requests of any mix of kinds    *)
(* and any addresses, roles and administrators at the start.                *)
(*                                                                         *)
(* AccInv has, besides the types, what the handlers rely on between two     *)
(* awaits: the account or role a handler acts on was read, so it exists or  *)
(* did; and nothing has the name of a request that is not over.             *)
(***************************************************************************)
EXTENDS Accounts, FiniteSetTheorems, TLAPS

(* The steps that act on the account, or on the role, that was read. *)
Acting == {"sendCode", "findToken", "saveToken", "findWallet", "ownWallet", "saveWallet", "confirm",
           "savePassword", "resetPassword", "checkEmail", "saveEmail", "saveRole", "saveStatus",
           "dropUser"}
OnRole == {"countUsers", "dropRole", "updateRole"}

Known(a) == a \in Accounts /\ \E e \in Emails : a \in held[e]

ActsOn(r) ==
    /\ at[r] \in Acting => Known(arg[r].acct)
    /\ at[r] = "checkRole" /\ op[r] # "createAdmin" => Known(arg[r].acct)
    /\ at[r] \in OnRole => arg[r].role \in Accounts

Fresh(r) ==
    at[r] # "done" =>
        /\ ~ user[r].live /\ role[r].state = "none"
        /\ \A e \in Emails : r \notin held[e]

AccInv ==
    /\ AccTypeOK
    /\ \A a \in Accounts : user[a].live => a \in held[user[a].email]
    /\ \A r \in Requests : ActsOn(r) /\ Fresh(r) /\ (op[r] = "none" => at[r] = "idle")

LEMMA Constants ==
    /\ Seeds \cap Requests = {} /\ Super \in Accounts /\ Nobody \notin Accounts
    /\ AnyEmail \in Emails /\ AnyName \in RoleNames
    /\ NoUser \in User /\ NoArg \in Arg
<1>1. Super \in Seeds /\ Nobody \notin Accounts /\ Seeds \cap Requests = {}
  BY SeedsAssumption DEF Accounts
<1>2. SeedEmail[Super] \in Emails /\ SeedRole[Super] \in RoleNames
  BY <1>1, SeedsAssumption
<1>3. AnyEmail \in Emails /\ AnyName \in RoleNames
  BY <1>2 DEF AnyEmail, AnyName
<1>4. NoUser \in User /\ NoArg \in Arg
  BY <1>1, <1>3 DEF NoUser, User, NoArg, Arg, Accounts, Apps
<1> QED BY <1>1, <1>3, <1>4 DEF Accounts

LEMMA InitInv == AccInit => AccInv
<1> SUFFICES ASSUME AccInit PROVE AccInv
  OBVIOUS
<1>1. \A s \in Seeds : Seed(s) \in User /\ Seed(s).live /\ Seed(s).email = SeedEmail[s]
  BY Constants, SeedsAssumption DEF Seed, NoUser, User, Accounts, Admins, Apps
<1>2. user \in [Accounts -> User] /\ \A r \in Requests : user[r] = NoUser
  BY <1>1, Constants DEF AccInit, Accounts
<1>3. role \in [Accounts -> RoleDoc] /\ \A r \in Requests : role[r].state = "none"
  BY Constants, SeedsAssumption DEF AccInit, Accounts, RoleDoc
<1>4. held \in [Emails -> SUBSET Accounts] /\ \A r \in Requests, e \in Emails : r \notin held[e]
  BY Constants DEF AccInit, Accounts
<1>5. AccTypeOK
  BY <1>2, <1>3, <1>4, Constants, RequestsAssumption DEF AccTypeOK, AccInit, HandlersInit
<1>6. ASSUME NEW a \in Accounts, user[a].live PROVE a \in held[user[a].email]
  <2>1. a \in Seeds
    BY <1>2, <1>6 DEF NoUser, Accounts
  <2>2. user[a] = Seed(a)
    BY <2>1 DEF AccInit, Accounts
  <2> QED BY <1>1, <2>1, <2>2, SeedsAssumption DEF AccInit
<1>7. \A r \in Requests : ActsOn(r) /\ Fresh(r) /\ (op[r] = "none" => at[r] = "idle")
  BY <1>2, <1>3, <1>4 DEF ActsOn, Fresh, AccInit, HandlersInit, Acting, OnRole, NoUser
<1> QED BY <1>5, <1>6, <1>7 DEF AccInv

--------------------------------------------------------------------------------
(* The three forms of step. *)

LEMMA BeginInv ==
    ASSUME AccInv, NEW r \in Requests, NEW kind \in AccOps, NEW step \in AccSteps, NEW given \in Arg,
           Begin(r, kind, step, given),
           step \in Acting => Known(given.acct),
           step = "checkRole" /\ kind # "createAdmin" => Known(given.acct),
           step \in OnRole => given.role \in Accounts
    PROVE  AccInv'
<1>1. /\ op' = [op EXCEPT ![r] = kind] /\ at' = [at EXCEPT ![r] = step] /\ stops' = stops
      /\ arg' = [arg EXCEPT ![r] = given] /\ op[r] = "none"
      /\ UNCHANGED <<user, role, token, wallet, held>>
  BY DEF Begin, Receive, IsNext, IsTurnOf, Received
<1>2. AccTypeOK'
  BY <1>1 DEF AccInv, AccTypeOK
<1>3. at[r] # "done"
  BY <1>1 DEF AccInv
<1>4. ASSUME NEW q \in Requests PROVE (ActsOn(q) /\ Fresh(q) /\ (op[q] = "none" => at[q] = "idle"))'
  <2>1. CASE q = r
    BY <1>1, <1>3, <2>1 DEF ActsOn, Fresh, Known, AccInv, AccTypeOK, AccOps
  <2>2. CASE q # r
    BY <1>1, <2>2 DEF ActsOn, Fresh, Known, AccInv, AccTypeOK
  <2> QED BY <2>1, <2>2
<1> QED BY <1>1, <1>2, <1>4 DEF AccInv

LEMMA GoInv ==
    ASSUME AccInv, NEW r \in Requests, NEW step \in AccSteps \cup Finished, Goto(r, step),
           UNCHANGED <<user, role, held, arg>>,
           token' \in [Requests -> Accounts \cup {Nobody}], wallet' \subseteq Accounts,
           at[r] \notin {"done", "idle"}, step # "checkRole",
           step \in Acting => Known(arg[r].acct),
           step \in OnRole => arg[r].role \in Accounts
    PROVE  AccInv'
<1>1. at' = [at EXCEPT ![r] = step] /\ UNCHANGED <<op, stops>>
  BY DEF Goto
<1>2. AccTypeOK'
  BY <1>1 DEF AccInv, AccTypeOK
<1>3. ASSUME NEW q \in Requests PROVE (ActsOn(q) /\ Fresh(q) /\ (op[q] = "none" => at[q] = "idle"))'
  <2>1. CASE q = r
    BY <1>1, <2>1 DEF ActsOn, Fresh, Known, AccInv, AccTypeOK
  <2>2. CASE q # r
    BY <1>1, <2>2 DEF ActsOn, Fresh, Known, AccInv, AccTypeOK
  <2> QED BY <2>1, <2>2
<1> QED BY <1>2, <1>3 DEF AccInv

LEMMA LookInv ==
    ASSUME AccInv, NEW r \in Requests, NEW step \in AccSteps \cup Finished, Look(r, step),
           at[r] \notin {"done", "idle"}, step # "checkRole",
           step \in Acting => Known(arg[r].acct),
           step \in OnRole => arg[r].role \in Accounts
    PROVE  AccInv'
  BY GoInv DEF Look, accVars, AccInv, AccTypeOK

(* An account that is saved is the one that was read, or is created by r. *)
LEMMA SaveInv ==
    ASSUME AccInv, NEW r \in Requests, NEW a \in Accounts, NEW new \in User,
           SaveUser(a, new), Goto(r, "done"), at[r] \notin {"done", "idle"},
           Known(a) \/ a = r
    PROVE  AccInv'
<1>1. /\ at' = [at EXCEPT ![r] = "done"] /\ UNCHANGED <<op, stops>>
      /\ user' = [user EXCEPT ![a] = new] /\ held' = [held EXCEPT ![new.email] = @ \cup {a}]
      /\ UNCHANGED <<role, token, wallet, arg>>
  BY DEF SaveUser, Goto
<1>2. new.email \in Emails
  BY DEF User
<1>3. AccTypeOK'
  BY <1>1, <1>2 DEF AccInv, AccTypeOK, Finished
<1>4. \A e \in Emails : held[e] \subseteq held'[e] /\ held'[e] \subseteq held[e] \cup {a}
  BY <1>1, <1>2 DEF AccInv, AccTypeOK
<1>5. ASSUME NEW b \in Accounts, user'[b].live PROVE b \in held'[user'[b].email]
  <2>1. CASE b = a
    BY <1>1, <1>2, <2>1 DEF AccInv, AccTypeOK
  <2>2. CASE b # a
    <3>1. user'[b] = user[b] /\ user[b].email \in Emails
      BY <1>1, <2>2 DEF AccInv, AccTypeOK, User
    <3> QED BY <1>4, <1>5, <3>1 DEF AccInv
  <2> QED BY <2>1, <2>2
<1>6. ASSUME NEW q \in Requests PROVE (ActsOn(q) /\ Fresh(q) /\ (op[q] = "none" => at[q] = "idle"))'
  <2>1. CASE q = r
    BY <1>1, <2>1 DEF ActsOn, Fresh, Known, AccInv, AccTypeOK, Acting, OnRole
  <2>2. CASE q # r
    <3>1. /\ at'[q] = at[q] /\ op'[q] = op[q] /\ arg'[q] = arg[q] /\ role'[q] = role[q]
          /\ ActsOn(q) /\ Fresh(q) /\ (op[q] = "none" => at[q] = "idle")
      BY <1>1, <2>2 DEF AccInv, AccTypeOK
    <3>2. at[q] # "done" => q # a
      BY <3>1, <2>2 DEF Fresh, Known
    <3>3. Fresh(q)'
      BY <1>1, <1>4, <3>1, <3>2 DEF Fresh, AccInv, AccTypeOK, Accounts
    <3>4. ActsOn(q)'
      BY <1>4, <3>1 DEF ActsOn, Known
    <3> QED BY <3>1, <3>3, <3>4
  <2> QED BY <2>1, <2>2
<1> QED BY <1>3, <1>5, <1>6 DEF AccInv

--------------------------------------------------------------------------------
(* A request has a step to take, and the facts about the account it acts on. *)
LEMMA AtFacts ==
    ASSUME AccInv, NEW r \in Requests
    PROVE  /\ arg[r] \in Arg /\ op[r] \in AccOps \cup {"none"} /\ r \in Accounts
           /\ at[r] \in Acting => Known(arg[r].acct) /\ user[arg[r].acct] \in User
           /\ at[r] = "checkRole" /\ op[r] # "createAdmin" => Known(arg[r].acct)
           /\ at[r] \in OnRole => arg[r].role \in Accounts
           /\ \A a \in Accounts : user[a] \in User /\ (user[a].live => Known(a))
           /\ \A e \in Emails, a \in Accounts : Has(a, e) => Known(a)
  BY DEF AccInv, AccTypeOK, ActsOn, Known, Accounts, User, Has

LEMMA AddressInv ==
    ASSUME AccInv, NEW r \in Requests, NEW e \in Emails,
           PassengerAuthRoutes(r, e) \/ DriverAuthRoutes(r, e) \/ AdminAuthRoutes(r, e)
    PROVE  AccInv'
<1>1. ASSUME NEW kind \in {"register", "google"}, NEW app \in Apps, Register(r, kind, app, e)
      PROVE  AccInv'
  <2>1. [NoArg EXCEPT !.email = e, !.type = app] \in Arg
    BY Constants DEF NoArg, Arg
  <2> QED BY <1>1, <2>1, BeginInv DEF Register, AccOps, AccSteps, Acting, OnRole
<1>2. ASSUME NEW kind \in {"login", "adminLogin"}, NEW a \in Accounts, Has(a, e), LoginTo(r, kind, a)
      PROVE  AccInv'
  <2>1. Known(a) /\ user[a] \in User
    BY <1>2, AtFacts
  <2>2. [NoArg EXCEPT !.acct = a, !.type = user[a].type] \in Arg
    BY <2>1, Constants DEF NoArg, Arg, User
  <2>3. LoginStep(a) \in {"findToken", "sendCode"}
    BY DEF LoginStep
  <2> DEFINE given == [NoArg EXCEPT !.acct = a, !.type = user[a].type]
  <2>4. given.acct = a /\ given \in Arg /\ Begin(r, kind, LoginStep(a), given)
    BY <1>2, <2>2 DEF NoArg, LoginTo
  <2> HIDE DEF given
  <2> QED BY <2>1, <2>3, <2>4, BeginInv DEF AccOps, AccSteps, Acting, OnRole
<1>3. [NoArg EXCEPT !.email = e] \in Arg
  BY Constants DEF NoArg, Arg
<1>4. ASSUME ResendOtp(r, e) PROVE AccInv'
  BY <1>3, <1>4, BeginInv DEF ResendOtp, AccOps, AccSteps, Acting, OnRole
<1>5. ASSUME NEW types, ForgotPassword(r, types, e) PROVE AccInv'
  BY <1>3, <1>5, BeginInv DEF ForgotPassword, AccOps, AccSteps, Acting, OnRole
<1>6. CASE \/ RegisterPassenger(r, e) \/ RegisterDriver(r, e)
           \/ GooglePassenger(r, e) \/ GoogleDriver(r, e)
  BY <1>1, <1>6 DEF RegisterPassenger, RegisterDriver, GooglePassenger, GoogleDriver, Apps
<1>7. CASE \/ LoginPassenger(r, e) \/ LoginDriver(r, e) \/ SignInPassenger(r, e)
           \/ SignInDriver(r, e) \/ LoginAdmin(r, e)
  BY <1>2, <1>7 DEF LoginPassenger, LoginDriver, SignInPassenger, SignInDriver, LoginAdmin, Login
<1>8. CASE ForgotUser(r, e) \/ ForgotAdmin(r, e)
  BY <1>5, <1>8 DEF ForgotUser, ForgotAdmin
<1> QED BY <1>4, <1>6, <1>7, <1>8 DEF PassengerAuthRoutes, DriverAuthRoutes, AdminAuthRoutes

LEMMA CodeInv ==
    ASSUME AccInv, NEW r \in Requests, NEW c \in Requests, CodeRoutes(r, c)
    PROVE  AccInv'
<1>1. ASSUME NEW app, VerifyUserOtp(r, app, c) PROVE AccInv'
  <2>1. PICK a \in Accounts :
          /\ Has(a, arg[c].email)
          /\ Begin(r, "verify", "findToken",
                   [NoArg EXCEPT !.acct = a, !.email = arg[c].email, !.type = arg[c].type, !.code = c])
    BY <1>1 DEF VerifyUserOtp
  <2> DEFINE given == [NoArg EXCEPT !.acct = a, !.email = arg[c].email, !.type = arg[c].type, !.code = c]
  <2>2. given \in Arg /\ given.acct = a
    BY Constants, AtFacts DEF NoArg, Arg
  <2>3. Known(a)
    BY <2>1, AtFacts DEF Arg
  <2> HIDE DEF given
  <2>4. Begin(r, "verify", "findToken", given)
    BY <2>1 DEF given
  <2> QED BY <2>2, <2>3, <2>4, BeginInv DEF AccOps, AccSteps, OnRole
<1>2. ASSUME ResetPassword(r, c) PROVE AccInv'
  <2>1. PICK a \in Accounts :
          Begin(r, "reset", "resetPassword",
                [NoArg EXCEPT !.acct = a, !.email = user[a].email, !.code = c]) /\ user[a].live
    BY <1>2 DEF ResetPassword
  <2> DEFINE given == [NoArg EXCEPT !.acct = a, !.email = user[a].email, !.code = c]
  <2>2. given \in Arg /\ given.acct = a
    BY Constants, AtFacts DEF NoArg, Arg, User
  <2>3. Known(a)
    BY <2>1, AtFacts
  <2> HIDE DEF given
  <2>4. Begin(r, "reset", "resetPassword", given)
    BY <2>1 DEF given
  <2> QED BY <2>2, <2>3, <2>4, BeginInv DEF AccOps, AccSteps, OnRole
<1> QED BY <1>1, <1>2 DEF CodeRoutes, VerifyPassenger, VerifyDriver

LEMMA AccountInv ==
    ASSUME AccInv, NEW r \in Requests, NEW a \in Accounts,
           \/ ProfileRoutes(r, a) \/ StatusRoutes(r, a) \/ UpdateAdminPassword(r, a) \/ DeleteUser(r, a)
           \/ \E e \in Emails : UpdateAdminEmail(r, a, e)
           \/ \E i \in Accounts : UpdateAdminRole(r, a, i)
           \/ \E active \in BOOLEAN : UpdateAdminStatus(r, a, active)
    PROVE  AccInv'
<1>1. ASSUME user[a].live, NEW kind \in AccOps, NEW step \in AccSteps \ OnRole, NEW given \in Arg,
             Begin(r, kind, step, given), given.acct = a
      PROVE  AccInv'
  BY <1>1, AtFacts, BeginInv
<1>2. [NoArg EXCEPT !.acct = a] \in Arg /\ [NoArg EXCEPT !.acct = a].acct = a
  BY Constants DEF NoArg, Arg
<1>3. CASE \/ ChangePassword(r, a) \/ ChangeAdminPassword(r, a) \/ UpdateAdminPassword(r, a)
           \/ DeleteUser(r, a)
  BY <1>1, <1>2, <1>3 DEF ChangePassword, ChangeAdminPassword, UpdateAdminPassword, DeleteUser,
                          ChangePasswordOf, SignedIn, AccOps, AccSteps, OnRole
<1>4. ASSUME NEW e \in Emails, UpdateProfile(r, a, e) \/ UpdateAdminEmail(r, a, e) PROVE AccInv'
  <2>1. [NoArg EXCEPT !.acct = a, !.email = e] \in Arg /\ [NoArg EXCEPT !.acct = a, !.email = e].acct = a
    BY Constants DEF NoArg, Arg
  <2> QED BY <1>1, <1>4, <2>1 DEF UpdateProfile, UpdateAdminEmail, SignedIn, AccOps, AccSteps, OnRole
<1>5. ASSUME NEW i \in Accounts, UpdateAdminRole(r, a, i) PROVE AccInv'
  <2>1. [NoArg EXCEPT !.acct = a, !.role = i] \in Arg /\ [NoArg EXCEPT !.acct = a, !.role = i].acct = a
    BY Constants DEF NoArg, Arg
  <2> QED BY <1>1, <1>5, <2>1 DEF UpdateAdminRole, AccOps, AccSteps, OnRole
<1>6. ASSUME NEW active \in BOOLEAN, NEW type, UpdateStatus(r, type, a, active) PROVE AccInv'
  <2>1. /\ [NoArg EXCEPT !.acct = a, !.flag = active] \in Arg
        /\ [NoArg EXCEPT !.acct = a, !.flag = active].acct = a
    BY Constants DEF NoArg, Arg
  <2> QED BY <1>1, <1>6, <2>1 DEF UpdateStatus, AccOps, AccSteps, OnRole
<1> QED BY <1>3, <1>4, <1>5, <1>6
        DEF ProfileRoutes, StatusRoutes, UpdateAdminStatus, UpdatePassengerStatus, UpdateDriverAccount

LEMMA RoleInv ==
    ASSUME AccInv, NEW r \in Requests,
           RoleRoutes(r) \/ \E e \in Emails, i \in Accounts : CreateAdminUser(r, e, i)
    PROVE  AccInv'
<1>1. ASSUME NEW n \in RoleNames, CreateRole(r, n) PROVE AccInv'
  <2>1. [NoArg EXCEPT !.name = n] \in Arg
    BY Constants DEF NoArg, Arg
  <2> QED BY <1>1, <2>1, BeginInv DEF CreateRole, AccOps, AccSteps, Acting, OnRole
<1>2. ASSUME NEW i \in Accounts, RemoveRole(r, i) PROVE AccInv'
  <2> DEFINE given == [NoArg EXCEPT !.role = i]
  <2>1. given \in Arg /\ given.role = i /\ Begin(r, "removeRole", "countUsers", given)
    BY <1>2, Constants DEF NoArg, Arg, RemoveRole
  <2> HIDE DEF given
  <2> QED BY <2>1, BeginInv DEF AccOps, AccSteps, Acting
<1>3. ASSUME NEW i \in Accounts, NEW e \in Emails, CreateAdminUser(r, e, i) PROVE AccInv'
  <2> DEFINE given == [NoArg EXCEPT !.email = e, !.role = i]
  <2>1. given \in Arg /\ Begin(r, "createAdmin", "checkRole", given)
    BY <1>3, Constants DEF NoArg, Arg, CreateAdminUser
  <2> HIDE DEF given
  <2> QED BY <2>1, BeginInv DEF AccOps, AccSteps, Acting, OnRole
<1>4. ASSUME NEW i \in Accounts, NEW n \in RoleNames, NEW active \in BOOLEAN, UpdateRole(r, i, n, active)
      PROVE  AccInv'
  <2> DEFINE given == [NoArg EXCEPT !.role = i, !.name = n, !.flag = active]
  <2>1. given \in Arg /\ given.role = i /\ Begin(r, "updateRole", "updateRole", given)
    BY <1>4, Constants DEF NoArg, Arg, UpdateRole
  <2> HIDE DEF given
  <2> QED BY <2>1, BeginInv DEF AccOps, AccSteps, Acting
<1> QED BY <1>1, <1>2, <1>3, <1>4 DEF RoleRoutes

LEMMA ReceiveInv == ASSUME AccInv, NEW r \in Requests, AccReceive(r) PROVE AccInv'
<1>1. CASE UserRoutes(r)
  BY <1>1, AccountInv, RoleInv DEF UserRoutes
<1>2. CASE \E a \in Accounts : ProfileRoutes(r, a) \/ StatusRoutes(r, a)
  BY <1>2, AccountInv
<1> QED BY <1>1, <1>2, AddressInv, CodeInv, RoleInv DEF AccReceive

(* A handler reads and goes on, or ends. *)
LEMMA LookStepInv ==
    ASSUME AccInv, NEW r \in Requests,
           \/ FindToken(r) \/ FindAdminWallet(r) \/ FindOwnWallet(r) \/ CheckEmail(r)
           \/ CheckRole(r) \/ CountUsers(r)
    PROVE  AccInv'
<1>1. AfterToken(r) \in {"confirm", "findWallet", "done", "ownWallet", "failed"}
  BY DEF AfterToken
<1>2. CASE FindToken(r)
  BY <1>1, <1>2, AtFacts, LookInv DEF FindToken, At, AccSteps, Acting, OnRole, Finished
<1>3. CASE FindAdminWallet(r) \/ FindOwnWallet(r) \/ CheckEmail(r)
  BY <1>3, AtFacts, LookInv
     DEF FindAdminWallet, FindOwnWallet, CheckEmail, At, AccSteps, Acting, OnRole, Finished
<1>4. CASE CheckRole(r)
  <2>1. PICK step \in {"failed", "createAdmin", "saveRole"} :
           Look(r, step) /\ (step = "saveRole" => op[r] # "createAdmin")
    BY <1>4 DEF CheckRole
  <2> QED BY <1>4, <2>1, AtFacts, LookInv DEF CheckRole, At, AccSteps, Acting, OnRole, Finished
<1>5. CASE CountUsers(r)
  BY <1>5, AtFacts, LookInv DEF CountUsers, At, AccSteps, Acting, OnRole, Finished
<1> QED BY <1>2, <1>3, <1>4, <1>5

(* It ends for want of the account, or of the role. *)
LEMMA FailInv ==
    ASSUME AccInv, NEW r \in Requests, Look(r, "failed"), at[r] \notin {"done", "idle"}
    PROVE  AccInv'
  BY LookInv DEF Finished, Acting, OnRole

LEMMA UserWith ==
    ASSUME NEW u \in User, NEW r \in Requests
    PROVE  /\ [u EXCEPT !.confirmed = TRUE] \in User
           /\ [u EXCEPT !.password = r, !.reset = Nobody] \in User
           /\ [u EXCEPT !.code = r] \in User /\ [u EXCEPT !.password = r] \in User
           /\ \A i \in Accounts \cup {Nobody} : [u EXCEPT !.role = i] \in User
           /\ \A b \in BOOLEAN : [u EXCEPT !.active = b] \in User
           /\ [u EXCEPT !.live = FALSE] \in User
           /\ \A e \in Emails, b \in BOOLEAN : [u EXCEPT !.email = e, !.confirmed = b] \in User
<1>1. r \in Accounts
  BY DEF Accounts
<1>2. [u EXCEPT !.confirmed = TRUE] \in User
  BY DEF User
<1>3. [u EXCEPT !.password = r, !.reset = Nobody] \in User
  BY <1>1 DEF User
<1>4. [u EXCEPT !.code = r] \in User /\ [u EXCEPT !.password = r] \in User
  BY <1>1 DEF User
<1>5. ASSUME NEW i \in Accounts \cup {Nobody} PROVE [u EXCEPT !.role = i] \in User
  BY DEF User
<1>6. ASSUME NEW b \in BOOLEAN PROVE [u EXCEPT !.active = b] \in User
  BY DEF User
<1>7. [u EXCEPT !.live = FALSE] \in User
  BY DEF User
<1>8. ASSUME NEW e \in Emails, NEW b \in BOOLEAN PROVE [u EXCEPT !.email = e, !.confirmed = b] \in User
  BY DEF User
<1> QED BY <1>2, <1>3, <1>4, <1>5, <1>6, <1>7, <1>8

(* The accounts that the steps save. *)
LEMMA CreatedUsers ==
    ASSUME AccInv, NEW r \in Requests, CreateUser(r) \/ CreateAdmin(r), ~ Look(r, "failed")
    PROVE  \E new \in User :
              /\ SaveUser(r, new) /\ Goto(r, "done") /\ at[r] \in {"create", "createAdmin"}
              /\ new.live /\ new.email = arg[r].email /\ ~ EmailTaken(arg[r].email)
              /\ CreateUser(r) => new = NewUser(r)
              /\ CreateAdmin(r) => new.type = "ADMIN" /\ new.confirmed /\ new.password = r
                                   /\ new.code = Nobody /\ new.reset = Nobody
<1>1. CASE CreateUser(r)
  <2> DEFINE byGoogle == op[r] = "google"  code == IF op[r] = "register" THEN r ELSE Nobody
  <2>1. byGoogle \in BOOLEAN /\ code \in Requests \cup {Nobody}
    OBVIOUS
  <2>2. NewUser(r) = [NoUser EXCEPT !.live = TRUE, !.email = arg[r].email, !.type = arg[r].type,
                                    !.password = r, !.google = byGoogle, !.confirmed = byGoogle,
                                    !.code = code]
    BY DEF NewUser
  <2>3. arg[r].email \in Emails /\ arg[r].type \in Apps \cup Admins /\ r \in Accounts
    BY AtFacts DEF Arg
  <2> HIDE DEF byGoogle, code
  <2>4. NewUser(r) \in User /\ NewUser(r).live /\ NewUser(r).email = arg[r].email
    BY <2>1, <2>2, <2>3, Constants DEF NoUser, User
  <2>5. ~ CreateAdmin(r)
    BY <1>1 DEF CreateUser, CreateAdmin, At
  <2> QED BY <1>1, <2>4, <2>5 DEF CreateUser, At
<1>2. CASE CreateAdmin(r)
  <2> DEFINE new == [NoUser EXCEPT !.live = TRUE, !.email = arg[r].email, !.type = "ADMIN",
                                   !.password = r, !.confirmed = TRUE, !.role = arg[r].role]
  <2>1. /\ new \in User /\ new.live /\ new.email = arg[r].email /\ new.type = "ADMIN" /\ new.confirmed
        /\ new.password = r /\ new.code = Nobody /\ new.reset = Nobody
    BY Constants, AtFacts DEF NoUser, User, Arg, Admins
  <2>2. SaveUser(r, new) /\ Goto(r, "done") /\ at[r] = "createAdmin" /\ ~ EmailTaken(arg[r].email)
    BY <1>2 DEF CreateAdmin, At
  <2>3. ~ CreateUser(r)
    BY <1>2 DEF CreateUser, CreateAdmin, At
  <2> HIDE DEF new
  <2> QED BY <2>1, <2>2, <2>3
<1> QED BY <1>1, <1>2

(* The account is found by its address, or is the one that was read. *)
LEMMA FoundUsers ==
    ASSUME AccInv, NEW r \in Requests, Confirm(r) \/ WriteReset(r), ~ Look(r, "failed")
    PROVE  \E a \in Accounts, new \in User :
              /\ SaveUser(a, new) /\ Goto(r, "done") /\ at[r] \in {"confirm", "resetPassword"}
              /\ Has(a, arg[r].email) /\ new.live /\ new.email = user[a].email
              /\ Confirm(r) => new = [user[a] EXCEPT !.confirmed = TRUE]
              /\ WriteReset(r) => new = [user[a] EXCEPT !.password = r, !.reset = Nobody]
<1>1. CASE Confirm(r)
  <2>1. PICK a \in Accounts :
           Has(a, arg[r].email) /\ Goto(r, "done") /\ SaveUser(a, [user[a] EXCEPT !.confirmed = TRUE])
    BY <1>1 DEF Confirm, NoneByEmail
  <2> DEFINE new == [user[a] EXCEPT !.confirmed = TRUE]
  <2>2. user[a] \in User
    BY AtFacts
  <2>3. new \in User /\ new.live = user[a].live /\ new.email = user[a].email
    <3>1. new \in User
      BY <2>2, UserWith
    <3>2. new.live = user[a].live /\ new.email = user[a].email
      BY <2>2 DEF User
    <3> QED BY <3>1, <3>2
  <2>4. at[r] = "confirm" /\ ~ WriteReset(r)
    BY <1>1 DEF Confirm, WriteReset, At
  <2>5. SaveUser(a, new) /\ new = [user[a] EXCEPT !.confirmed = TRUE]
    BY <2>1
  <2> HIDE DEF new
  <2> QED BY <2>1, <2>3, <2>4, <2>5 DEF Has
<1>2. CASE WriteReset(r)
  <2>1. PICK a \in Accounts :
           /\ Has(a, arg[r].email) /\ Goto(r, "done")
           /\ SaveUser(a, [user[a] EXCEPT !.password = r, !.reset = Nobody])
    BY <1>2 DEF WriteReset, NoneByEmail
  <2> DEFINE new == [user[a] EXCEPT !.password = r, !.reset = Nobody]
  <2>2. user[a] \in User
    BY AtFacts
  <2>3. new \in User /\ new.live = user[a].live /\ new.email = user[a].email
    <3>1. new \in User
      BY <2>2, UserWith
    <3>2. new.live = user[a].live /\ new.email = user[a].email
      BY <2>2 DEF User
    <3> QED BY <3>1, <3>2
  <2>4. at[r] = "resetPassword" /\ ~ Confirm(r)
    BY <1>2 DEF Confirm, WriteReset, At
  <2>5. SaveUser(a, new) /\ new = [user[a] EXCEPT !.password = r, !.reset = Nobody]
    BY <2>1
  <2> HIDE DEF new
  <2> QED BY <2>1, <2>3, <2>4, <2>5 DEF Has
<1> QED BY <1>1, <1>2

LEMMA ReadUsers ==
    ASSUME AccInv, NEW r \in Requests, ~ Look(r, "failed"),
           SavePassword(r) \/ SaveRole(r) \/ SaveStatus(r)
    PROVE  \E a \in Accounts, new \in User :
              /\ a = arg[r].acct /\ Known(a) /\ SaveUser(a, new) /\ Goto(r, "done")
              /\ at[r] \in {"savePassword", "saveRole", "saveStatus"}
              /\ user[a].live /\ new.live /\ new.email = user[a].email
              /\ new.type = user[a].type /\ new.confirmed = user[a].confirmed /\ new.reset = user[a].reset
              /\ new.code = user[a].code
              /\ new.password = user[a].password \/ (SavePassword(r) /\ new.password = r)
<1> DEFINE a == arg[r].acct
           Written(new) == \/ SavePassword(r) /\ new = [user[a] EXCEPT !.password = r]
                           \/ new = [user[a] EXCEPT !.role = arg[r].role]
                           \/ new = [user[a] EXCEPT !.active = arg[r].flag]
<1>1. PICK new : /\ Written(new) /\ SaveUser(a, new) /\ Goto(r, "done") /\ user[a].live
                 /\ at[r] \in {"savePassword", "saveRole", "saveStatus"}
  BY DEF SavePassword, SaveRole, SaveStatus, NoneById, At
<1>2. Known(a) /\ a \in Accounts
  BY <1>1, AtFacts DEF Acting, Known
<1>3. arg[r].role \in Accounts \cup {Nobody} /\ arg[r].flag \in BOOLEAN /\ user[a] \in User
  BY <1>2, AtFacts DEF Arg
<1>4. new \in User
  BY ZenonT(60), <1>1, <1>3, UserWith
<1>5. /\ new.live = user[a].live /\ new.email = user[a].email /\ new.type = user[a].type
      /\ new.confirmed = user[a].confirmed /\ new.reset = user[a].reset
      /\ new.code = user[a].code
      /\ new.password = user[a].password \/ (SavePassword(r) /\ new.password = r)
  BY <1>1, <1>3 DEF User
<1> HIDE DEF a
<1> QED BY <1>1, <1>2, <1>4, <1>5 DEF a

LEMMA ReaddressedUsers ==
    ASSUME AccInv, NEW r \in Requests, SaveEmail(r), ~ Look(r, "failed")
    PROVE  \E a \in Accounts, new \in User :
              /\ a = arg[r].acct /\ Known(a) /\ SaveUser(a, new) /\ Goto(r, "done")
              /\ at[r] = "saveEmail" /\ user[a].live
              /\ user[a].email = arg[r].email \/ ~ EmailTaken(arg[r].email)
              /\ new.live /\ new.email = arg[r].email /\ new.type = user[a].type
              /\ new.code = user[a].code /\ new.reset = user[a].reset /\ new.password = user[a].password
              /\ new.confirmed <=> user[a].confirmed /\ op[r] # "updateProfile"
<1> DEFINE a == arg[r].acct
           b == user[a].confirmed /\ op[r] # "updateProfile"
           new == [user[a] EXCEPT !.email = arg[r].email, !.confirmed = b]
<1>1. Known(a) /\ a \in Accounts /\ at[r] = "saveEmail"
  BY AtFacts DEF SaveEmail, At, Acting, Known
<1>2. b \in BOOLEAN /\ user[a] \in User /\ arg[r].email \in Emails
  BY <1>1, AtFacts DEF User, Arg
<1>3. new = [user[a] EXCEPT !.email = arg[r].email, !.confirmed = @ /\ op[r] # "updateProfile"]
  BY <1>2 DEF User
<1>4. /\ SaveUser(a, new) /\ Goto(r, "done") /\ user[a].live
      /\ user[a].email = arg[r].email \/ ~ EmailTaken(arg[r].email)
  BY <1>3 DEF SaveEmail, EmailTaken, Has
<1>5. new \in User
  BY <1>2, UserWith
<1>6. /\ new.live = user[a].live /\ new.email = arg[r].email /\ new.type = user[a].type
      /\ new.code = user[a].code /\ new.reset = user[a].reset /\ new.password = user[a].password
      /\ new.confirmed = b
  BY <1>2 DEF User
<1>7. b <=> user[a].confirmed /\ op[r] # "updateProfile"
  OBVIOUS
<1> HIDE DEF a, b, new
<1>8. a = arg[r].acct
  BY DEF a
<1> QED BY <1>1, <1>4, <1>5, <1>6, <1>7, <1>8

LEMMA DroppedUsers ==
    ASSUME AccInv, NEW r \in Requests, DropUser(r), ~ Look(r, "failed")
    PROVE  \E a \in Accounts, new \in User :
              /\ a = arg[r].acct /\ Known(a) /\ SaveUser(a, new) /\ Goto(r, "done")
              /\ at[r] = "dropUser" /\ user[a].live /\ new = [user[a] EXCEPT !.live = FALSE]
<1>1. arg[r].acct \in Accounts /\ Known(arg[r].acct) /\ at[r] = "dropUser"
  BY AtFacts DEF DropUser, At, Acting, Known
<1>2. [user[arg[r].acct] EXCEPT !.live = FALSE] \in User
  BY <1>1, AtFacts, UserWith
<1> QED BY <1>1, <1>2 DEF DropUser, NoneById

LEMMA SaveStepInv ==
    ASSUME AccInv, NEW r \in Requests,
           \/ CreateUser(r) \/ CreateAdmin(r) \/ Confirm(r) \/ WriteReset(r)
           \/ SavePassword(r) \/ SaveEmail(r) \/ SaveRole(r) \/ SaveStatus(r) \/ DropUser(r)
    PROVE  AccInv'
<1>1. SUFFICES ASSUME ~ Look(r, "failed") PROVE AccInv'
  BY FailInv DEF CreateUser, CreateAdmin, Confirm, WriteReset, SavePassword, SaveEmail,
                 SaveRole, SaveStatus, DropUser, At
<1>2. CASE CreateUser(r) \/ CreateAdmin(r)
  BY <1>1, <1>2, CreatedUsers, AtFacts, SaveInv
<1>3. CASE Confirm(r) \/ WriteReset(r)
  <2>1. PICK a \in Accounts, new \in User :
           /\ SaveUser(a, new) /\ Goto(r, "done") /\ at[r] \in {"confirm", "resetPassword"}
           /\ Has(a, arg[r].email)
    BY <1>1, <1>3, FoundUsers
  <2>2. Known(a)
    BY <2>1, AtFacts DEF Arg
  <2> QED BY <2>1, <2>2, SaveInv
<1>4. CASE SavePassword(r) \/ SaveRole(r) \/ SaveStatus(r)
  BY <1>1, <1>4, ReadUsers, SaveInv
<1>5. CASE SaveEmail(r)
  BY <1>1, <1>5, ReaddressedUsers, SaveInv
<1>6. CASE DropUser(r)
  BY <1>1, <1>6, DroppedUsers, SaveInv
<1> QED BY <1>2, <1>3, <1>4, <1>5, <1>6

(* A code is stored in the account that was read, or that has the address. *)
LEMMA CodeUsers ==
    ASSUME AccInv, NEW r \in Requests, SendCode(r) \/ SaveCode(r) \/ SaveReset(r), ~ Look(r, "failed")
    PROVE  \E a \in Accounts :
              /\ user[a].live /\ Known(a) /\ Goto(r, "done") /\ UNCHANGED <<role, token, wallet, held>>
              /\ at[r] \in {"sendCode", "saveCode", "saveReset"}
              /\ \/ /\ SendCode(r) \/ SaveCode(r)
                    /\ user' = [user EXCEPT ![a].code = r]
                    /\ arg' = [arg EXCEPT ![r].acct = a, ![r].email = user[a].email,
                                          ![r].type = user[a].type]
                 \/ /\ SaveReset(r)
                    /\ user' = [user EXCEPT ![a].reset = r]
                    /\ arg' = [arg EXCEPT ![r].acct = a]
<1>1. CASE SendCode(r)
  <2>1. at[r] = "sendCode" /\ user[arg[r].acct].live /\ StoreCode(r, arg[r].acct)
    BY <1>1 DEF SendCode, NoneById, At
  <2>2. Known(arg[r].acct) /\ arg[r].acct \in Accounts
    BY <2>1, AtFacts DEF Acting, Known
  <2> QED BY <1>1, <2>1, <2>2 DEF StoreCode
<1>2. CASE SaveCode(r)
  <2>1. PICK a \in Accounts : at[r] = "saveCode" /\ Has(a, arg[r].email) /\ StoreCode(r, a)
    BY <1>2 DEF SaveCode, NoneByEmail, At
  <2>2. Known(a) /\ user[a].live
    BY <2>1, AtFacts DEF Has
  <2> QED BY <1>2, <2>1, <2>2 DEF StoreCode
<1>3. CASE SaveReset(r)
  <2>1. PICK a \in Accounts :
           /\ at[r] = "saveReset" /\ Has(a, arg[r].email) /\ user' = [user EXCEPT ![a].reset = r]
           /\ arg' = [arg EXCEPT ![r].acct = a] /\ Goto(r, "done")
           /\ UNCHANGED <<role, token, wallet, held>>
    BY <1>3 DEF SaveReset, NoneByEmail, At
  <2>2. Known(a) /\ user[a].live
    BY <2>1, AtFacts DEF Has
  <2> QED BY <1>3, <2>1, <2>2
<1> QED BY <1>1, <1>2, <1>3

LEMMA CodeStepInv ==
    ASSUME AccInv, NEW r \in Requests, SendCode(r) \/ SaveCode(r) \/ SaveReset(r)
    PROVE  AccInv'
<1>1. SUFFICES ASSUME ~ Look(r, "failed") PROVE AccInv'
  BY FailInv DEF SendCode, SaveCode, SaveReset, At
<1> DEFINE Saves(a, new, given) ==
         /\ at[r] \notin {"done", "idle"} /\ at' = [at EXCEPT ![r] = "done"]
         /\ user' = [user EXCEPT ![a] = new] /\ arg' = [arg EXCEPT ![r] = given]
         /\ new.live = user[a].live /\ new.email = user[a].email
         /\ UNCHANGED <<op, stops, role, token, wallet, held>>
<1>2. PICK a \in Accounts, new \in User, given \in Arg : Saves(a, new, given)
  <2> DEFINE Addressed(a) ==
           arg' = [arg EXCEPT ![r].acct = a, ![r].email = user[a].email, ![r].type = user[a].type]
  <2>1. PICK a \in Accounts :
           /\ Goto(r, "done") /\ UNCHANGED <<role, token, wallet, held>>
           /\ at[r] \in {"sendCode", "saveCode", "saveReset"}
           /\ \/ user' = [user EXCEPT ![a].code = r] /\ Addressed(a)
              \/ user' = [user EXCEPT ![a].reset = r] /\ arg' = [arg EXCEPT ![r].acct = a]
    <3>1. PICK a \in Accounts :
           /\ Goto(r, "done") /\ UNCHANGED <<role, token, wallet, held>>
           /\ at[r] \in {"sendCode", "saveCode", "saveReset"}
           /\ \/ /\ user' = [user EXCEPT ![a].code = r]
                 /\ arg' = [arg EXCEPT ![r].acct = a, ![r].email = user[a].email,
                                       ![r].type = user[a].type]
              \/ /\ user' = [user EXCEPT ![a].reset = r]
                 /\ arg' = [arg EXCEPT ![r].acct = a]
      BY <1>1, CodeUsers, ZenonT(60)
    <3> QED BY <3>1, Zenon
  <2>2. user[a] \in User /\ arg[r] \in Arg
    BY AtFacts
  <2>3. /\ [user[a] EXCEPT !.code = r] \in User /\ [user[a] EXCEPT !.reset = r] \in User
        /\ [arg[r] EXCEPT !.acct = a] \in Arg
        /\ [arg[r] EXCEPT !.acct = a, !.email = user[a].email, !.type = user[a].type] \in Arg
    BY <2>2 DEF User, Arg
  <2>4. ASSUME NEW new \in User, NEW given \in Arg, new.live = user[a].live, new.email = user[a].email,
               user' = [user EXCEPT ![a] = new], arg' = [arg EXCEPT ![r] = given]
        PROVE  Saves(a, new, given)
    BY <2>1, <2>4 DEF Goto
  <2>5. CASE user' = [user EXCEPT ![a].code = r] /\ Addressed(a)
    <3> DEFINE new == [user[a] EXCEPT !.code = r]
               given == [arg[r] EXCEPT !.acct = a, !.email = user[a].email, !.type = user[a].type]
    <3>1. new \in User /\ given \in Arg /\ new.live = user[a].live /\ new.email = user[a].email
      BY <2>2, <2>3 DEF User
    <3>2. user' = [user EXCEPT ![a] = new] /\ arg' = [arg EXCEPT ![r] = given]
      BY <2>5 DEF AccInv, AccTypeOK, Arg
    <3> HIDE DEF new, given
    <3> QED BY <2>4, <3>1, <3>2
  <2>6. CASE user' = [user EXCEPT ![a].reset = r] /\ arg' = [arg EXCEPT ![r].acct = a]
    <3> DEFINE new == [user[a] EXCEPT !.reset = r]  given == [arg[r] EXCEPT !.acct = a]
    <3>1. new \in User /\ given \in Arg /\ new.live = user[a].live /\ new.email = user[a].email
      BY <2>2, <2>3 DEF User
    <3>2. user' = [user EXCEPT ![a] = new] /\ arg' = [arg EXCEPT ![r] = given]
      BY <2>6 DEF AccInv, AccTypeOK
    <3> HIDE DEF new, given
    <3> QED BY <2>4, <3>1, <3>2
  <2> QED BY <2>1, <2>5, <2>6
<1>3. AccTypeOK'
  BY <1>2 DEF AccInv, AccTypeOK, Finished
<1>4. ASSUME NEW b \in Accounts PROVE user'[b].live = user[b].live /\ user'[b].email = user[b].email
  BY <1>2 DEF AccInv, AccTypeOK
<1>5. ASSUME NEW q \in Requests PROVE (ActsOn(q) /\ Fresh(q) /\ (op[q] = "none" => at[q] = "idle"))'
  <2>0. q \in Accounts
    BY DEF Accounts
  <2>1. CASE q = r
    BY <1>2, <2>1 DEF ActsOn, Fresh, AccInv, AccTypeOK, Acting, OnRole
  <2>2. CASE q # r
    <3>1. /\ at'[q] = at[q] /\ op'[q] = op[q] /\ arg'[q] = arg[q] /\ role'[q] = role[q]
          /\ held' = held /\ user'[q].live = user[q].live
          /\ ActsOn(q) /\ Fresh(q) /\ (op[q] = "none" => at[q] = "idle")
      BY <1>2, <1>4, <2>0, <2>2 DEF AccInv, AccTypeOK
    <3> QED BY <3>1 DEF ActsOn, Fresh, Known
  <2> QED BY <2>1, <2>2
<1> QED BY <1>2, <1>3, <1>4, <1>5 DEF AccInv

LEMMA RoleStepInv ==
    ASSUME AccInv, NEW r \in Requests, SaveNewRole(r) \/ SaveRoleUpdate(r) \/ DropRole(r)
    PROVE  AccInv'
<1>1. SUFFICES ASSUME ~ Look(r, "failed") PROVE AccInv'
  BY FailInv DEF SaveNewRole, SaveRoleUpdate, DropRole, At
<1>2. PICK i \in Accounts, new \in RoleDoc :
         /\ role' = [role EXCEPT ![i] = new] /\ (i = r \/ RoleExists(i))
         /\ at' = [at EXCEPT ![r] = "done"] /\ at[r] \notin {"done", "idle"}
         /\ UNCHANGED <<user, token, wallet, held, arg, op, stops>>
  <2>1. CASE SaveNewRole(r)
    <3>1. [name |-> arg[r].name, state |-> "active"] \in RoleDoc /\ r \in Accounts
      BY AtFacts DEF Arg, RoleDoc
    <3> QED BY <1>1, <2>1, <3>1 DEF SaveNewRole, SetRole, Goto, At
  <2>2. CASE SaveRoleUpdate(r)
    <3>1. /\ [name |-> arg[r].name, state |-> IF arg[r].flag THEN "active" ELSE "inactive"] \in RoleDoc
          /\ arg[r].role \in Accounts
      BY <2>2, AtFacts DEF Arg, RoleDoc, SaveRoleUpdate, At, OnRole
    <3> QED BY <1>1, <2>2, <3>1 DEF SaveRoleUpdate, SetRole, Goto, At
  <2>3. CASE DropRole(r)
    <3>1. /\ [role[arg[r].role] EXCEPT !.state = "gone"] \in RoleDoc /\ arg[r].role \in Accounts
      BY <2>3, AtFacts DEF Arg, RoleDoc, DropRole, At, OnRole, AccInv, AccTypeOK
    <3> QED BY <1>1, <2>3, <3>1 DEF DropRole, SetRole, Goto, At
  <2> QED BY <2>1, <2>2, <2>3
<1>3. AccTypeOK'
  BY <1>2 DEF AccInv, AccTypeOK, Finished
<1>4. ASSUME NEW q \in Requests PROVE (ActsOn(q) /\ Fresh(q) /\ (op[q] = "none" => at[q] = "idle"))'
  <2>1. CASE q = r
    BY <1>2, <2>1 DEF ActsOn, Fresh, AccInv, AccTypeOK, Acting, OnRole
  <2>2. CASE q # r
    <3>1. /\ at'[q] = at[q] /\ op'[q] = op[q] /\ arg'[q] = arg[q] /\ user' = user /\ held' = held
          /\ ActsOn(q) /\ Fresh(q) /\ (op[q] = "none" => at[q] = "idle")
      BY <1>2, <2>2 DEF AccInv, AccTypeOK
    <3>2. at[q] # "done" => role'[q] = role[q]
      BY <1>2, <2>2, <3>1 DEF Fresh, RoleExists, AccInv, AccTypeOK
    <3> QED BY <3>1, <3>2 DEF ActsOn, Fresh, Known
  <2> QED BY <2>1, <2>2
<1> QED BY <1>2, <1>3, <1>4 DEF AccInv

LEMMA StepInv == ASSUME AccInv, NEW r \in Requests, AccStep(r) PROVE AccInv'
<1>1. CASE SaveToken(r)
  <2>1. AfterToken(r) \in {"confirm", "findWallet", "done", "ownWallet", "failed"}
    BY DEF AfterToken
  <2>2. token' \in [Requests -> Accounts \cup {Nobody}]
    BY <1>1, AtFacts DEF SaveToken, Arg, AccInv, AccTypeOK
  <2>3. wallet' \subseteq Accounts /\ Known(arg[r].acct)
    BY <1>1, AtFacts DEF SaveToken, At, Acting, AccInv, AccTypeOK
  <2> QED BY <1>1, <2>1, <2>2, <2>3, GoInv DEF SaveToken, At, AccSteps, OnRole, Finished
<1>2. CASE SaveWallet(r)
  <2>1. wallet' \subseteq Accounts /\ token' \in [Requests -> Accounts \cup {Nobody}]
    BY <1>2, AtFacts DEF SaveWallet, At, Acting, Known, AccInv, AccTypeOK
  <2> QED BY <1>2, <2>1, GoInv DEF SaveWallet, At, Acting, OnRole, Finished
<1> QED BY <1>1, <1>2, LookStepInv, SaveStepInv, CodeStepInv, RoleStepInv DEF AccStep

LEMMA StopInv == ASSUME AccInv, Stop, UNCHANGED accVars PROVE AccInv'
<1>1. /\ UNCHANGED <<user, role, token, wallet, held, arg, op>> /\ stops' = stops + 1 /\ stops < MaxStops
      /\ at' = [r \in Requests |-> IF Running(r) THEN "lost" ELSE at[r]]
  BY DEF Stop, accVars
<1>2. AccTypeOK'
  BY <1>1, RequestsAssumption DEF AccInv, AccTypeOK, Finished
<1>3. ASSUME NEW q \in Requests PROVE (ActsOn(q) /\ Fresh(q) /\ (op[q] = "none" => at[q] = "idle"))'
  <2>1. at'[q] = at[q] \/ (at'[q] = "lost" /\ op[q] # "none" /\ at[q] # "done")
    BY <1>1 DEF Running, Received, Finished
  <2> QED BY <1>1, <2>1 DEF AccInv, ActsOn, Fresh, Known, Acting, OnRole
<1> QED BY <1>1, <1>2, <1>3 DEF AccInv

LEMMA NextInv == AccInv /\ [AccNext]_allAccVars => AccInv'
<1> SUFFICES ASSUME AccInv, [AccNext]_allAccVars PROVE AccInv'
  OBVIOUS
<1>1. CASE UNCHANGED allAccVars
  BY <1>1 DEF allAccVars, accVars, handlerVars, AccInv, AccTypeOK, ActsOn, Fresh, Known
<1> QED BY <1>1, ReceiveInv, StepInv, StopInv DEF AccNext

(* Every variable keeps its type. *)
THEOREM AccountTypes == AccSpec => []AccTypeOK
<1>1. AccSpec => []AccInv
  BY InitInv, NextInv, PTL DEF AccSpec
<1> QED BY <1>1, PTL DEF AccInv

--------------------------------------------------------------------------------
(* The two unique indexes. *)

LEMMA Saved ==
    ASSUME AccInv, NEW a \in Accounts, NEW new \in User, SaveUser(a, new)
    PROVE  Addresses' = [Addresses EXCEPT ![a] = IF new.live THEN new.email ELSE "gone"]
<1>1. new.email \in Emails
  BY DEF User
<1>2. a \in held'[new.email] /\ user'[a] = new
  BY <1>1 DEF SaveUser, AccInv, AccTypeOK
<1>3. ASSUME NEW b \in Accounts \ {a}
      PROVE  user'[b] = user[b] /\ \A e \in Emails : b \in held'[e] <=> b \in held[e]
  BY <1>1 DEF SaveUser, AccInv, AccTypeOK
<1>4. Addresses'[a] = IF new.live THEN new.email ELSE "gone"
  BY <1>1, <1>2 DEF Addresses
<1>5. ASSUME NEW b \in Accounts \ {a} PROVE Addresses'[b] = Addresses[b]
  BY <1>3 DEF Addresses
<1> QED BY <1>4, <1>5 DEF Addresses

LEMMA AddressesKept ==
    ASSUME AccInv, UNCHANGED held,
           \A a \in Accounts : user'[a].live = user[a].live /\ user'[a].email = user[a].email
    PROVE  Addresses' = Addresses
  BY DEF Addresses

LEMMA FreeAddress ==
    ASSUME AccInv, NEW e \in Emails, ~ EmailTaken(e)
    PROVE  AddressBook!Free(e)
<1> SUFFICES ASSUME NEW a \in Accounts PROVE Addresses[a] # e
  BY DEF AddressBook!Free
<1> QED BY SeedsAssumption DEF Addresses, EmailTaken, Has

LEMMA TakesAddress ==
    ASSUME AccInv, NEW r \in Requests, NEW new \in User, SaveUser(r, new), at[r] # "done",
           new.live, ~ EmailTaken(new.email)
    PROVE  AddressBook!Next
<1>1. r \in Accounts /\ new.email \in Emails /\ Fresh(r)
  BY DEF Accounts, User, AccInv
<1>2. Addresses[r] = "none"
  BY <1>1 DEF Fresh, Addresses
<1>3. AddressBook!Free(new.email)
  BY <1>1, FreeAddress
<1>4. Addresses' = [Addresses EXCEPT ![r] = new.email]
  BY <1>1, Saved
<1>5. Addresses'[r] # Addresses[r]
  BY <1>1, <1>2, <1>4, SeedsAssumption DEF Addresses
<1> QED BY <1>1, <1>2, <1>3, <1>4, <1>5 DEF AddressBook!Next, AddressBook!Take

LEMMA ChangesAddress ==
    ASSUME AccInv, NEW a \in Accounts, NEW new \in User, SaveUser(a, new), user[a].live,
           new.live, ~ EmailTaken(new.email)
    PROVE  AddressBook!Next
<1>1. new.email \in Emails /\ user[a].email \in Emails /\ user[a].email # new.email
  BY DEF User, AccInv, AccTypeOK, EmailTaken, Has
<1>2. Addresses[a] = user[a].email /\ Addresses' = [Addresses EXCEPT ![a] = new.email]
  BY Saved DEF Addresses
<1>3. Addresses'[a] # Addresses[a]
  BY <1>1, <1>2 DEF Addresses
<1> QED BY <1>1, <1>2, <1>3, FreeAddress DEF AddressBook!Next, AddressBook!Change

LEMMA GivesUpAddress ==
    ASSUME AccInv, NEW a \in Accounts, NEW new \in User, SaveUser(a, new), user[a].live, ~ new.live
    PROVE  AddressBook!Next
<1>1. user[a].email \in Emails
  BY DEF User, AccInv, AccTypeOK
<1>2. Addresses[a] = user[a].email /\ Addresses' = [Addresses EXCEPT ![a] = "gone"]
  BY Saved DEF Addresses
<1>3. Addresses'[a] # Addresses[a]
  BY <1>1, <1>2, SeedsAssumption DEF Addresses
<1> QED BY <1>1, <1>2, <1>3 DEF AddressBook!Next, AddressBook!GiveUp

LEMMA KeepsAddress ==
    ASSUME AccInv, NEW a \in Accounts, NEW new \in User, SaveUser(a, new), user[a].live,
           new.live, new.email = user[a].email
    PROVE  Addresses' = Addresses
<1>1. Addresses[a] = user[a].email /\ Addresses' = [Addresses EXCEPT ![a] = user[a].email]
  BY Saved DEF Addresses
<1> QED BY <1>1 DEF Addresses

LEMMA AddressStep ==
    ASSUME AccInv, NEW r \in Requests, AccReceive(r) \/ AccStep(r)
    PROVE  [AddressBook!Next]_Addresses
<1>1. CASE \/ AccReceive(r) \/ Look(r, "failed")
           \/ FindToken(r) \/ FindAdminWallet(r) \/ FindOwnWallet(r) \/ CheckEmail(r) \/ CheckRole(r)
           \/ CountUsers(r) \/ SaveToken(r) \/ SaveWallet(r)
           \/ SaveNewRole(r) \/ SaveRoleUpdate(r) \/ DropRole(r)
  <2>1. UNCHANGED <<user, held>>
    BY <1>1 DEF AccReceive, PassengerAuthRoutes, DriverAuthRoutes, AdminAuthRoutes, CodeRoutes,
       ProfileRoutes, StatusRoutes, UserRoutes, RoleRoutes, CreateRole,
       RegisterPassenger, RegisterDriver, GooglePassenger, GoogleDriver, Register, LoginPassenger,
       LoginDriver, SignInPassenger, SignInDriver, LoginAdmin, Login, LoginTo, ResendOtp, ForgotUser,
       ForgotAdmin, ForgotPassword, VerifyPassenger, VerifyDriver, VerifyUserOtp, ResetPassword,
       ChangePassword, ChangeAdminPassword, ChangePasswordOf, UpdateAdminPassword, DeleteUser,
       UpdateProfile, UpdateAdminEmail, UpdateAdminRole, UpdateAdminStatus, UpdatePassengerStatus,
       UpdateDriverAccount, UpdateStatus, RemoveRole, CreateAdminUser, UpdateRole, Begin, Look, accVars,
       FindToken, FindAdminWallet, FindOwnWallet, CheckEmail, CheckRole, CountUsers, SaveToken,
       SaveWallet, SaveNewRole, SaveRoleUpdate, DropRole, SetRole
  <2> QED BY <2>1, AddressesKept
<1>2. SUFFICES ASSUME ~ Look(r, "failed") PROVE [AddressBook!Next]_Addresses
  BY <1>1
<1>3. CASE SendCode(r) \/ SaveCode(r) \/ SaveReset(r)
  <2>1. PICK a \in Accounts : /\ UNCHANGED held
                             /\ \/ user' = [user EXCEPT ![a].code = r]
                                \/ user' = [user EXCEPT ![a].reset = r]
    BY <1>2, <1>3, CodeUsers
  <2>2. ASSUME NEW b \in Accounts PROVE user'[b].live = user[b].live /\ user'[b].email = user[b].email
    BY <2>1 DEF AccInv, AccTypeOK, User
  <2> QED BY <2>1, <2>2, AddressesKept
<1>4. CASE CreateUser(r) \/ CreateAdmin(r)
  BY <1>2, <1>4, CreatedUsers, TakesAddress
<1>5. CASE Confirm(r) \/ WriteReset(r)
  <2>1. PICK a \in Accounts, new \in User :
           SaveUser(a, new) /\ Has(a, arg[r].email) /\ new.live /\ new.email = user[a].email
    BY <1>2, <1>5, FoundUsers
  <2> QED BY <2>1, KeepsAddress DEF Has
<1>6. CASE SavePassword(r) \/ SaveRole(r) \/ SaveStatus(r)
  BY <1>2, <1>6, ReadUsers, KeepsAddress
<1>7. CASE SaveEmail(r)
  BY <1>2, <1>7, ReaddressedUsers, ChangesAddress, KeepsAddress
<1>8. CASE DropUser(r)
  <2>1. PICK a \in Accounts, new \in User :
           SaveUser(a, new) /\ user[a].live /\ new = [user[a] EXCEPT !.live = FALSE]
    BY <1>2, <1>8, DroppedUsers
  <2>2. ~ new.live
    BY <2>1, AtFacts DEF User
  <2> QED BY <2>1, <2>2, GivesUpAddress
<1> QED BY <1>1, <1>3, <1>4, <1>5, <1>6, <1>7, <1>8 DEF AccStep

(* The roles: a request names the role it creates. *)

LEMMA RoleSaved ==
    ASSUME AccInv, NEW i \in Accounts, NEW new \in RoleDoc, SetRole(i, new)
    PROVE  RoleTitles' = [RoleTitles EXCEPT
                            ![i] = IF new.state \in {"active", "inactive"} THEN new.name ELSE new.state]
  BY DEF RoleTitles, RoleExists, SetRole, AccInv, AccTypeOK

LEMMA FreeTitle ==
    ASSUME AccInv, NEW n \in RoleNames, NEW i \in Accounts,
           \A j \in Accounts \ {i} : RoleExists(j) => role[j].name # n, RoleTitles[i] # n
    PROVE  RoleBook!Free(n)
<1> SUFFICES ASSUME NEW j \in Accounts, j # i PROVE RoleTitles[j] # n
  BY DEF RoleBook!Free
<1>1. role[j].state \in {"none", "active", "inactive", "gone"}
  BY DEF AccInv, AccTypeOK, RoleDoc
<1>2. CASE RoleExists(j)
  BY <1>2 DEF RoleTitles
<1>3. CASE ~ RoleExists(j)
  BY <1>1, <1>3, SeedsAssumption DEF RoleTitles, RoleExists
<1> QED BY <1>2, <1>3

LEMMA TakesTitle ==
    ASSUME AccInv, NEW r \in Requests, SaveNewRole(r), ~ Look(r, "failed")
    PROVE  RoleBook!Next
<1> DEFINE new == [name |-> arg[r].name, state |-> "active"]
<1>1. /\ r \in Accounts /\ arg[r].name \in RoleNames /\ new \in RoleDoc
      /\ SetRole(r, new) /\ ~ NameTaken(arg[r].name) /\ Fresh(r) /\ at[r] = "createRole"
  BY AtFacts DEF Accounts, Arg, RoleDoc, SaveNewRole, At, AccInv
<1>2. RoleTitles[r] = "none" /\ ~ RoleExists(r)
  BY <1>1 DEF Fresh, RoleTitles, RoleExists
<1>3. RoleTitles' = [RoleTitles EXCEPT ![r] = arg[r].name]
  BY <1>1, RoleSaved
<1>4. "none" # arg[r].name
  BY <1>1, SeedsAssumption
<1>5. RoleBook!Free(arg[r].name)
  BY <1>1, <1>2, <1>4, FreeTitle DEF NameTaken
<1>6. RoleTitles'[r] # RoleTitles[r]
  BY <1>1, <1>2, <1>3, <1>4 DEF RoleTitles
<1> QED BY <1>1, <1>2, <1>3, <1>5, <1>6 DEF RoleBook!Next, RoleBook!Take

(* Renamed, or only (de)activated. *)
LEMMA ChangesTitle ==
    ASSUME AccInv, NEW r \in Requests, SaveRoleUpdate(r), ~ Look(r, "failed")
    PROVE  [RoleBook!Next]_RoleTitles
<1> DEFINE i == arg[r].role
           new == [name |-> arg[r].name, state |-> IF arg[r].flag THEN "active" ELSE "inactive"]
<1>1. /\ i \in Accounts /\ arg[r].name \in RoleNames /\ new \in RoleDoc /\ SetRole(i, new)
      /\ RoleExists(i) /\ \A j \in Accounts \ {i} : RoleExists(j) => role[j].name # arg[r].name
  BY AtFacts DEF Arg, RoleDoc, SaveRoleUpdate, At, OnRole
<1>2. role[i].name \in RoleNames /\ RoleTitles[i] = role[i].name
  BY <1>1 DEF RoleTitles, AccInv, AccTypeOK, RoleDoc
<1>3. RoleTitles' = [RoleTitles EXCEPT ![i] = arg[r].name]
  BY <1>1, RoleSaved
<1> HIDE DEF i, new
<1>4. CASE role[i].name = arg[r].name
  BY <1>1, <1>2, <1>3, <1>4 DEF RoleTitles
<1>5. CASE role[i].name # arg[r].name
  <2>1. RoleBook!Free(arg[r].name)
    BY <1>1, <1>2, <1>5, FreeTitle
  <2>2. RoleTitles'[i] # RoleTitles[i]
    BY <1>1, <1>2, <1>3, <1>5 DEF RoleTitles
  <2> QED BY <1>1, <1>2, <1>3, <2>1, <2>2 DEF RoleBook!Next, RoleBook!Change
<1> QED BY <1>4, <1>5

LEMMA GivesUpTitle ==
    ASSUME AccInv, NEW r \in Requests, DropRole(r), ~ Look(r, "failed")
    PROVE  RoleBook!Next
<1> DEFINE i == arg[r].role
           new == [role[i] EXCEPT !.state = "gone"]
<1>1. i \in Accounts /\ SetRole(i, new) /\ RoleExists(i)
  BY AtFacts DEF DropRole, At, OnRole
<1>2. new \in RoleDoc /\ new.state = "gone" /\ role[i].name \in RoleNames
  BY <1>1 DEF RoleDoc, AccInv, AccTypeOK
<1>3. RoleTitles[i] = role[i].name /\ RoleTitles' = [RoleTitles EXCEPT ![i] = "gone"]
  <2> HIDE DEF i, new
  <2> QED BY <1>1, <1>2, RoleSaved DEF RoleTitles
<1>4. RoleTitles'[i] # RoleTitles[i]
  BY <1>1, <1>2, <1>3, SeedsAssumption DEF RoleTitles
<1> QED BY <1>1, <1>2, <1>3, <1>4 DEF RoleBook!Next, RoleBook!GiveUp

LEMMA TitleStep ==
    ASSUME AccInv, NEW r \in Requests, AccReceive(r) \/ AccStep(r)
    PROVE  [RoleBook!Next]_RoleTitles
<1>1. CASE UNCHANGED role
  BY <1>1 DEF RoleTitles, RoleExists
<1>2. CASE AccReceive(r)
  BY <1>1, <1>2 DEF AccReceive, PassengerAuthRoutes, DriverAuthRoutes, AdminAuthRoutes, CodeRoutes,
     ProfileRoutes, StatusRoutes, UserRoutes, RoleRoutes,
     CreateRole, RegisterPassenger, RegisterDriver, GooglePassenger, GoogleDriver, Register,
     LoginPassenger, LoginDriver, SignInPassenger, SignInDriver, LoginAdmin, Login, LoginTo, ResendOtp,
     ForgotUser, ForgotAdmin, ForgotPassword, VerifyPassenger, VerifyDriver, VerifyUserOtp,
     ResetPassword, ChangePassword, ChangeAdminPassword, ChangePasswordOf, UpdateAdminPassword,
     DeleteUser, UpdateProfile, UpdateAdminEmail, UpdateAdminRole, UpdateAdminStatus,
     UpdatePassengerStatus, UpdateDriverAccount, UpdateStatus, RemoveRole, CreateAdminUser, UpdateRole,
     Begin
<1>3. CASE AccStep(r) /\ ~ (SaveNewRole(r) \/ SaveRoleUpdate(r) \/ DropRole(r))
  BY <1>1, <1>3 DEF AccStep, CreateUser, SendCode, FindToken, SaveToken, FindAdminWallet, FindOwnWallet,
     SaveWallet, Confirm, SaveCode, SaveReset, WriteReset, SavePassword, CheckEmail, CheckRole,
     CreateAdmin, SaveEmail, SaveRole, SaveStatus, DropUser, CountUsers, SaveUser, Look, accVars,
     StoreCode, NoneByEmail, NoneById
<1>4. CASE Look(r, "failed")
  BY <1>1, <1>4 DEF Look, accVars
<1> QED BY <1>2, <1>3, <1>4, TakesTitle, ChangesTitle, GivesUpTitle

--------------------------------------------------------------------------------
LEMMA BooksInit == AccInit => AddressBook!Init /\ RoleBook!Init
<1> SUFFICES ASSUME AccInit PROVE AddressBook!Init /\ RoleBook!Init
  OBVIOUS
<1>1. /\ Accounts = Seeds \cup Requests /\ Seeds \cap Requests = {}
      /\ \A s \in Seeds : SeedEmail[s] \in Emails /\ SeedRole[s] \in RoleNames
  BY Constants, SeedsAssumption DEF Accounts
<1>2. ASSUME NEW a \in Accounts
      PROVE  Addresses[a] = IF a \in Seeds THEN SeedEmail[a] ELSE "none"
  <2>1. CASE a \in Seeds
    <3>1. user[a].live /\ user[a].email = SeedEmail[a]
      BY <1>1, <2>1 DEF AccInit, Seed, NoUser
    <3> QED BY <2>1, <3>1 DEF Addresses
  <2>2. CASE a \notin Seeds
    <3>1. ~ user[a].live /\ \A e \in Emails : a \notin held[e]
      BY <1>1, <2>2 DEF AccInit, NoUser
    <3> QED BY <2>2, <3>1 DEF Addresses
  <2> QED BY <2>1, <2>2
<1>3. ASSUME NEW i \in Accounts
      PROVE  RoleTitles[i] = IF i \in Seeds THEN SeedRole[i] ELSE "none"
  BY <1>1 DEF RoleTitles, RoleExists, AccInit
<1>4. AddressBook!Init
  <2>1. Addresses \in [Accounts -> Emails \cup {"none"}]
    BY <1>1, <1>2 DEF Addresses
  <2>2. \A a, b \in Accounts : Addresses[a] \in Emails /\ Addresses[a] = Addresses[b] => a = b
    BY <1>1, <1>2, SeedsAssumption
  <2> QED BY <2>1, <2>2 DEF AddressBook!Init
<1>5. RoleBook!Init
  <2>1. RoleTitles \in [Accounts -> RoleNames \cup {"none"}]
    BY <1>1, <1>3 DEF RoleTitles
  <2>2. \A i, j \in Accounts : RoleTitles[i] \in RoleNames /\ RoleTitles[i] = RoleTitles[j] => i = j
    BY <1>1, <1>3, SeedsAssumption
  <2> QED BY <2>1, <2>2 DEF RoleBook!Init
<1> QED BY <1>4, <1>5

(* The users' addresses and the roles' names are each a directory: the two      *)
(* indexes implement it, whatever the handlers looked up before they wrote.     *)
THEOREM IndexesAreDirectories == AccSpec => NamesAreDirectories
<1>1. ASSUME AccInv, [AccNext]_allAccVars
      PROVE  [AddressBook!Next]_Addresses /\ [RoleBook!Next]_RoleTitles
  <2>1. CASE UNCHANGED allAccVars \/ (Stop /\ UNCHANGED accVars)
    BY <2>1 DEF allAccVars, accVars, Addresses, RoleTitles, RoleExists
  <2> QED BY <1>1, <2>1, AddressStep, TitleStep DEF AccNext
<1>2. AccSpec => []AccInv
  BY InitInv, NextInv, PTL DEF AccSpec
<1> QED BY <1>1, <1>2, BooksInit, PTL DEF AccSpec, NamesAreDirectories, AddressBook!Spec, RoleBook!Spec

-------------------------------------------------------------------------------
(***************************************************************************)
(* Proofs about what a code, a token and a password are evidence of.        *)
(*                                                                         *)
(* A handler presents a code in one step and writes in another, by e-mail,  *)
(* after other handlers have gone on.  Evid says what stays true meanwhile: *)
(* a stored code was written for the account it is stored in, by a request  *)
(* that is over; a passenger or driver keeps the address, and its           *)
(* confirmation; the request that verifies a code acts for the account it   *)
(* was written for.                                                         *)
(***************************************************************************)

(* Code c was written for account a, by a request that is over. *)
CodeFor(a, c) == Known(a) /\ c \in Requests /\ at[c] = "done" /\ WrittenFor(c) = a

Stored(a) ==
    /\ \A c \in Requests : user[a].code = c => CodeFor(a, c) /\ arg[c].type = user[a].type
    /\ \A c \in Requests : user[a].reset = c => CodeFor(a, c)
    /\ \A r \in Requests : user[a].password = r =>
         at[r] = "done" /\ (op[r] = "reset" => a \in held[arg[r].email])

(* The kinds of request that take some of the steps, and the accounts for which. *)
Fits(r) ==
    /\ at[r] = "create" => op[r] \in {"register", "google"}
    /\ at[r] = "sendCode" =>
         op[r] \in {"login", "adminLogin"} /\ arg[r].type = user[arg[r].acct].type
    /\ at[r] \in {"findToken", "saveToken"} /\ op[r] # "verify" /\ user[arg[r].acct].type \in Apps =>
         user[arg[r].acct].confirmed
    /\ at[r] \in {"checkEmail", "saveEmail", "dropUser"} => user[arg[r].acct].type \in Admins
    /\ at[r] = "saveCode" => op[r] = "resend"
    /\ at[r] = "saveReset" => op[r] = "forgot"
    /\ at[r] = "confirm" => op[r] = "verify"
    /\ op[r] = "reset" => at[r] \in {"resetPassword"} \cup Finished

Presented(r) ==
    /\ op[r] = "verify" =>
         /\ CodeFor(arg[r].acct, arg[r].code)
         /\ user[arg[r].acct].live /\ user[arg[r].acct].email = arg[r].email
         /\ user[arg[r].acct].type \in Apps
    /\ op[r] = "reset" =>
         CodeFor(arg[r].acct, arg[r].code) /\ arg[r].acct \in held[arg[r].email]

Proven(r) ==
    token[r] # Nobody =>
        /\ Known(token[r]) /\ op[r] # "none"
        /\ user[token[r]].type \in Apps =>
             user[token[r]].confirmed \/ (op[r] = "verify" /\ WrittenFor(arg[r].code) = token[r])

OneAddress ==
    \A a, b \in Accounts : user[a].live /\ user[b].live /\ user[a].email = user[b].email => a = b

Evid ==
    /\ OneAddress
    /\ \A a \in Accounts : Stored(a)
    /\ \A r \in Requests : Fits(r) /\ Presented(r) /\ Proven(r)

LEMMA InitEvid == AccInit => Evid
<1> SUFFICES ASSUME AccInit PROVE Evid
  OBVIOUS
<1>1. ASSUME NEW a \in Accounts
      PROVE  /\ user[a].live <=> a \in Seeds
             /\ a \in Seeds => user[a].email = SeedEmail[a]
             /\ user[a].code = Nobody /\ user[a].reset = Nobody /\ user[a].password \notin Requests
  BY Constants, SeedsAssumption DEF AccInit, Seed, NoUser
<1>2. OneAddress
  BY <1>1, SeedsAssumption DEF OneAddress
<1>3. \A a \in Accounts : Stored(a)
  BY <1>1, Constants DEF Stored, Accounts
<1>4. \A r \in Requests : Fits(r) /\ Presented(r) /\ Proven(r)
  BY DEF Fits, Presented, Proven, HandlersInit, AccInit
<1> QED BY <1>2, <1>3, <1>4 DEF Evid

--------------------------------------------------------------------------------
(* What every step keeps: the type of an account, and the address and its     *)
(* confirmation when it is a passenger's or a driver's; the history of the    *)
(* addresses; the kind of a request, and what it was given once it is over.   *)
KeptUser(a, new) ==
    /\ new.type = user[a].type
    /\ user[a].type \in Apps =>
         /\ new.live = user[a].live /\ new.email = user[a].email
         /\ user[a].confirmed => new.confirmed

Kept ==
    /\ \A a \in Accounts : Known(a) => KeptUser(a, user'[a])
    /\ \A e \in Emails : held[e] \subseteq held'[e]
    /\ \A q \in Requests : op[q] # "none" => op'[q] = op[q]
    /\ \A q \in Requests : at[q] = "done" => at'[q] = "done" /\ arg'[q] = arg[q]

LEMMA KnownKept == ASSUME Kept, NEW a, Known(a) PROVE Known(a)'
  BY DEF Known, Kept

LEMMA CodeKept ==
    ASSUME AccInv, Kept, NEW a, NEW c, CodeFor(a, c)
    PROVE  CodeFor(a, c)' /\ arg'[c] = arg[c]
<1>1. op[c] # "none" /\ op'[c] = op[c] /\ at'[c] = "done" /\ arg'[c] = arg[c]
  BY DEF CodeFor, Kept, AccInv
<1> QED BY <1>1, KnownKept DEF CodeFor, WrittenFor

(* An account whose codes and password are not written. *)
LEMMA StoredKept ==
    ASSUME AccInv, Kept, NEW a \in Accounts, Stored(a),
           user'[a].code \in {user[a].code, Nobody}, user'[a].reset \in {user[a].reset, Nobody},
           user'[a].password = user[a].password
    PROVE  Stored(a)'
<1> SUFFICES ASSUME NEW c \in Requests
             PROVE  /\ user'[a].code = c => CodeFor(a, c)' /\ arg'[c].type = user'[a].type
                    /\ user'[a].reset = c => CodeFor(a, c)'
                    /\ user'[a].password = c =>
                         at'[c] = "done" /\ (op'[c] = "reset" => a \in held'[arg'[c].email])
  BY DEF Stored
<1>1. c # Nobody
  BY Constants DEF Accounts
<1>2. ASSUME user'[a].code = c PROVE CodeFor(a, c)' /\ arg'[c].type = user'[a].type
  <2>1. CodeFor(a, c) /\ arg[c].type = user[a].type
    BY <1>1, <1>2 DEF Stored
  <2>2. user'[a].type = user[a].type
    BY <2>1 DEF CodeFor, Kept, KeptUser
  <2> QED BY <2>1, <2>2, CodeKept
<1>3. ASSUME user'[a].reset = c PROVE CodeFor(a, c)'
  BY <1>1, <1>3, CodeKept DEF Stored
<1>4. ASSUME user'[a].password = c
      PROVE  at'[c] = "done" /\ (op'[c] = "reset" => a \in held'[arg'[c].email])
  <2>1. /\ at[c] = "done" /\ op[c] # "none" /\ arg[c].email \in Emails
        /\ op[c] = "reset" => a \in held[arg[c].email]
    BY <1>4, AtFacts DEF Stored, AccInv, Arg
  <2>2. /\ at'[c] = "done" /\ op'[c] = op[c] /\ arg'[c] = arg[c]
        /\ held[arg[c].email] \subseteq held'[arg[c].email]
    BY <2>1 DEF Kept
  <2> QED BY <2>1, <2>2
<1> QED BY <1>2, <1>3, <1>4

(* A request that goes no further, or ends. *)
LEMMA RequestKept ==
    ASSUME AccInv, Kept, NEW q \in Requests, Fits(q), Presented(q), Proven(q),
           op'[q] = op[q], token'[q] = token[q], at'[q] \in {at[q]} \cup Finished,
           arg'[q] = arg[q] \/ (op[q] \notin {"verify", "reset"} /\ at'[q] \in Finished)
    PROVE  (Fits(q) /\ Presented(q) /\ Proven(q))'
<1>1. Fits(q)'
  <2>1. CASE at'[q] \in Finished
    BY <2>1 DEF Fits, Finished
  <2>2. CASE at'[q] \notin Finished
    <3>1. at'[q] = at[q] /\ arg'[q] = arg[q]
      BY <2>2
    <3>2. at[q] \in Acting => /\ arg[q].acct \in Accounts /\ KeptUser(arg[q].acct, user'[arg[q].acct])
      BY AtFacts DEF Kept, Known
    <3> QED BY <3>1, <3>2 DEF Fits, KeptUser, Acting
  <2> QED BY <2>1, <2>2
<1>2. Presented(q)'
  <2>1. CASE op[q] = "verify"
    <3>1. /\ CodeFor(arg[q].acct, arg[q].code)' /\ arg'[q] = arg[q]
          /\ KeptUser(arg[q].acct, user'[arg[q].acct])
      BY <2>1, CodeKept DEF Presented, CodeFor, Kept, Known
    <3> QED BY <2>1, <3>1 DEF Presented, KeptUser
  <2>2. CASE op[q] = "reset"
    <3>1. CodeFor(arg[q].acct, arg[q].code)' /\ arg'[q] = arg[q]
      BY <2>2, CodeKept DEF Presented
    <3>2. held[arg[q].email] \subseteq held'[arg[q].email]
      BY AtFacts DEF Kept, Arg
    <3> QED BY <2>2, <3>1, <3>2 DEF Presented
  <2> QED BY <2>1, <2>2 DEF Presented
<1>3. Proven(q)'
  <2> SUFFICES ASSUME token[q] # Nobody
               PROVE  /\ Known(token[q])' /\ op[q] # "none"
                      /\ user'[token[q]].type \in Apps =>
                           \/ user'[token[q]].confirmed
                           \/ op[q] = "verify" /\ WrittenFor(arg[q].code)' = token[q] /\ arg'[q] = arg[q]
    BY DEF Proven
  <2>1. Known(token[q])' /\ op[q] # "none" /\ KeptUser(token[q], user'[token[q]])
    BY KnownKept DEF Proven, Kept, Known
  <2>2. CASE user[token[q]].confirmed
    BY <2>1, <2>2 DEF KeptUser
  <2>3. CASE op[q] = "verify" /\ WrittenFor(arg[q].code) = token[q]
    <3>1. CodeFor(arg[q].acct, arg[q].code) /\ arg'[q] = arg[q]
      BY <2>3 DEF Presented
    <3>2. WrittenFor(arg[q].code)' = WrittenFor(arg[q].code)
      BY <3>1, CodeKept DEF CodeFor
    <3> QED BY <2>1, <2>3, <3>1, <3>2
  <2> QED BY <2>1, <2>2, <2>3 DEF Proven, KeptUser
<1> QED BY <1>1, <1>2, <1>3
--------------------------------------------------------------------------------
(* A request is received. *)
LEMMA BeginEvid ==
    ASSUME AccInv, Evid, NEW r \in Requests, NEW kind \in AccOps, NEW step \in AccSteps, NEW given \in Arg,
           Begin(r, kind, step, given),
           step \in {"create", "saveCode", "saveReset", "confirm"} =>
             <<step, kind>> \in {<<"create", "register">>, <<"create", "google">>,
                                 <<"saveCode", "resend">>, <<"saveReset", "forgot">>},
           step \in {"sendCode", "findToken"} /\ kind # "verify" =>
             /\ kind \in {"login", "adminLogin"} /\ given.type = user[given.acct].type
             /\ step = "findToken" => user[given.acct].confirmed,
           step # "saveToken",
           step \in {"checkEmail", "saveEmail", "dropUser"} => user[given.acct].type \in Admins,
           kind = "verify" =>
             /\ step = "findToken" /\ CodeFor(given.acct, given.code)
             /\ user[given.acct].live /\ user[given.acct].email = given.email
             /\ user[given.acct].type \in Apps,
           kind = "reset" =>
             step = "resetPassword" /\ CodeFor(given.acct, given.code) /\ given.acct \in held[given.email]
    PROVE  Evid'
<1>1. /\ op' = [op EXCEPT ![r] = kind] /\ at' = [at EXCEPT ![r] = step]
      /\ arg' = [arg EXCEPT ![r] = given] /\ op[r] = "none"
      /\ UNCHANGED <<user, role, token, wallet, held>>
  BY DEF Begin, Receive, IsNext, IsTurnOf, Received
<1>2. /\ op'[r] = kind /\ at'[r] = step /\ arg'[r] = given
      /\ \A q \in Requests \ {r} : op'[q] = op[q] /\ at'[q] = at[q] /\ arg'[q] = arg[q]
  BY <1>1 DEF AccInv, AccTypeOK
<1>3. Kept
  <2>1. at[r] # "done"
    BY <1>1 DEF AccInv
  <2>2. \A q \in Requests : at[q] = "done" => at'[q] = "done" /\ arg'[q] = arg[q]
    BY <1>2, <2>1
  <2>3. \A q \in Requests : op[q] # "none" => op'[q] = op[q]
    BY <1>1, <1>2
  <2> QED BY <1>1, <2>2, <2>3 DEF Kept, KeptUser
<1>4. OneAddress'
  BY <1>1 DEF Evid, OneAddress
<1>5. ASSUME NEW a \in Accounts PROVE Stored(a)'
  BY <1>1, <1>3, StoredKept DEF Evid
<1>6. ASSUME NEW q \in Requests \ {r} PROVE (Fits(q) /\ Presented(q) /\ Proven(q))'
  BY <1>1, <1>2, <1>3, RequestKept DEF Evid
<1>7. Fits(r)'
  BY <1>1, <1>2 DEF Fits
<1>8. Presented(r)'
  <2>1. ASSUME CodeFor(given.acct, given.code) PROVE CodeFor(given.acct, given.code)'
    BY <1>3, <2>1, CodeKept
  <2> QED BY <1>1, <1>2, <2>1 DEF Presented
<1>9. Proven(r)'
  BY <1>1, <1>2 DEF Proven, Evid
<1> QED BY <1>4, <1>5, <1>6, <1>7, <1>8, <1>9 DEF Evid

(* A handler goes on: neither an account nor what was given is written. *)
LEMMA GoEvid ==
    ASSUME AccInv, Evid, NEW r \in Requests, NEW step \in AccSteps \cup Finished, Goto(r, step),
           UNCHANGED <<user, held, arg>>, at[r] \notin {"done", "idle"},
           step \notin {"create", "sendCode", "findToken", "saveCode", "saveReset", "checkEmail", "dropUser"},
           step = "saveToken" => at[r] = "findToken",
           step = "saveEmail" => at[r] = "checkEmail",
           step = "confirm" => op[r] = "verify",
           op[r] = "reset" => step \in Finished,
           token' = token \/ (at[r] = "saveToken" /\ token' = [token EXCEPT ![r] = arg[r].acct])
    PROVE  Evid'
<1>1. at' = [at EXCEPT ![r] = step] /\ UNCHANGED <<op, stops>>
  BY DEF Goto
<1>2. at'[r] = step /\ \A q \in Requests \ {r} : at'[q] = at[q] /\ token'[q] = token[q]
  BY <1>1 DEF AccInv, AccTypeOK
<1>3. Kept
  BY <1>1, <1>2 DEF Kept, KeptUser
<1>4. OneAddress'
  BY DEF Evid, OneAddress
<1>5. ASSUME NEW a \in Accounts PROVE Stored(a)'
  BY <1>3, StoredKept DEF Evid
<1>6. ASSUME NEW q \in Requests \ {r} PROVE (Fits(q) /\ Presented(q) /\ Proven(q))'
  BY <1>1, <1>2, <1>3, RequestKept DEF Evid
<1>7. Fits(r)'
  BY <1>1, <1>2 DEF Evid, Fits
<1>8. Presented(r)'
  <2>1. ASSUME CodeFor(arg[r].acct, arg[r].code) PROVE CodeFor(arg[r].acct, arg[r].code)'
    BY <1>3, <2>1, CodeKept
  <2> QED BY <1>1, <2>1 DEF Presented, Evid
<1>9. WrittenFor(arg[r].code)' = WrittenFor(arg[r].code)
  BY <1>1 DEF WrittenFor
<1>10. Proven(r)'
  <2>1. CASE token' = token
    BY <1>1, <1>9, <2>1 DEF Proven, Evid, Known
  <2>2. CASE at[r] = "saveToken" /\ token' = [token EXCEPT ![r] = arg[r].acct]
    <3>1. token'[r] = arg[r].acct /\ Known(arg[r].acct) /\ op[r] # "none"
      BY <2>2, AtFacts DEF Acting, AccInv, AccTypeOK
    <3>2. CASE op[r] = "verify"
      BY <1>1, <1>9, <3>1, <3>2 DEF Proven, Evid, Presented, CodeFor, Known
    <3>3. CASE op[r] # "verify"
      BY <1>1, <2>2, <3>1, <3>3 DEF Proven, Evid, Fits, Known
    <3> QED BY <3>2, <3>3
  <2> QED BY <2>1, <2>2
<1> QED BY <1>4, <1>5, <1>6, <1>7, <1>8, <1>10 DEF Evid

LEMMA LookEvid ==
    ASSUME AccInv, Evid, NEW r \in Requests, NEW step \in AccSteps \cup Finished, Look(r, step),
           at[r] \notin {"done", "idle"},
           step \notin {"create", "sendCode", "findToken", "saveCode", "saveReset", "checkEmail", "dropUser"},
           step = "saveToken" => at[r] = "findToken",
           step = "saveEmail" => at[r] = "checkEmail",
           step = "confirm" => op[r] = "verify",
           op[r] = "reset" => step \in Finished
    PROVE  Evid'
  BY GoEvid DEF Look, accVars

(* An account is saved. *)
LEMMA SaveEvid ==
    ASSUME AccInv, Evid, NEW r \in Requests, NEW a \in Accounts, NEW new \in User,
           SaveUser(a, new), Goto(r, "done"), at[r] \notin {"done", "idle"},
           Known(a) => KeptUser(a, new),
           ~ Known(a) => a = r,
           \/ new.code \in {user[a].code, Nobody}
           \/ new.code = r /\ WrittenFor(r) = a /\ arg[r].type = new.type,
           new.reset \in {user[a].reset, Nobody},
           \/ new.password = user[a].password
           \/ new.password = r /\ (op[r] = "reset" => a \in held[arg[r].email]),
           new.live => (user[a].live /\ new.email = user[a].email) \/ ~ EmailTaken(new.email)
    PROVE  Evid'
<1>1. /\ at' = [at EXCEPT ![r] = "done"] /\ UNCHANGED <<op, stops>>
      /\ user' = [user EXCEPT ![a] = new] /\ held' = [held EXCEPT ![new.email] = @ \cup {a}]
      /\ UNCHANGED <<role, token, wallet, arg>>
  BY DEF SaveUser, Goto
<1>2. /\ user'[a] = new /\ \A b \in Accounts \ {a} : user'[b] = user[b]
      /\ at'[r] = "done" /\ \A q \in Requests \ {r} : at'[q] = at[q]
      /\ \A e \in Emails : held[e] \subseteq held'[e]
      /\ new.email \in Emails /\ a \in held'[new.email]
  BY <1>1 DEF AccInv, AccTypeOK, User
<1>3. Kept
  <2>1. ASSUME NEW b \in Accounts, Known(b) PROVE KeptUser(b, user'[b])
    BY <1>2, <2>1 DEF KeptUser
  <2> QED BY <1>1, <1>2, <2>1 DEF Kept
<1>4. Known(a)'
  BY <1>2 DEF Known
<1>5. OneAddress'
  <2>1. ASSUME NEW b \in Accounts, NEW c \in Accounts, user'[b].live, user'[c].live,
               user'[b].email = user'[c].email, b = a, c # a
        PROVE  FALSE
    <3>1. new.live /\ user[c].live /\ user[c].email = new.email
      BY <1>2, <2>1
    <3>2. EmailTaken(new.email)
      BY <3>1 DEF EmailTaken, Has
    <3> QED BY <2>1, <3>1, <3>2 DEF Evid, OneAddress
  <2>2. ASSUME NEW b \in Accounts, NEW c \in Accounts, user'[b].live, user'[c].live,
               user'[b].email = user'[c].email, b # a, c # a
        PROVE  b = c
    BY <1>2, <2>2 DEF Evid, OneAddress
  <2> QED BY <2>1, <2>2 DEF OneAddress
<1>6. ASSUME NEW b \in Accounts \ {a} PROVE Stored(b)'
  BY <1>2, <1>3, StoredKept DEF Evid
<1>7. Stored(a)'
  <2> SUFFICES ASSUME NEW c \in Requests
               PROVE  /\ new.code = c => CodeFor(a, c)' /\ arg[c].type = new.type
                      /\ new.reset = c => CodeFor(a, c)'
                      /\ new.password = c =>
                           at'[c] = "done" /\ (op[c] = "reset" => a \in held'[arg[c].email])
    BY <1>1, <1>2 DEF Stored
  <2>1. c # Nobody /\ arg[c].email \in Emails
    BY Constants, AtFacts DEF Accounts, Arg
  <2>2. new.code = c => CodeFor(a, c)' /\ arg[c].type = new.type
    <3> SUFFICES ASSUME new.code = c PROVE CodeFor(a, c)' /\ arg[c].type = new.type
      OBVIOUS
    <3>1. (user[a].code = c) \/ (c = r /\ WrittenFor(r) = a /\ arg[r].type = new.type)
      BY <2>1
    <3>2. CASE user[a].code = c
      <4>1. CodeFor(a, c) /\ arg[c].type = user[a].type
        BY <3>2 DEF Evid, Stored
      <4>2. CodeFor(a, c)' /\ new.type = user[a].type
        BY <1>3, <4>1, CodeKept DEF CodeFor, KeptUser
      <4> QED BY <4>1, <4>2
    <3>3. CASE c = r /\ WrittenFor(r) = a /\ arg[r].type = new.type
      BY <1>1, <1>2, <1>4, <3>3 DEF CodeFor, WrittenFor
    <3> QED BY <3>1, <3>2, <3>3
  <2>3. new.reset = c => CodeFor(a, c)'
    BY <1>3, <2>1, CodeKept DEF Evid, Stored
  <2>4. new.password = c => at'[c] = "done" /\ (op[c] = "reset" => a \in held'[arg[c].email])
    <3> SUFFICES ASSUME new.password = c
                 PROVE  at'[c] = "done" /\ (op[c] = "reset" => a \in held'[arg[c].email])
      OBVIOUS
    <3>1. CASE user[a].password = c
      BY <1>1, <1>2, <2>1, <3>1 DEF Evid, Stored
    <3>2. CASE c = r /\ (op[r] = "reset" => a \in held[arg[r].email])
      BY <1>1, <1>2, <2>1, <3>2
    <3> QED BY <3>1, <3>2
  <2> QED BY <2>2, <2>3, <2>4
<1>8. ASSUME NEW q \in Requests PROVE (Fits(q) /\ Presented(q) /\ Proven(q))'
  BY <1>1, <1>2, <1>3, RequestKept DEF Evid, Finished
<1> QED BY <1>5, <1>6, <1>7, <1>8 DEF Evid

--------------------------------------------------------------------------------
(* The requests that are received. *)

LEMMA AddressEvid ==
    ASSUME AccInv, Evid, NEW r \in Requests, NEW e \in Emails,
           PassengerAuthRoutes(r, e) \/ DriverAuthRoutes(r, e) \/ AdminAuthRoutes(r, e)
    PROVE  Evid'
<1>1. ASSUME NEW kind \in {"register", "google"}, NEW app \in Apps, Register(r, kind, app, e)
      PROVE  Evid'
  <2>1. [NoArg EXCEPT !.email = e, !.type = app] \in Arg
    BY Constants DEF NoArg, Arg
  <2> QED BY <1>1, <2>1, BeginEvid DEF Register, AccOps, AccSteps
<1>2. ASSUME NEW kind \in {"login", "adminLogin"}, NEW a \in Accounts, Has(a, e), LoginTo(r, kind, a)
      PROVE  Evid'
  <2> DEFINE given == [NoArg EXCEPT !.acct = a, !.type = user[a].type]
  <2>1. given \in Arg /\ given.acct = a /\ given.type = user[a].type
    BY Constants, AtFacts DEF NoArg, Arg, User
  <2>2. Begin(r, kind, LoginStep(a), given)
    BY <1>2 DEF LoginTo
  <2>3. LoginStep(a) \in {"findToken", "sendCode"} /\ (LoginStep(a) = "findToken" => user[a].confirmed)
    BY DEF LoginStep
  <2> HIDE DEF given
  <2> QED BY <2>1, <2>2, <2>3, BeginEvid DEF AccOps, AccSteps
<1>3. [NoArg EXCEPT !.email = e] \in Arg
  BY Constants DEF NoArg, Arg
<1>4. ASSUME ResendOtp(r, e) PROVE Evid'
  BY <1>3, <1>4, BeginEvid DEF ResendOtp, AccOps, AccSteps
<1>5. ASSUME NEW types, ForgotPassword(r, types, e) PROVE Evid'
  BY <1>3, <1>5, BeginEvid DEF ForgotPassword, AccOps, AccSteps
<1>6. CASE \/ RegisterPassenger(r, e) \/ RegisterDriver(r, e)
           \/ GooglePassenger(r, e) \/ GoogleDriver(r, e)
  BY <1>1, <1>6 DEF RegisterPassenger, RegisterDriver, GooglePassenger, GoogleDriver, Apps
<1>7. CASE \/ LoginPassenger(r, e) \/ LoginDriver(r, e) \/ SignInPassenger(r, e)
           \/ SignInDriver(r, e) \/ LoginAdmin(r, e)
  BY <1>2, <1>7 DEF LoginPassenger, LoginDriver, SignInPassenger, SignInDriver, LoginAdmin, Login
<1>8. CASE ForgotUser(r, e) \/ ForgotAdmin(r, e)
  BY <1>5, <1>8 DEF ForgotUser, ForgotAdmin
<1> QED BY <1>4, <1>6, <1>7, <1>8 DEF PassengerAuthRoutes, DriverAuthRoutes, AdminAuthRoutes

(* A code is presented: it was written for the account that it is stored in. *)
LEMMA CodeEvid ==
    ASSUME AccInv, Evid, NEW r \in Requests, NEW c \in Requests, CodeRoutes(r, c)
    PROVE  Evid'
<1>1. ASSUME NEW app \in Apps, VerifyUserOtp(r, app, c) PROVE Evid'
  <2>1. PICK a \in Accounts :
          /\ arg[c].type = app /\ Has(a, arg[c].email) /\ user[a].code = c
          /\ Begin(r, "verify", "findToken",
                   [NoArg EXCEPT !.acct = a, !.email = arg[c].email, !.type = arg[c].type, !.code = c])
    BY <1>1 DEF VerifyUserOtp, Accepts
  <2> DEFINE given == [NoArg EXCEPT !.acct = a, !.email = arg[c].email, !.type = arg[c].type, !.code = c]
  <2>2. given \in Arg /\ given.acct = a /\ given.code = c /\ given.email = arg[c].email
    BY Constants, AtFacts DEF NoArg, Arg
  <2>3. CodeFor(a, c) /\ user[a].type \in Apps /\ user[a].live /\ user[a].email = arg[c].email
    BY <1>1, <2>1 DEF Evid, Stored, Has
  <2>4. Begin(r, "verify", "findToken", given)
    BY <2>1
  <2> HIDE DEF given
  <2> QED BY <2>2, <2>3, <2>4, BeginEvid DEF AccOps, AccSteps
<1>2. ASSUME ResetPassword(r, c) PROVE Evid'
  <2>1. PICK a \in Accounts :
          /\ user[a].live /\ user[a].reset = c
          /\ Begin(r, "reset", "resetPassword",
                   [NoArg EXCEPT !.acct = a, !.email = user[a].email, !.code = c])
    BY <1>2 DEF ResetPassword, CodeMatches
  <2> DEFINE given == [NoArg EXCEPT !.acct = a, !.email = user[a].email, !.code = c]
  <2>2. given \in Arg /\ given.acct = a /\ given.code = c /\ given.email = user[a].email
    BY Constants, AtFacts DEF NoArg, Arg, User
  <2>3. CodeFor(a, c) /\ a \in held[user[a].email]
    BY <2>1 DEF Evid, Stored, AccInv
  <2>4. Begin(r, "reset", "resetPassword", given)
    BY <2>1
  <2> HIDE DEF given
  <2> QED BY <2>2, <2>3, <2>4, BeginEvid DEF AccOps, AccSteps
<1> QED BY <1>1, <1>2 DEF CodeRoutes, VerifyPassenger, VerifyDriver, Apps

LEMMA AccountEvid ==
    ASSUME AccInv, Evid, NEW r \in Requests, NEW a \in Accounts,
           \/ ProfileRoutes(r, a) \/ StatusRoutes(r, a) \/ UpdateAdminPassword(r, a) \/ DeleteUser(r, a)
           \/ \E e \in Emails : UpdateAdminEmail(r, a, e)
           \/ \E i \in Accounts : UpdateAdminRole(r, a, i)
           \/ \E active \in BOOLEAN : UpdateAdminStatus(r, a, active)
    PROVE  Evid'
<1>1. ASSUME NEW kind \in AccOps \ {"verify", "reset"}, NEW given \in Arg, given.acct = a,
             NEW step \in {"savePassword", "checkRole", "saveStatus", "checkEmail", "dropUser"},
             step \in {"checkEmail", "dropUser"} => user[a].type \in Admins,
             Begin(r, kind, step, given)
      PROVE  Evid'
  BY <1>1, BeginEvid DEF AccSteps
<1>2. [NoArg EXCEPT !.acct = a] \in Arg /\ [NoArg EXCEPT !.acct = a].acct = a
  BY Constants DEF NoArg, Arg
<1>3. CASE \/ ChangePassword(r, a) \/ ChangeAdminPassword(r, a) \/ UpdateAdminPassword(r, a)
           \/ DeleteUser(r, a)
  BY <1>1, <1>2, <1>3 DEF ChangePassword, ChangeAdminPassword, UpdateAdminPassword, DeleteUser,
                          ChangePasswordOf, AccOps, Admins
<1>4. ASSUME NEW e \in Emails, UpdateProfile(r, a, e) \/ UpdateAdminEmail(r, a, e) PROVE Evid'
  <2>1. [NoArg EXCEPT !.acct = a, !.email = e] \in Arg /\ [NoArg EXCEPT !.acct = a, !.email = e].acct = a
    BY Constants DEF NoArg, Arg
  <2> QED BY <1>1, <1>4, <2>1 DEF UpdateProfile, UpdateAdminEmail, AccOps, Admins
<1>5. ASSUME NEW i \in Accounts, UpdateAdminRole(r, a, i) PROVE Evid'
  <2>1. [NoArg EXCEPT !.acct = a, !.role = i] \in Arg /\ [NoArg EXCEPT !.acct = a, !.role = i].acct = a
    BY Constants DEF NoArg, Arg
  <2> QED BY <1>1, <1>5, <2>1 DEF UpdateAdminRole, AccOps
<1>6. ASSUME NEW active \in BOOLEAN, NEW type, UpdateStatus(r, type, a, active) PROVE Evid'
  <2>1. /\ [NoArg EXCEPT !.acct = a, !.flag = active] \in Arg
        /\ [NoArg EXCEPT !.acct = a, !.flag = active].acct = a
    BY Constants DEF NoArg, Arg
  <2> QED BY <1>1, <1>6, <2>1 DEF UpdateStatus, AccOps
<1> QED BY <1>3, <1>4, <1>5, <1>6
        DEF ProfileRoutes, StatusRoutes, UpdateAdminStatus, UpdatePassengerStatus, UpdateDriverAccount

LEMMA RoleEvid ==
    ASSUME AccInv, Evid, NEW r \in Requests,
           RoleRoutes(r) \/ \E e \in Emails, i \in Accounts : CreateAdminUser(r, e, i)
    PROVE  Evid'
<1>1. ASSUME NEW kind \in AccOps \ {"verify", "reset"}, NEW given \in Arg,
             NEW step \in {"createRole", "countUsers", "checkRole", "updateRole"},
             Begin(r, kind, step, given)
      PROVE  Evid'
  BY <1>1, BeginEvid DEF AccSteps
<1>2. \A n \in RoleNames : [NoArg EXCEPT !.name = n] \in Arg
  BY Constants DEF NoArg, Arg
<1>3. \A i \in Accounts : [NoArg EXCEPT !.role = i] \in Arg
  BY Constants DEF NoArg, Arg
<1>4. \A i \in Accounts, e \in Emails : [NoArg EXCEPT !.email = e, !.role = i] \in Arg
  BY Constants DEF NoArg, Arg
<1>5. \A i \in Accounts, n \in RoleNames, b \in BOOLEAN :
         [NoArg EXCEPT !.role = i, !.name = n, !.flag = b] \in Arg
  BY Constants DEF NoArg, Arg
<1>6. ASSUME NEW n \in RoleNames, CreateRole(r, n) PROVE Evid'
  BY <1>1, <1>2, <1>6 DEF CreateRole, AccOps
<1>7. ASSUME NEW i \in Accounts, RemoveRole(r, i) PROVE Evid'
  BY <1>1, <1>3, <1>7 DEF RemoveRole, AccOps
<1>8. ASSUME NEW i \in Accounts, NEW e \in Emails, CreateAdminUser(r, e, i) PROVE Evid'
  BY <1>1, <1>4, <1>8 DEF CreateAdminUser, AccOps
<1>9. ASSUME NEW i \in Accounts, NEW n \in RoleNames, NEW active \in BOOLEAN, UpdateRole(r, i, n, active)
      PROVE  Evid'
  BY <1>1, <1>5, <1>9 DEF UpdateRole, AccOps
<1> QED BY <1>6, <1>7, <1>8, <1>9 DEF RoleRoutes

LEMMA ReceiveKeepsUsers == ASSUME NEW r \in Requests, AccReceive(r) PROVE UNCHANGED <<user, held>>
  BY DEF AccReceive, PassengerAuthRoutes, DriverAuthRoutes, AdminAuthRoutes, CodeRoutes,
     ProfileRoutes, StatusRoutes, UserRoutes, RoleRoutes, CreateRole,
     RegisterPassenger, RegisterDriver, GooglePassenger, GoogleDriver, Register, LoginPassenger,
     LoginDriver, SignInPassenger, SignInDriver, LoginAdmin, Login, LoginTo, ResendOtp, ForgotUser,
     ForgotAdmin, ForgotPassword, VerifyPassenger, VerifyDriver, VerifyUserOtp, ResetPassword,
     ChangePassword, ChangeAdminPassword, ChangePasswordOf, UpdateAdminPassword, DeleteUser,
     UpdateProfile, UpdateAdminEmail, UpdateAdminRole, UpdateAdminStatus, UpdatePassengerStatus,
     UpdateDriverAccount, UpdateStatus, RemoveRole, CreateAdminUser, UpdateRole, Begin

LEMMA ReceiveEvid == ASSUME AccInv, Evid, NEW r \in Requests, AccReceive(r) PROVE Evid'
<1>1. CASE UserRoutes(r)
  BY <1>1, AccountEvid, RoleEvid DEF UserRoutes
<1>2. CASE \E a \in Accounts : ProfileRoutes(r, a) \/ StatusRoutes(r, a)
  BY <1>2, AccountEvid
<1> QED BY <1>1, <1>2, AddressEvid, CodeEvid, RoleEvid DEF AccReceive

--------------------------------------------------------------------------------
(* The steps of the handlers. *)

LEMMA FailEvid ==
    ASSUME AccInv, Evid, NEW r \in Requests, Look(r, "failed"), at[r] \notin {"done", "idle"}
    PROVE  Evid'
  BY LookEvid DEF Finished

LEMMA ResetEnds ==
    ASSUME Evid, NEW r \in Requests, op[r] = "reset"
    PROVE  at[r] \in {"resetPassword"} \cup Finished
  BY DEF Evid, Fits

LEMMA LookStepEvid ==
    ASSUME AccInv, Evid, NEW r \in Requests,
           \/ FindToken(r) \/ SaveToken(r) \/ FindAdminWallet(r) \/ FindOwnWallet(r) \/ SaveWallet(r)
           \/ CheckEmail(r) \/ CheckRole(r) \/ CountUsers(r)
    PROVE  Evid'
<1>1. /\ AfterToken(r) \in {"confirm", "findWallet", "done", "ownWallet", "failed"}
      /\ AfterToken(r) = "confirm" => op[r] = "verify"
  BY DEF AfterToken
<1>2. CASE FindToken(r)
  <2>1. PICK step \in {"saveToken", AfterToken(r)} : Look(r, step) /\ at[r] = "findToken"
    BY <1>2 DEF FindToken, At
  <2> QED BY <1>1, <2>1, ResetEnds, LookEvid DEF AccSteps, Finished
<1>3. CASE SaveToken(r)
  <2>1. /\ at[r] = "saveToken" /\ Goto(r, AfterToken(r)) /\ token' = [token EXCEPT ![r] = arg[r].acct]
        /\ UNCHANGED <<user, held, arg>>
    BY <1>3 DEF SaveToken, At
  <2> QED BY <1>1, <2>1, ResetEnds, GoEvid DEF AccSteps, Finished
<1>4. CASE FindAdminWallet(r) \/ FindOwnWallet(r) \/ CheckEmail(r) \/ CheckRole(r) \/ CountUsers(r)
  <2>1. PICK step \in {"done", "saveWallet", "failed", "saveEmail", "createAdmin", "saveRole", "dropRole"} :
           /\ Look(r, step) /\ (step = "saveEmail" => at[r] = "checkEmail")
           /\ at[r] \in {"findWallet", "ownWallet", "checkEmail", "checkRole", "countUsers"}
    BY <1>4 DEF FindAdminWallet, FindOwnWallet, CheckEmail, CheckRole, CountUsers, At
  <2> QED BY <2>1, ResetEnds, LookEvid DEF AccSteps, Finished
<1>5. CASE SaveWallet(r)
  <2>1. PICK step \in {"failed", "done"} : /\ Goto(r, step) /\ at[r] = "saveWallet"
                                         /\ UNCHANGED <<user, held, arg, token>>
    BY <1>5 DEF SaveWallet, At
  <2> QED BY <2>1, GoEvid DEF Finished
<1> QED BY <1>2, <1>3, <1>4, <1>5

LEMMA RoleStepEvid ==
    ASSUME AccInv, Evid, NEW r \in Requests, SaveNewRole(r) \/ SaveRoleUpdate(r) \/ DropRole(r)
    PROVE  Evid'
<1>1. PICK step \in {"failed", "done"} :
         /\ Goto(r, step) /\ UNCHANGED <<user, held, arg, token>>
         /\ at[r] \in {"createRole", "updateRole", "dropRole"}
  BY DEF SaveNewRole, SaveRoleUpdate, DropRole, SetRole, Look, accVars, At
<1> QED BY <1>1, GoEvid DEF Finished

LEMMA CreateEvid ==
    ASSUME AccInv, Evid, NEW r \in Requests, CreateUser(r) \/ CreateAdmin(r)
    PROVE  Evid'
<1>1. SUFFICES ASSUME ~ Look(r, "failed") PROVE Evid'
  BY FailEvid DEF CreateUser, CreateAdmin, At
<1>2. PICK new \in User :
         /\ SaveUser(r, new) /\ Goto(r, "done") /\ at[r] \in {"create", "createAdmin"}
         /\ new.live /\ new.email = arg[r].email /\ ~ EmailTaken(arg[r].email)
         /\ CreateUser(r) => new = NewUser(r)
         /\ CreateAdmin(r) => new.type = "ADMIN" /\ new.confirmed /\ new.password = r
                              /\ new.code = Nobody /\ new.reset = Nobody
  BY <1>1, CreatedUsers
<1>3. r \in Accounts /\ ~ Known(r)
  BY <1>2 DEF Accounts, AccInv, Fresh, Known
<1>4. op[r] # "reset"
  BY <1>2, ResetEnds DEF Finished
<1>5. new.reset = Nobody /\ new.password = r
  BY <1>2 DEF NewUser, NoUser
<1>6. new.code = Nobody \/ (new.code = r /\ WrittenFor(r) = r /\ arg[r].type = new.type)
  BY <1>2 DEF NewUser, NoUser, WrittenFor
<1> QED BY <1>2, <1>3, <1>4, <1>5, <1>6, SaveEvid

LEMMA FoundEvid ==
    ASSUME AccInv, Evid, NEW r \in Requests, Confirm(r) \/ WriteReset(r)
    PROVE  Evid'
<1>1. SUFFICES ASSUME ~ Look(r, "failed") PROVE Evid'
  BY FailEvid DEF Confirm, WriteReset, At
<1>2. PICK a \in Accounts, new \in User :
         /\ SaveUser(a, new) /\ Goto(r, "done") /\ at[r] \in {"confirm", "resetPassword"}
         /\ Has(a, arg[r].email) /\ new.live /\ new.email = user[a].email
         /\ Confirm(r) => new = [user[a] EXCEPT !.confirmed = TRUE]
         /\ WriteReset(r) => new = [user[a] EXCEPT !.password = r, !.reset = Nobody]
  BY <1>1, FoundUsers
<1>3. user[a] \in User /\ user[a].live /\ a \in held[arg[r].email] /\ Known(a)
  BY <1>2, AtFacts DEF Has, AccInv
<1>4. /\ new.type = user[a].type /\ new.code = user[a].code
      /\ new.reset \in {user[a].reset, Nobody} /\ new.password \in {user[a].password, r}
      /\ user[a].confirmed => new.confirmed
  BY <1>2, <1>3 DEF User
<1>5. KeptUser(a, new)
  BY <1>2, <1>3, <1>4 DEF KeptUser
<1> QED BY <1>2, <1>3, <1>4, <1>5, SaveEvid

LEMMA ReadEvid ==
    ASSUME AccInv, Evid, NEW r \in Requests,
           SavePassword(r) \/ SaveRole(r) \/ SaveStatus(r)
    PROVE  Evid'
<1>1. SUFFICES ASSUME ~ Look(r, "failed") PROVE Evid'
  BY FailEvid DEF SavePassword, SaveRole, SaveStatus, At
<1>2. PICK a \in Accounts, new \in User :
         /\ a = arg[r].acct /\ Known(a) /\ SaveUser(a, new) /\ Goto(r, "done")
         /\ at[r] \in {"savePassword", "saveRole", "saveStatus"}
         /\ user[a].live /\ new.live /\ new.email = user[a].email
         /\ new.type = user[a].type /\ new.confirmed = user[a].confirmed /\ new.reset = user[a].reset
         /\ new.code = user[a].code
         /\ new.password = user[a].password \/ (SavePassword(r) /\ new.password = r)
  BY <1>1, ReadUsers
<1>3. op[r] # "reset"
  BY <1>2, ResetEnds DEF Finished
<1>4. KeptUser(a, new)
  BY <1>2 DEF KeptUser
<1> QED BY <1>2, <1>3, <1>4, SaveEvid

(* Only an administrator changes address, or is deleted. *)
LEMMA AdminEvid ==
    ASSUME AccInv, Evid, NEW r \in Requests, SaveEmail(r) \/ DropUser(r)
    PROVE  Evid'
<1>1. SUFFICES ASSUME ~ Look(r, "failed") PROVE Evid'
  BY FailEvid DEF SaveEmail, DropUser, At
<1>2. user[arg[r].acct].type \in Admins
  BY DEF SaveEmail, DropUser, At, Evid, Fits
<1>3. CASE SaveEmail(r)
  <2>1. PICK a \in Accounts, new \in User :
           /\ a = arg[r].acct /\ Known(a) /\ SaveUser(a, new) /\ Goto(r, "done")
           /\ at[r] = "saveEmail" /\ user[a].live
           /\ user[a].email = arg[r].email \/ ~ EmailTaken(arg[r].email)
           /\ new.email = arg[r].email /\ new.type = user[a].type
           /\ new.code = user[a].code /\ new.reset = user[a].reset /\ new.password = user[a].password
    BY <1>1, <1>3, ReaddressedUsers
  <2>2. KeptUser(a, new)
    BY <1>2, <2>1 DEF KeptUser, Admins, Apps
  <2> QED BY <2>1, <2>2, SaveEvid
<1>4. CASE DropUser(r)
  <2>1. PICK a \in Accounts, new \in User :
           /\ a = arg[r].acct /\ Known(a) /\ SaveUser(a, new) /\ Goto(r, "done")
           /\ at[r] = "dropUser" /\ new = [user[a] EXCEPT !.live = FALSE]
    BY <1>1, <1>4, DroppedUsers
  <2>2. user[a] \in User
    BY AtFacts
  <2>3. /\ new.type = user[a].type /\ new.code = user[a].code /\ new.reset = user[a].reset
        /\ new.password = user[a].password /\ ~ new.live
    BY <2>1, <2>2 DEF User
  <2>4. KeptUser(a, new)
    BY <1>2, <2>1, <2>3 DEF KeptUser, Admins, Apps
  <2> QED BY <2>1, <2>3, <2>4, SaveEvid
<1> QED BY <1>3, <1>4

(* A new code is stored, and the request that wrote it names the account. *)
LEMMA CodeStepEvid ==
    ASSUME AccInv, Evid, NEW r \in Requests, SendCode(r) \/ SaveCode(r) \/ SaveReset(r)
    PROVE  Evid'
<1>1. SUFFICES ASSUME ~ Look(r, "failed") PROVE Evid'
  BY FailEvid DEF SendCode, SaveCode, SaveReset, At
<1>2. PICK a \in Accounts :
         /\ user[a].live /\ Known(a) /\ Goto(r, "done") /\ UNCHANGED <<role, token, wallet, held>>
         /\ at[r] \in {"sendCode", "saveCode", "saveReset"}
         /\ \/ /\ op[r] \in {"login", "adminLogin", "resend"}
               /\ user' = [user EXCEPT ![a].code = r]
               /\ arg' = [arg EXCEPT ![r].acct = a, ![r].email = user[a].email,
                                     ![r].type = user[a].type]
            \/ /\ op[r] = "forgot" /\ user' = [user EXCEPT ![a].reset = r]
               /\ arg' = [arg EXCEPT ![r].acct = a]
  <2>1. /\ SendCode(r) \/ SaveCode(r) => op[r] \in {"login", "adminLogin", "resend"}
        /\ SaveReset(r) => op[r] = "forgot"
    BY DEF SendCode, SaveCode, SaveReset, At, Evid, Fits
  <2> QED BY <1>1, <2>1, CodeUsers
<1>3. at' = [at EXCEPT ![r] = "done"] /\ UNCHANGED <<op, stops>>
  BY <1>2 DEF Goto
<1>4. /\ at'[r] = "done" /\ \A q \in Requests \ {r} : at'[q] = at[q] /\ arg'[q] = arg[q]
      /\ \A b \in Accounts \ {a} : user'[b] = user[b]
  BY <1>2, <1>3 DEF AccInv, AccTypeOK
<1>5. /\ user[a] \in User /\ arg[r] \in Arg /\ Known(a) /\ user'[a].live = user[a].live
      /\ user'[a].email = user[a].email /\ user'[a].type = user[a].type
      /\ user'[a].confirmed = user[a].confirmed /\ user'[a].password = user[a].password
      /\ arg'[r].acct = a
      /\ \/ op[r] \in {"login", "adminLogin", "resend"} /\ user'[a].code = r
            /\ user'[a].reset = user[a].reset /\ arg'[r].type = user[a].type
         \/ op[r] = "forgot" /\ user'[a].code = user[a].code /\ user'[a].reset = r
  <2>1. user[a] \in User /\ arg[r] \in Arg /\ Known(a)
    BY <1>2, AtFacts DEF Arg
  <2>2. CASE /\ user' = [user EXCEPT ![a].code = r]
             /\ op[r] \in {"login", "adminLogin", "resend"}
             /\ arg' = [arg EXCEPT ![r].acct = a, ![r].email = user[a].email, ![r].type = user[a].type]
    <3>1. user'[a] = [user[a] EXCEPT !.code = r]
      BY <2>2 DEF AccInv, AccTypeOK
    <3>2. arg'[r] = [arg[r] EXCEPT !.acct = a, !.email = user[a].email, !.type = user[a].type]
      BY <2>2 DEF AccInv, AccTypeOK, Arg
    <3>3. arg'[r].acct = a /\ arg'[r].type = user[a].type
      BY <2>1, <3>2 DEF Arg
    <3>4. /\ user'[a].live = user[a].live /\ user'[a].email = user[a].email
          /\ user'[a].type = user[a].type /\ user'[a].confirmed = user[a].confirmed
          /\ user'[a].password = user[a].password /\ user'[a].reset = user[a].reset
          /\ user'[a].code = r
      BY <2>1, <3>1 DEF User
    <3> QED BY <2>1, <2>2, <3>3, <3>4
  <2>3. CASE op[r] = "forgot" /\ user' = [user EXCEPT ![a].reset = r] /\ arg' = [arg EXCEPT ![r].acct = a]
    <3>1. user'[a] = [user[a] EXCEPT !.reset = r] /\ arg'[r] = [arg[r] EXCEPT !.acct = a]
      BY <2>3 DEF AccInv, AccTypeOK
    <3> QED BY <2>1, <2>3, <3>1 DEF User, Arg
  <2> QED BY <1>2, <2>2, <2>3
<1>6. Kept
  <2>1. ASSUME NEW b \in Accounts PROVE KeptUser(b, user'[b])
    BY <1>4, <1>5 DEF KeptUser
  <2> QED BY <1>2, <1>3, <1>4, <2>1 DEF Kept
<1>7. OneAddress'
  <2>1. \A b \in Accounts : user'[b].live = user[b].live /\ user'[b].email = user[b].email
    BY <1>4, <1>5
  <2> QED BY <2>1 DEF Evid, OneAddress
<1>8. ASSUME NEW b \in Accounts \ {a} PROVE Stored(b)'
  BY <1>4, <1>6, StoredKept DEF Evid
<1>9. Stored(a)'
  <2>1. CodeFor(a, r)'
    BY <1>3, <1>4, <1>5, <1>6, KnownKept DEF CodeFor, WrittenFor
  <2> SUFFICES ASSUME NEW c \in Requests
               PROVE  /\ user'[a].code = c => CodeFor(a, c)' /\ arg'[c].type = user'[a].type
                      /\ user'[a].reset = c => CodeFor(a, c)'
                      /\ user'[a].password = c =>
                           at'[c] = "done" /\ (op'[c] = "reset" => a \in held'[arg'[c].email])
    BY DEF Stored
  <2>2. CASE c = r
    <3>1. user[a].code # r /\ user[a].reset # r /\ user[a].password # r
      BY <1>2 DEF Evid, Stored, CodeFor
    <3> QED BY <1>5, <2>1, <2>2, <3>1
  <2>3. CASE c # r
    <3>1. user'[a].code = c => CodeFor(a, c) /\ arg[c].type = user[a].type
      BY <1>5, <2>3 DEF Evid, Stored
    <3>2. user'[a].reset = c => CodeFor(a, c)
      BY <1>5, <2>3 DEF Evid, Stored
    <3>3. user'[a].password = c => at[c] = "done" /\ (op[c] = "reset" => a \in held[arg[c].email])
      BY <1>5 DEF Evid, Stored
    <3> QED BY <1>2, <1>3, <1>4, <1>5, <1>6, <2>3, <3>1, <3>2, <3>3, CodeKept
  <2> QED BY <2>2, <2>3
<1>10. ASSUME NEW q \in Requests PROVE (Fits(q) /\ Presented(q) /\ Proven(q))'
  <2>1. arg'[q] = arg[q] \/ (op[q] \notin {"verify", "reset"} /\ at'[q] \in Finished)
    BY <1>2, <1>4 DEF Finished
  <2> QED BY <1>2, <1>3, <1>4, <1>6, <2>1, RequestKept DEF Evid, Finished
<1> QED BY <1>7, <1>8, <1>9, <1>10 DEF Evid

LEMMA StepEvid == ASSUME AccInv, Evid, NEW r \in Requests, AccStep(r) PROVE Evid'
  BY LookStepEvid, RoleStepEvid, CreateEvid, FoundEvid, ReadEvid, AdminEvid, CodeStepEvid DEF AccStep

LEMMA StopEvid ==
    ASSUME AccInv, Evid, (Stop \/ UNCHANGED <<op, at>>) /\ UNCHANGED accVars
    PROVE  Evid'
<1>1. /\ UNCHANGED <<user, role, token, wallet, held, arg, op>>
      /\ \A q \in Requests : at'[q] = at[q] \/ (at'[q] = "lost" /\ at[q] # "done")
  BY DEF Stop, accVars, Running, Finished
<1>2. Kept
  BY <1>1 DEF Kept, KeptUser
<1>3. OneAddress' /\ \A a \in Accounts : Stored(a)'
  BY <1>1, <1>2, StoredKept DEF Evid, OneAddress
<1>4. ASSUME NEW q \in Requests PROVE (Fits(q) /\ Presented(q) /\ Proven(q))'
  BY <1>1, <1>2, RequestKept DEF Evid, Finished
<1> QED BY <1>3, <1>4 DEF Evid

LEMMA NextEvid == AccInv /\ Evid /\ [AccNext]_allAccVars => Evid'
<1> SUFFICES ASSUME AccInv, Evid, [AccNext]_allAccVars PROVE Evid'
  OBVIOUS
<1>1. CASE UNCHANGED allAccVars
  BY <1>1, StopEvid DEF allAccVars, handlerVars
<1> QED BY <1>1, ReceiveEvid, StepEvid, StopEvid DEF AccNext

LEMMA EvidHolds == AccSpec => [](AccInv /\ Evid)
<1>1. AccInit => AccInv /\ Evid
  BY InitInv, InitEvid
<1>2. (AccInv /\ Evid) /\ [AccNext]_allAccVars => (AccInv /\ Evid)'
  BY NextInv, NextEvid
<1> QED BY <1>1, <1>2, PTL DEF AccSpec

--------------------------------------------------------------------------------
(* The token of a passenger or a driver says that the address is theirs, or    *)
(* that its code was presented: login writes it for a confirmed account only,  *)
(* and a confirmation is not taken back.                                       *)
THEOREM TokensOfProvenAddresses == AccSpec => []TokenOfProvenAddress
<1>1. Evid => TokenOfProvenAddress
  BY DEF Evid, Proven, TokenOfProvenAddress
<1> QED BY <1>1, EvidHolds, PTL

(* A password that a reset wrote is that of the account whose code was         *)
(* presented, or of another that has had the address too.                      *)
THEOREM ResetsOfOwnAccount == AccSpec => []ResetOfOwnAccount
<1>1. ASSUME AccInv, Evid PROVE ResetOfOwnAccount
  <2> SUFFICES ASSUME NEW a \in Accounts, NEW r \in Requests, user[a].password = r, op[r] = "reset",
                      WrittenFor(arg[r].code) # a
               PROVE  Cardinality(held[arg[r].email]) > 1
    BY DEF ResetOfOwnAccount
  <2> DEFINE b == arg[r].acct  had == held[arg[r].email]
  <2>1. a \in had /\ b \in had /\ a # b
    BY <1>1 DEF Evid, Stored, Presented, CodeFor
  <2>2. IsFiniteSet(had)
    <3>1. IsFiniteSet(Requests)
      BY FS_Interval, RequestsAssumption DEF Requests
    <3>2. IsFiniteSet(Accounts)
      BY <3>1, FS_Union, SeedsAssumption DEF Accounts
    <3>3. had \subseteq Accounts
      BY <1>1, AtFacts DEF AccInv, AccTypeOK, Arg
    <3> QED BY <3>2, <3>3, FS_Subset
  <2>3. Cardinality({a, b}) = 2
    <3>1. {a, b} = {a} \cup {b} /\ b \notin {a}
      BY <2>1
    <3>2. IsFiniteSet({a}) /\ Cardinality({a}) = 1
      BY FS_Singleton
    <3>3. Cardinality({a} \cup {b}) = Cardinality({a}) + 1
      BY <3>1, <3>2, FS_AddElement
    <3> QED BY <3>1, <3>2, <3>3
  <2>4. {a, b} \subseteq had
    BY <2>1
  <2>5. Cardinality({a, b}) <= Cardinality(had) /\ Cardinality(had) \in Nat
    BY <2>2, <2>4, FS_Subset, FS_CardinalityType
  <2> QED BY <2>3, <2>5
<1> QED BY <1>1, EvidHolds, PTL

(* An address is confirmed by its account's own code: that of a passenger or a *)
(* driver, whose address does not change between the comparison and the write. *)
THEOREM ConfirmationsByCode == AccSpec => ConfirmedByCode
<1> DEFINE Confirmation(a) ==
      user[a].live /\ ~ user[a].confirmed /\ user'[a].confirmed =>
        /\ user[a].type \in Apps
        /\ \E r \in Requests : /\ At(r, "confirm") /\ at'[r] = "done"
                                /\ arg[r].acct = a /\ WrittenFor(arg[r].code) = a
<1>1. ASSUME AccInv, Evid, NEW a \in Accounts, [AccNext]_allAccVars PROVE Confirmation(a)
  <2> SUFFICES ASSUME user[a].live, ~ user[a].confirmed, user'[a].confirmed
               PROVE  /\ user[a].type \in Apps
                      /\ \E r \in Requests : /\ At(r, "confirm") /\ at'[r] = "done"
                                              /\ arg[r].acct = a /\ WrittenFor(arg[r].code) = a
    OBVIOUS
  <2>1. user'[a] # user[a]
    OBVIOUS
  <2>2. PICK r \in Requests : AccStep(r)
    <3>1. CASE UNCHANGED allAccVars \/ UNCHANGED accVars
      BY <2>1, <3>1 DEF allAccVars, accVars
    <3>2. CASE \E r \in Requests : AccReceive(r)
      BY <2>1, <3>2, ReceiveKeepsUsers
    <3> QED BY <1>1, <3>1, <3>2 DEF AccNext
  <2>3. ~ Look(r, "failed") /\ ~ UNCHANGED user
    BY <2>1 DEF Look, accVars
  <2>4. ASSUME NEW b \in Accounts, NEW new \in User, SaveUser(b, new)
        PROVE  b = a /\ user'[a] = new
    BY <1>1, <2>1, <2>4 DEF SaveUser, AccInv, AccTypeOK
  <2>5. CASE Confirm(r)
    <3>1. PICK b \in Accounts, new \in User :
             SaveUser(b, new) /\ Goto(r, "done") /\ at[r] = "confirm" /\ Has(b, arg[r].email)
      BY <1>1, <2>3, <2>5, FoundUsers DEF Confirm, At
    <3>2. b = a /\ at'[r] = "done"
      BY <1>1, <2>4, <3>1 DEF Goto, AccInv, AccTypeOK
    <3>3. op[r] = "verify"
      BY <1>1, <3>1 DEF Evid, Fits
    <3>4. /\ user[arg[r].acct].live /\ user[arg[r].acct].email = arg[r].email
          /\ user[arg[r].acct].type \in Apps /\ arg[r].acct \in Accounts
          /\ WrittenFor(arg[r].code) = arg[r].acct
      BY <1>1, <3>3 DEF Evid, Presented, CodeFor, Known
    <3>5. arg[r].acct = a
      BY <1>1, <3>1, <3>2, <3>4 DEF Evid, OneAddress, Has
    <3> QED BY <3>1, <3>2, <3>4, <3>5 DEF At
  <2>6. CASE CreateUser(r) \/ CreateAdmin(r)
    <3>1. PICK new \in User : SaveUser(r, new) /\ at[r] \in {"create", "createAdmin"}
      BY <1>1, <2>3, <2>6, CreatedUsers
    <3>2. r = a /\ ~ user[r].live
      BY <1>1, <2>4, <3>1 DEF Accounts, AccInv, Fresh
    <3> QED BY <3>2
  <2>7. CASE WriteReset(r)
    <3>1. PICK b \in Accounts, new \in User :
             SaveUser(b, new) /\ new = [user[b] EXCEPT !.password = r, !.reset = Nobody]
      BY ZenonT(60), <1>1, <2>3, <2>7, FoundUsers
    <3>2. new.confirmed = user[a].confirmed
      BY <1>1, <2>4, <3>1, AtFacts DEF User
    <3> QED BY <2>4, <3>1, <3>2
  <2>8. CASE SavePassword(r) \/ SaveRole(r) \/ SaveStatus(r)
    <3>1. PICK b \in Accounts, new \in User : SaveUser(b, new) /\ new.confirmed = user[b].confirmed
      BY <1>1, <2>3, <2>8, ReadUsers
    <3> QED BY <2>4, <3>1
  <2>9. CASE SaveEmail(r)
    <3>1. PICK b \in Accounts, new \in User :
             SaveUser(b, new) /\ (new.confirmed <=> user[b].confirmed /\ op[r] # "updateProfile")
      BY <1>1, <2>3, <2>9, ReaddressedUsers
    <3> QED BY <2>4, <3>1
  <2>10. CASE DropUser(r)
    <3>1. PICK b \in Accounts, new \in User : SaveUser(b, new) /\ new = [user[b] EXCEPT !.live = FALSE]
      BY <1>1, <2>3, <2>10, DroppedUsers
    <3>2. new.confirmed = user[a].confirmed
      BY <1>1, <2>4, <3>1, AtFacts DEF User
    <3> QED BY <2>4, <3>1, <3>2
  <2>11. CASE SendCode(r) \/ SaveCode(r) \/ SaveReset(r)
    <3>1. PICK b \in Accounts : \/ user' = [user EXCEPT ![b].code = r]
                              \/ user' = [user EXCEPT ![b].reset = r]
      BY <1>1, <2>3, <2>11, CodeUsers
    <3>2. user[a] \in User
      BY <1>1, AtFacts
    <3>3. user'[a].confirmed = user[a].confirmed
      BY <1>1, <3>1, <3>2 DEF AccInv, AccTypeOK, User
    <3> QED BY <3>3
  <2> QED BY <2>2, <2>3, <2>5, <2>6, <2>7, <2>8, <2>9, <2>10, <2>11
          DEF AccStep, FindToken, SaveToken, FindAdminWallet, FindOwnWallet, SaveWallet, CheckEmail,
              CheckRole, CountUsers, SaveNewRole, SaveRoleUpdate, DropRole, SetRole, Look, accVars
<1>2. ASSUME AccInv, Evid, [AccNext]_allAccVars PROVE [\A a \in Accounts : Confirmation(a)]_allAccVars
  BY <1>1, <1>2
<1> QED BY <1>2, EvidHolds, PTL DEF AccSpec, ConfirmedByCode
================================================================================
