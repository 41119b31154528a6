------------------------------- MODULE Accounts --------------------------------
(***************************************************************************)
(* The accounts of passengers, drivers and administrators: registration and *)
(* its code, login, password reset, profiles, administrators and roles.     *)
(* All live in one collection of users, whose e-mail index is unique, but   *)
(* each application finds and updates them its own way: by e-mail, by id,   *)
(* with or without the type.                                                *)
(*                                                                         *)
(* An account is named by the request that created it.  A code is the       *)
(* request that wrote it (two random codes are never equal); so is a        *)
(* password.  A code or token may have expired whenever it is checked.      *)
(* A request refused by its first read changes nothing: it is not received. *)
(***************************************************************************)
EXTENDS Handlers

CONSTANTS
    Emails, RoleNames,
    Seeds,          \* the administrators at the start, not numbered as requests are
    SeedEmail,      \* their addresses
    SeedRole,       \* the role each has, named as an administrator is
    Super,          \* the one that is SUPER_ADMIN
    Nobody          \* no account, no role, no code

ASSUME SeedsAssumption ==
    /\ Seeds \cap Requests = {} /\ Super \in Seeds
    /\ Nobody \notin Seeds \cup Requests
    /\ SeedEmail \in [Seeds -> Emails]
    /\ \A a, b \in Seeds : SeedEmail[a] = SeedEmail[b] => a = b
    /\ SeedRole \in [Seeds -> RoleNames]
    /\ \A a, b \in Seeds : SeedRole[a] = SeedRole[b] => a = b
    /\ {"none", "gone"} \cap (Emails \cup RoleNames) = {}
    /\ IsFiniteSet(Seeds)

VARIABLES
    user,           \* users
    role,           \* roles; each administrator at the start has one of its own name
    token,          \* refreshTokens: the account each was created for
    wallet,         \* the accounts that have a wallet
    held,           \* history: the accounts that ever had an address
    arg             \* what each request was given, and has read

accVars == <<user, role, token, wallet, held, arg>>
allAccVars == <<accVars, handlerVars>>

--------------------------------------------------------------------------------
Accounts == Seeds \cup Requests
Apps     == {"PASSENGER", "DRIVER"}
Admins   == {"ADMIN", "SUPER_ADMIN"}

(* code, reset: the request whose code is stored; password: that set it. *)
User == [live : BOOLEAN, email : Emails, type : Apps \cup Admins, google : BOOLEAN,
         password : Accounts, confirmed : BOOLEAN, code : Requests \cup {Nobody},
         reset : Requests \cup {Nobody}, active : BOOLEAN, role : Accounts \cup {Nobody}]

RoleDoc == [name : RoleNames, state : {"none", "active", "inactive", "gone"}]

(* acct: the account read; email, type, role, flag: as given, or read;        *)
(* code: the request whose code is presented.                                 *)
Arg == [acct : Accounts \cup {Nobody}, email : Emails, type : Apps \cup Admins,
        code : Requests \cup {Nobody}, role : Accounts \cup {Nobody}, name : RoleNames,
        flag : BOOLEAN]

AnyEmail == CHOOSE e \in Emails : TRUE
AnyName  == CHOOSE n \in RoleNames : TRUE

NoUser == [live |-> FALSE, email |-> AnyEmail, type |-> "PASSENGER", google |-> FALSE,
           password |-> Super, confirmed |-> FALSE, code |-> Nobody, reset |-> Nobody,
           active |-> TRUE, role |-> Nobody]
NoArg == [acct |-> Nobody, email |-> AnyEmail, type |-> "PASSENGER", code |-> Nobody,
          role |-> Nobody, name |-> AnyName, flag |-> FALSE]

Seed(s) == [NoUser EXCEPT !.live = TRUE, !.email = SeedEmail[s], !.password = s, !.confirmed = TRUE,
                          !.type = IF s = Super THEN "SUPER_ADMIN" ELSE "ADMIN", !.role = s]

AccInit ==
    /\ HandlersInit
    /\ user = [a \in Accounts |-> IF a \in Seeds THEN Seed(a) ELSE NoUser]
    /\ role = [i \in Accounts |-> IF i \in Seeds
                                    THEN [name |-> SeedRole[i], state |-> "active"]
                                    ELSE [name |-> AnyName, state |-> "none"]]
    /\ token = [r \in Requests |-> Nobody]
    /\ wallet = {}
    /\ held = [e \in Emails |-> {s \in Seeds : SeedEmail[s] = e}]
    /\ arg = [r \in Requests |-> NoArg]

--------------------------------------------------------------------------------
(* What the handlers look up. *)

Has(a, e)     == user[a].live /\ user[a].email = e
EmailTaken(e) == \E a \in Accounts : Has(a, e)
RoleExists(i) == role[i].state \in {"active", "inactive"}
NameTaken(n)  == \E i \in Accounts : RoleExists(i) /\ role[i].name = n
SuperWallet   == Super \in wallet

(* The guard of every request that needs one: the account as it is now. *)
SignedIn(a) == user[a].live /\ user[a].active

Begin(r, kind, step, given) ==
    /\ Receive(r, kind, step)
    /\ arg' = [arg EXCEPT ![r] = given]
    /\ UNCHANGED <<user, role, token, wallet, held>>

(* A read: the handler goes on, or ends. *)
Look(r, step) == Goto(r, step) /\ UNCHANGED accVars

SaveUser(a, new) ==
    /\ user' = [user EXCEPT ![a] = new]
    /\ held' = [held EXCEPT ![new.email] = @ \cup {a}]
    /\ UNCHANGED <<role, token, wallet, arg>>

(* findOneAndUpdate by e-mail finds the account that has the address by now;  *)
(* without one, or by the id of an account deleted since, NotFoundException.  *)
NoneByEmail(r) == ~ EmailTaken(arg[r].email) /\ Look(r, "failed")
NoneById(r)    == ~ user[arg[r].acct].live /\ Look(r, "failed")

--------------------------------------------------------------------------------
(* register, googleSignUp *)

Register(r, kind, app, e) ==
    /\ ~ EmailTaken(e)
    /\ Begin(r, kind, "create", [NoArg EXCEPT !.email = e, !.type = app])

RegisterPassenger(r, e) == Register(r, "register", "PASSENGER", e)
RegisterDriver(r, e)    == Register(r, "register", "DRIVER", e)

GooglePassenger(r, e) == Register(r, "google", "PASSENGER", e)
GoogleDriver(r, e)    == Register(r, "google", "DRIVER", e)

(* Google has confirmed the address; the others are sent a code. *)
NewUser(r) ==
    [NoUser EXCEPT !.live = TRUE, !.email = arg[r].email, !.type = arg[r].type, !.password = r,
                   !.google = (op[r] = "google"), !.confirmed = (op[r] = "google"),
                   !.code = IF op[r] = "register" THEN r ELSE Nobody]

(* Mutant: nothing but the read before it keeps the addresses apart. *)
CreateUserUnindexed(r) ==
    /\ At(r, "create")
    /\ SaveUser(r, NewUser(r))
    /\ Goto(r, "done")

(* The unique index decides. *)
CreateUser(r) ==
    /\ At(r, "create")
    /\ IF EmailTaken(arg[r].email)
         THEN Look(r, "failed")
         ELSE SaveUser(r, NewUser(r)) /\ Goto(r, "done")

--------------------------------------------------------------------------------
(* login: verifyLocalUser reads the account of this application and compares  *)
(* the password; an address not yet confirmed is sent a new code.             *)

(* Mutant: a token before the address is confirmed. *)
LoginStepUnconfirmed(a) == "findToken"

LoginStep(a) == IF user[a].confirmed THEN "findToken" ELSE "sendCode"

LoginTo(r, kind, a) ==
    Begin(r, kind, LoginStep(a), [NoArg EXCEPT !.acct = a, !.type = user[a].type])

Login(r, type, google, e) ==
    \E a \in Accounts :
        Has(a, e) /\ user[a].type = type /\ user[a].google = google /\ LoginTo(r, "login", a)

LoginPassenger(r, e)  == Login(r, "PASSENGER", FALSE, e)
LoginDriver(r, e)     == Login(r, "DRIVER", FALSE, e)
SignInPassenger(r, e) == Login(r, "PASSENGER", TRUE, e)
SignInDriver(r, e)    == Login(r, "DRIVER", TRUE, e)

(* The administrators' application looks at the type after the token only. *)
LoginAdmin(r, e) == \E a \in Accounts : Has(a, e) /\ LoginTo(r, "adminLogin", a)

(* The token the code is sent with has the address, and the type, of the      *)
(* account that was updated.                                                  *)
StoreCode(r, a) ==
    /\ user' = [user EXCEPT ![a].code = r]
    /\ arg' = [arg EXCEPT ![r].acct = a, ![r].email = user[a].email, ![r].type = user[a].type]
    /\ Goto(r, "done")
    /\ UNCHANGED <<role, token, wallet, held>>

SendCode(r) ==
    /\ At(r, "sendCode")
    /\ \/ NoneById(r)
       \/ user[arg[r].acct].live /\ StoreCode(r, arg[r].acct)

(* generateRefreshToken: a token that has not expired is used again. *)
AfterToken(r) ==
    CASE op[r] = "verify"  -> "confirm"
      [] op[r] = "login"   -> IF arg[r].type = "DRIVER" THEN "findWallet" ELSE "done"
      [] OTHER             -> CASE arg[r].type = "SUPER_ADMIN" -> "ownWallet"
                                [] arg[r].type = "ADMIN"       -> "done"
                                [] OTHER                       -> "failed"

FindToken(r) ==
    /\ At(r, "findToken")
    /\ \/ Look(r, "saveToken")
       \/ /\ \E q \in Requests : token[q] = arg[r].acct
          /\ Look(r, AfterToken(r))

(* Mutant: the token is saved for the address, not for the account. *)
SaveTokenByEmail(r) ==
    /\ At(r, "saveToken")
    /\ token' = [token EXCEPT ![r] = user[arg[r].acct].email]
    /\ Goto(r, AfterToken(r))
    /\ UNCHANGED <<user, role, wallet, held, arg>>

SaveToken(r) ==
    /\ At(r, "saveToken")
    /\ token' = [token EXCEPT ![r] = arg[r].acct]
    /\ Goto(r, AfterToken(r))
    /\ UNCHANGED <<user, role, wallet, held, arg>>

(* createWallet of the driver's login asks for the administrator's wallet. *)
FindAdminWallet(r) ==
    /\ At(r, "findWallet")
    /\ Look(r, IF SuperWallet THEN "done" ELSE "saveWallet")

FindOwnWallet(r) ==
    /\ At(r, "ownWallet")
    /\ Look(r, IF arg[r].acct \in wallet THEN "done" ELSE "saveWallet")

(* wallet.user is unique. *)
SaveWallet(r) ==
    /\ At(r, "saveWallet")
    /\ wallet' = wallet \cup {arg[r].acct}
    /\ Goto(r, IF arg[r].acct \in wallet THEN "failed" ELSE "done")
    /\ UNCHANGED <<user, role, token, held, arg>>

--------------------------------------------------------------------------------
(* verifyUserOtp, resendOtp *)

(* A code reaches its address once the request that wrote it is over: the     *)
(* listeners mail it.  The administrators' login says so and mails nothing.   *)
Mailed(c) ==
    /\ At(c, "done")
    /\ op[c] \in {"register", "login", "resend", "forgot"}

Accepts(a, c) == ~ user[a].confirmed /\ user[a].code = c

(* Mutant: the type in the token is not looked at. *)
VerifyOfAnyType(r, app, c) ==
    /\ Mailed(c) /\ op[c] /= "forgot"
    /\ \E a \in Accounts :
         /\ Has(a, arg[c].email) /\ Accepts(a, c)
         /\ Begin(r, "verify", "findToken",
                  [NoArg EXCEPT !.acct = a, !.email = arg[c].email, !.type = app, !.code = c])

(* The e-mail is that of the token the code was sent with, to the application *)
(* the token is for.                                                          *)
VerifyUserOtp(r, app, c) ==
    /\ Mailed(c) /\ op[c] /= "forgot" /\ arg[c].type = app
    /\ \E a \in Accounts :
         /\ Has(a, arg[c].email) /\ Accepts(a, c)
         /\ Begin(r, "verify", "findToken",
                  [NoArg EXCEPT !.acct = a, !.email = arg[c].email, !.type = arg[c].type, !.code = c])

VerifyPassenger(r, c) == VerifyUserOtp(r, "PASSENGER", c)
VerifyDriver(r, c)    == VerifyUserOtp(r, "DRIVER", c)

Confirm(r) ==
    /\ At(r, "confirm")
    /\ \/ NoneByEmail(r)
       \/ \E a \in Accounts :
            /\ Has(a, arg[r].email)
            /\ SaveUser(a, [user[a] EXCEPT !.confirmed = TRUE])
            /\ Goto(r, "done")

ResendOtp(r, e) ==
    /\ \E a \in Accounts : Has(a, e) /\ ~ user[a].confirmed
    /\ Begin(r, "resend", "saveCode", [NoArg EXCEPT !.email = e])

SaveCode(r) ==
    /\ At(r, "saveCode")
    /\ \/ NoneByEmail(r)
       \/ \E a \in Accounts : Has(a, arg[r].email) /\ StoreCode(r, a)

--------------------------------------------------------------------------------
(* forgotPassword of each application, resetPassword, changePassword *)

(* The code may be asked for, and used, in any of the three applications; the  *)
(* administrators' asks for an administrator when it reads, not when it writes. *)
ForgotPassword(r, types, e) ==
    /\ \E a \in Accounts : Has(a, e) /\ user[a].type \in types
    /\ Begin(r, "forgot", "saveReset", [NoArg EXCEPT !.email = e])

ForgotUser(r, e)  == ForgotPassword(r, Apps \cup Admins, e)
ForgotAdmin(r, e) == ForgotPassword(r, Admins, e)

SaveReset(r) ==
    /\ At(r, "saveReset")
    /\ \/ NoneByEmail(r)
       \/ \E a \in Accounts :
            /\ Has(a, arg[r].email)
            /\ user' = [user EXCEPT ![a].reset = r]
            /\ arg' = [arg EXCEPT ![r].acct = a]
            /\ Goto(r, "done")
            /\ UNCHANGED <<role, token, wallet, held>>

(* Mutant: any account whose reset is pending will do. *)
CodeMatchesAny(a, c) == user[a].reset /= Nobody

CodeMatches(a, c) == user[a].reset = c

(* With the address of the account the code is stored in. *)
ResetPassword(r, c) ==
    /\ Mailed(c) /\ op[c] = "forgot"
    /\ \E a \in Accounts :
         /\ user[a].live /\ CodeMatches(a, c)
         /\ Begin(r, "reset", "resetPassword",
                  [NoArg EXCEPT !.acct = a, !.email = user[a].email, !.code = c])

WriteReset(r) ==
    /\ At(r, "resetPassword")
    /\ \/ NoneByEmail(r)
       \/ \E a \in Accounts :
            /\ Has(a, arg[r].email)
            /\ SaveUser(a, [user[a] EXCEPT !.password = r, !.reset = Nobody])
            /\ Goto(r, "done")

(* The current password is compared with the one read here. *)
ChangePasswordOf(r, a) == Begin(r, "changePassword", "savePassword", [NoArg EXCEPT !.acct = a])

ChangePassword(r, a)      == SignedIn(a) /\ user[a].type \in Apps /\ ChangePasswordOf(r, a)
ChangeAdminPassword(r, a) == SignedIn(a) /\ user[a].type \in Admins /\ ChangePasswordOf(r, a)

SavePassword(r) ==
    /\ At(r, "savePassword")
    /\ \/ NoneById(r)
       \/ /\ user[arg[r].acct].live
          /\ SaveUser(arg[r].acct, [user[arg[r].acct] EXCEPT !.password = r])
          /\ Goto(r, "done")

--------------------------------------------------------------------------------
(* The administrators' own profile, and the accounts of administrators, that  *)
(* the super administrator creates, changes and deletes.                      *)

UpdateProfile(r, a, e) ==
    /\ SignedIn(a) /\ user[a].type \in Admins /\ user[a].email /= e
    /\ Begin(r, "updateProfile", "checkEmail", [NoArg EXCEPT !.acct = a, !.email = e])

CreateAdminUser(r, e, i) ==
    /\ ~ EmailTaken(e)
    /\ Begin(r, "createAdmin", "checkRole", [NoArg EXCEPT !.email = e, !.role = i])

(* One field at a time: the e-mail, the role, the password or isActive. *)
UpdateAdminEmail(r, a, e) ==
    /\ user[a].live /\ user[a].type = "ADMIN" /\ user[a].email /= e
    /\ Begin(r, "updateAdmin", "checkEmail", [NoArg EXCEPT !.acct = a, !.email = e])

UpdateAdminRole(r, a, i) ==
    /\ user[a].live /\ user[a].type = "ADMIN"
    /\ Begin(r, "setRole", "checkRole", [NoArg EXCEPT !.acct = a, !.role = i])

UpdateAdminPassword(r, a) ==
    /\ user[a].live /\ user[a].type = "ADMIN"
    /\ Begin(r, "setPassword", "savePassword", [NoArg EXCEPT !.acct = a])

(* isActive: of an administrator, a passenger or a driver, read with its type. *)
UpdateStatus(r, type, a, active) ==
    /\ user[a].live /\ user[a].type = type
    /\ Begin(r, "setStatus", "saveStatus", [NoArg EXCEPT !.acct = a, !.flag = active])

UpdateAdminStatus(r, a, active)     == UpdateStatus(r, "ADMIN", a, active)
UpdatePassengerStatus(r, a, active) == UpdateStatus(r, "PASSENGER", a, active)
UpdateDriverAccount(r, a, active)   == UpdateStatus(r, "DRIVER", a, active)

CheckEmail(r) ==
    /\ At(r, "checkEmail")
    /\ Look(r, IF EmailTaken(arg[r].email) THEN "failed" ELSE "saveEmail")

CheckRole(r) ==
    /\ At(r, "checkRole")
    /\ Look(r, IF role[arg[r].role].state /= "active" THEN "failed"
               ELSE IF op[r] = "createAdmin" THEN "createAdmin" ELSE "saveRole")

CreateAdmin(r) ==
    /\ At(r, "createAdmin")
    /\ IF EmailTaken(arg[r].email)
         THEN Look(r, "failed")
         ELSE /\ SaveUser(r, [NoUser EXCEPT !.live = TRUE, !.email = arg[r].email, !.type = "ADMIN",
                                            !.password = r, !.confirmed = TRUE, !.role = arg[r].role])
              /\ Goto(r, "done")

(* A profile's new address is not confirmed; the super administrator's        *)
(* change leaves the confirmation as it is.                                   *)
SaveEmail(r) ==
    /\ At(r, "saveEmail")
    /\ LET a == arg[r].acct IN
       IF ~ user[a].live \/ \E b \in Accounts \ {a} : Has(b, arg[r].email)
         THEN Look(r, "failed")
         ELSE /\ SaveUser(a, [user[a] EXCEPT !.email = arg[r].email,
                                             !.confirmed = @ /\ op[r] /= "updateProfile"])
              /\ Goto(r, "done")

SaveRole(r) ==
    /\ At(r, "saveRole")
    /\ \/ NoneById(r)
       \/ /\ user[arg[r].acct].live
          /\ SaveUser(arg[r].acct, [user[arg[r].acct] EXCEPT !.role = arg[r].role])
          /\ Goto(r, "done")

SaveStatus(r) ==
    /\ At(r, "saveStatus")
    /\ \/ NoneById(r)
       \/ /\ user[arg[r].acct].live
          /\ SaveUser(arg[r].acct, [user[arg[r].acct] EXCEPT !.active = arg[r].flag])
          /\ Goto(r, "done")

DeleteUser(r, a) ==
    /\ user[a].live /\ user[a].type = "ADMIN"
    /\ Begin(r, "deleteAdmin", "dropUser", [NoArg EXCEPT !.acct = a])

DropUser(r) ==
    /\ At(r, "dropUser")
    /\ \/ NoneById(r)
       \/ /\ user[arg[r].acct].live
          /\ SaveUser(arg[r].acct, [user[arg[r].acct] EXCEPT !.live = FALSE])
          /\ Goto(r, "done")

--------------------------------------------------------------------------------
(* Roles.  The role a super administrator has is the system's own. *)

CreateRole(r, n) ==
    /\ ~ NameTaken(n)
    /\ Begin(r, "createRole", "createRole", [NoArg EXCEPT !.name = n])

SetRole(i, new) == role' = [role EXCEPT ![i] = new] /\ UNCHANGED <<user, token, wallet, held, arg>>

SaveNewRole(r) ==
    /\ At(r, "createRole")
    /\ IF NameTaken(arg[r].name)
         THEN Look(r, "failed")
         ELSE SetRole(r, [name |-> arg[r].name, state |-> "active"]) /\ Goto(r, "done")

(* Renamed to n, or (de)activated when n is its name already. *)
UpdateRole(r, i, n, active) ==
    /\ RoleExists(i) /\ i /= Super
    /\ n /= role[i].name => ~ NameTaken(n)
    /\ Begin(r, "updateRole", "updateRole", [NoArg EXCEPT !.role = i, !.name = n, !.flag = active])

SaveRoleUpdate(r) ==
    /\ At(r, "updateRole")
    /\ LET i == arg[r].role IN
       IF ~ RoleExists(i) \/ \E j \in Accounts \ {i} : RoleExists(j) /\ role[j].name = arg[r].name
         THEN Look(r, "failed")
         ELSE /\ SetRole(i, [name |-> arg[r].name,
                             state |-> IF arg[r].flag THEN "active" ELSE "inactive"])
              /\ Goto(r, "done")

RemoveRole(r, i) ==
    /\ RoleExists(i) /\ i /= Super
    /\ Begin(r, "removeRole", "countUsers", [NoArg EXCEPT !.role = i])

CountUsers(r) ==
    /\ At(r, "countUsers")
    /\ Look(r, IF \E a \in Accounts : user[a].live /\ user[a].role = arg[r].role
                 THEN "failed" ELSE "dropRole")

DropRole(r) ==
    /\ At(r, "dropRole")
    /\ IF RoleExists(arg[r].role)
         THEN SetRole(arg[r].role, [role[arg[r].role] EXCEPT !.state = "gone"]) /\ Goto(r, "done")
         ELSE Look(r, "failed")

--------------------------------------------------------------------------------
PassengerAuthRoutes(r, e) ==
    \/ RegisterPassenger(r, e) \/ GooglePassenger(r, e) \/ LoginPassenger(r, e)
    \/ SignInPassenger(r, e) \/ ResendOtp(r, e) \/ ForgotUser(r, e)

DriverAuthRoutes(r, e) ==
    \/ RegisterDriver(r, e) \/ GoogleDriver(r, e) \/ LoginDriver(r, e)
    \/ SignInDriver(r, e) \/ ResendOtp(r, e) \/ ForgotUser(r, e)

AdminAuthRoutes(r, e) == LoginAdmin(r, e) \/ ForgotAdmin(r, e)

CodeRoutes(r, c) == VerifyPassenger(r, c) \/ VerifyDriver(r, c) \/ ResetPassword(r, c)

ProfileRoutes(r, a) ==
    ChangePassword(r, a) \/ ChangeAdminPassword(r, a) \/ \E e \in Emails : UpdateProfile(r, a, e)

UserRoutes(r) ==
    \/ \E e \in Emails, i \in Accounts : CreateAdminUser(r, e, i)
    \/ \E a \in Accounts : \/ UpdateAdminPassword(r, a) \/ DeleteUser(r, a)
                           \/ \E e \in Emails : UpdateAdminEmail(r, a, e)
                           \/ \E i \in Accounts : UpdateAdminRole(r, a, i)
                           \/ \E active \in BOOLEAN : UpdateAdminStatus(r, a, active)

StatusRoutes(r, a) ==
    \E active \in BOOLEAN : UpdatePassengerStatus(r, a, active) \/ UpdateDriverAccount(r, a, active)

RoleRoutes(r) ==
    \/ \E n \in RoleNames : CreateRole(r, n)
    \/ \E i \in Accounts : \/ RemoveRole(r, i)
                           \/ \E n \in RoleNames, active \in BOOLEAN : UpdateRole(r, i, n, active)

AccReceive(r) ==
    /\ IsTurnOf(r)
    /\ \/ \E e \in Emails : PassengerAuthRoutes(r, e) \/ DriverAuthRoutes(r, e) \/ AdminAuthRoutes(r, e)
       \/ \E c \in Requests : CodeRoutes(r, c)
       \/ \E a \in Accounts : ProfileRoutes(r, a) \/ StatusRoutes(r, a)
       \/ UserRoutes(r) \/ RoleRoutes(r)

AccStep(r) ==
    \/ CreateUser(r) \/ SendCode(r) \/ FindToken(r) \/ SaveToken(r) \/ FindAdminWallet(r)
    \/ FindOwnWallet(r) \/ SaveWallet(r) \/ Confirm(r) \/ SaveCode(r) \/ SaveReset(r)
    \/ WriteReset(r) \/ SavePassword(r) \/ CheckEmail(r) \/ CheckRole(r) \/ CreateAdmin(r)
    \/ SaveEmail(r) \/ SaveRole(r) \/ SaveStatus(r) \/ DropUser(r) \/ SaveNewRole(r)
    \/ SaveRoleUpdate(r) \/ CountUsers(r) \/ DropRole(r)

AccNext ==
    \/ \E r \in Requests : AccReceive(r) \/ AccStep(r)
    \/ Stop /\ UNCHANGED accVars

AccSpec == AccInit /\ [][AccNext]_allAccVars

--------------------------------------------------------------------------------
AccOps == {"register", "google", "login", "adminLogin", "verify", "resend", "forgot", "reset",
           "changePassword", "updateProfile", "createAdmin", "updateAdmin", "setRole",
           "setPassword", "setStatus", "deleteAdmin", "createRole", "updateRole", "removeRole"}

AccSteps == {"create", "sendCode", "findToken", "saveToken", "findWallet", "ownWallet",
             "saveWallet", "confirm", "saveCode", "saveReset", "resetPassword", "savePassword",
             "checkEmail", "checkRole", "createAdmin", "saveEmail", "saveRole", "saveStatus",
             "dropUser", "createRole", "updateRole", "countUsers", "dropRole"}

(* The variables have their types. *)
AccTypeOK ==
    /\ user \in [Accounts -> User]
    /\ role \in [Accounts -> RoleDoc]
    /\ token \in [Requests -> Accounts \cup {Nobody}]
    /\ wallet \subseteq Accounts
    /\ held \in [Emails -> SUBSET Accounts]
    /\ arg \in [Requests -> Arg]
    /\ op \in [Requests -> AccOps \cup {"none"}]
    /\ at \in [Requests -> AccSteps \cup Finished \cup {"idle"}]
    /\ stops \in 0..MaxStops

(* What the applications make of the two unique indexes: each account's        *)
(* address, and each role's name, as a directory has them.                     *)
Addresses ==
    [a \in Accounts |-> IF user[a].live THEN user[a].email
                        ELSE IF \E e \in Emails : a \in held[e] THEN "gone" ELSE "none"]

RoleTitles ==
    [i \in Accounts |-> IF RoleExists(i) THEN role[i].name ELSE role[i].state]

AddressBook == INSTANCE Directory WITH
    Holders <- Accounts, Names <- Emails, None <- "none", Gone <- "gone", name <- Addresses

RoleBook == INSTANCE Directory WITH
    Holders <- Accounts, Names <- RoleNames, None <- "none", Gone <- "gone", name <- RoleTitles

(* No two accounts share an address and no two roles a name, whichever of the  *)
(* handlers that look first and write later go on at the same time:            *)
(* registration, Google, a new administrator, a changed profile, a new role.   *)
(* Every step takes, changes or gives up one name that is free; a deleted      *)
(* account or role never comes back, though a handler that read it goes on.    *)
NamesAreDirectories == AddressBook!Spec /\ RoleBook!Spec

(* The account a code was written for. *)
WrittenFor(c) == IF op[c] = "register" THEN c ELSE arg[c].acct

(* verifyUserOtp finds the account by e-mail twice, with the tokens created in *)
(* between: what it confirms is the account whose code it compared, and that   *)
(* code was written for it and sent to a passenger or a driver.  So an         *)
(* administrator who changed the address of a profile is never confirmed.      *)
ConfirmedByCode ==
    [][\A a \in Accounts :
         user[a].live /\ ~ user[a].confirmed /\ user'[a].confirmed =>
           /\ user[a].type \in Apps
           /\ \E r \in Requests : /\ At(r, "confirm") /\ at'[r] = "done"
                                   /\ arg[r].acct = a /\ WrittenFor(arg[r].code) = a
      ]_allAccVars

(* A password set by a reset: of the account the presented code was written    *)
(* for, unless the address has passed to another account since.                *)
ResetOfOwnAccount ==
    \A a \in Accounts : \A r \in Requests :
        user[a].password = r /\ op[r] = "reset" =>
            WrittenFor(arg[r].code) = a \/ Cardinality(held[arg[r].email]) > 1

(* A refresh token of a passenger or a driver: the address is confirmed, or    *)
(* the code of that account has been presented.  verifyUserOtp writes the      *)
(* token first.                                                                *)
TokenOfProvenAddress ==
    \A r \in Requests :
        token[r] /= Nobody /\ user[token[r]].type \in Apps =>
            \/ user[token[r]].confirmed
            \/ op[r] = "verify" /\ WrittenFor(arg[r].code) = token[r]
================================================================================
