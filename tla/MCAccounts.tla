------------------------------ MODULE MCAccounts -------------------------------
(* A small instance of Accounts: the super administrator and one administrator, *)
(* and the kinds of request that meet in the collection of users.              *)
EXTENDS Accounts, TLC

CONSTANTS e0, e1, e2, n0, n1, n2, s0, s1

TheEmails == s0 :> e0 @@ s1 :> e1
TheRoles  == s0 :> n0 @@ s1 :> n1

Mix(n, ks) == [upto |-> n, kinds |-> ks]

TheMixes ==
    { Mix(3, {"register", "google", "login", "adminLogin", "verify", "resend"}),
      Mix(4, {"register", "forgot", "reset", "updateProfile"}),
      Mix(3, {"forgot", "reset", "changePassword", "deleteAdmin", "createAdmin"}),
      Mix(3, {"createAdmin", "setRole", "deleteAdmin", "removeRole"}),
      Mix(2, {"createAdmin", "setRole", "createRole", "updateRole", "removeRole"}),
      Mix(2, {"createAdmin", "deleteAdmin", "updateAdmin", "setPassword", "setStatus", "changePassword",
              "updateProfile", "register"}),
      Mix(3, {"updateProfile", "adminLogin", "resend", "verify", "deleteAdmin"}) }
================================================================================
