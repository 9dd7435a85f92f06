------------------------------- MODULE Accounts -------------------------------
(***************************************************************************)
(* Accounts and their tokens: AuthController (register, login, logout,     *)
(* profile) and the administrator's (de)activateUser.  One action is one   *)
(* statement the database sees:                                            *)
(*                                                                         *)
(*   idle        the first one: the rule unique:users,email (register), the*)
(*               SELECT of the user (login), the token (everything else)   *)
(*   inserting   User::create                                              *)
(*   issuing     createToken                                               *)
(*   leaving     tokens()->delete()                                        *)
(*   editing     $user->update of the profile                              *)
(*   binding     the SELECT of {user} when the route is bound              *)
(*   switching   $user->update of is_active                                *)
(*                                                                         *)
(* None of them runs in a transaction.  An account is named by its address,*)
(* which no code changes, and a token by the request it was issued to.     *)
(* Requests without a token, and 'me', write nothing and are left out.     *)
(***************************************************************************)
EXTENDS FiniteSets

CONSTANTS
  Requests,          \* requests to the API
  Emails,            \* addresses people register and log in with
  Admin,             \* the address of the administrator the seeder creates
  Passwords,         \* passwords people may send
  Profiles,          \* contents of phone, address, city, ...
  Unset,             \* all of them null
  None,              \* the password of an address without an account
  TokenSupport,      \* what 'hasTokens' may be
  AbilitiesDefined   \* is 'isAdmin' an ability of the gate?  As committed it
                     \* is not: no Gate::define, and authorize denies

ASSUME AdminAssumption == Admin \in Emails

ASSUME ValuesAssumption ==
  None \notin Passwords /\ Unset \in Profiles /\ Profiles \cap BOOLEAN = {}

ASSUME SwitchesAssumption ==
  TokenSupport \subseteq BOOLEAN /\ AbilitiesDefined \in BOOLEAN

VARIABLES
  hasTokens,  \* can users hold tokens?  User does not use HasApiTokens, so
              \* as committed createToken throws.  It does not change
  password,   \* users.password, None without a row
  active,     \* users.is_active
  profile,    \* users.phone, address, ...
  tokens,     \* the rows of personal_access_tokens
  pc,         \* where each request is
  email,      \* the address it sent, or that of its token's account
  secret,     \* the password it sent, or None
  target,     \* the account its route is about
  wanted,     \* what it wants to write: a profile, or is_active
  loaded,     \* the model it has loaded
  reply       \* how it was answered

users == <<password, active, profile>>
sent  == <<email, secret, target, wanted, loaded>>
vars  == <<hasTokens, users, tokens, pc, sent, reply>>

Phases  == {"idle", "inserting", "issuing", "leaving", "editing", "binding",
            "switching", "answered"}
Replies == {"none", "token", "unissued", "taken", "clash", "incorrect",
            "deactivated", "unauthenticated", "loggedout", "updated",
            "forbidden", "switched"}
Model   == [active : BOOLEAN, profile : Profiles]

TypeOK ==
  /\ hasTokens \in TokenSupport
  /\ password \in [Emails -> Passwords \cup {None}]
  /\ active \in [Emails -> BOOLEAN]
  /\ profile \in [Emails -> Profiles]
  /\ tokens \subseteq Requests
  /\ pc \in [Requests -> Phases]
  /\ email \in [Requests -> Emails]
  /\ secret \in [Requests -> Passwords \cup {None}]
  /\ target \in [Requests -> Emails]
  /\ wanted \in [Requests -> Profiles \cup BOOLEAN]
  /\ loaded \in [Requests -> Model]
  /\ reply \in [Requests -> Replies]

(* The seeder has run.  What a request has not sent or loaded yet is set to *)
(* anything.                                                                *)
Init ==
  /\ hasTokens \in TokenSupport
  /\ \E p \in Passwords :
       password = [e \in Emails |-> IF e = Admin THEN p ELSE None]
  /\ active = [e \in Emails |-> TRUE]
  /\ profile = [e \in Emails |-> Unset]
  /\ tokens = {}
  /\ pc = [r \in Requests |-> "idle"]
  /\ email = [r \in Requests |-> Admin]
  /\ secret = [r \in Requests |-> None]
  /\ target = [r \in Requests |-> Admin]
  /\ wanted = [r \in Requests |-> Unset]
  /\ loaded = [r \in Requests |-> [active |-> TRUE, profile |-> Unset]]
  /\ reply = [r \in Requests |-> "none"]

-------------------------------------------------------------------------------
Advance(r, phase) ==
  /\ pc' = [pc EXCEPT ![r] = phase]
  /\ UNCHANGED <<hasTokens, reply>>

Answer(r, why) ==
  /\ pc' = [pc EXCEPT ![r] = "answered"]
  /\ reply' = [reply EXCEPT ![r] = why]
  /\ UNCHANGED hasTokens

Registered(e) == password[e] # None

(* The row of account e as a model. *)
Row(e) == [active |-> active[e], profile |-> profile[e]]

-------------------------------------------------------------------------------
(* Registration and login. *)

SendCredentials(r, e, p) ==
  /\ pc[r] = "idle"
  /\ email' = [email EXCEPT ![r] = e]
  /\ secret' = [secret EXCEPT ![r] = p]
  /\ UNCHANGED <<users, tokens, target, loaded>>

(* POST /auth/register: unique:users,email *)
Register(r, e, p) ==
  /\ SendCredentials(r, e, p)
  /\ ~Registered(e)
  /\ \E f \in Profiles : wanted' = [wanted EXCEPT ![r] = f]
  /\ Advance(r, "inserting")

RefuseRegister(r, e, p) ==
  /\ SendCredentials(r, e, p)
  /\ Registered(e)
  /\ UNCHANGED wanted
  /\ Answer(r, "taken")

(* A bug: updateOrCreate by address. *)
InsertOrUpdate(r) ==
  /\ pc[r] = "inserting"
  /\ password' = [password EXCEPT ![email[r]] = secret[r]]
  /\ active' = [active EXCEPT ![email[r]] = TRUE]
  /\ profile' = [profile EXCEPT ![email[r]] = wanted[r]]
  /\ Advance(r, "issuing")
  /\ UNCHANGED <<tokens, sent>>

(* User::create: the row is there from now on, whatever comes after. *)
InsertUser(r) ==
  /\ pc[r] = "inserting"
  /\ ~Registered(email[r])
  /\ password' = [password EXCEPT ![email[r]] = secret[r]]
  /\ active' = [active EXCEPT ![email[r]] = TRUE]
  /\ profile' = [profile EXCEPT ![email[r]] = wanted[r]]
  /\ Advance(r, "issuing")
  /\ UNCHANGED <<tokens, sent>>

(* The unique index throws, and nobody catches: 500. *)
FailInsert(r) ==
  /\ pc[r] = "inserting"
  /\ Registered(email[r])
  /\ Answer(r, "clash")
  /\ UNCHANGED <<users, tokens, sent>>

(* A bug: look at is_active where a failed login is reported, not before a  *)
(* token is made.                                                           *)
LoginUnlooked(r, e, p) ==
  /\ SendCredentials(r, e, p)
  /\ password[e] = p
  /\ UNCHANGED wanted
  /\ Advance(r, "issuing")

(* POST /auth/login: the user is read once, with password and is_active. *)
Login(r, e, p) ==
  /\ SendCredentials(r, e, p)
  /\ password[e] = p
  /\ active[e]
  /\ UNCHANGED wanted
  /\ Advance(r, "issuing")

RefuseLogin(r, e, p) ==
  /\ SendCredentials(r, e, p)
  /\ UNCHANGED wanted
  /\ \/ password[e] # p /\ Answer(r, "incorrect")
     \/ password[e] = p /\ ~active[e] /\ Answer(r, "deactivated")

CreateToken(r) ==
  /\ pc[r] = "issuing"
  /\ hasTokens
  /\ tokens' = tokens \cup {r}
  /\ Answer(r, "token")
  /\ UNCHANGED <<users, sent>>

(* createToken is undefined: 500, after what register has inserted. *)
FailToken(r) ==
  /\ pc[r] = "issuing"
  /\ ~hasTokens
  /\ Answer(r, "unissued")
  /\ UNCHANGED <<users, tokens, sent>>

-------------------------------------------------------------------------------
(* Requests with a token.  auth:sanctum finds it and loads its user, and    *)
(* does not look at is_active.                                              *)

Present(r, t) ==
  /\ pc[r] = "idle"
  /\ reply[t] = "token"
  /\ email' = [email EXCEPT ![r] = email[t]]
  /\ loaded' = [loaded EXCEPT ![r] = Row(email[t])]
  /\ UNCHANGED <<users, tokens, secret>>

(* POST /auth/logout *)
BeginLogout(r, t) ==
  /\ Present(r, t)
  /\ t \in tokens
  /\ Advance(r, "leaving")
  /\ UNCHANGED <<target, wanted>>

(* PUT /auth/profile *)
BeginEdit(r, t) ==
  /\ Present(r, t)
  /\ t \in tokens
  /\ \E f \in Profiles : wanted' = [wanted EXCEPT ![r] = f]
  /\ Advance(r, "editing")
  /\ UNCHANGED target

(* POST /admin/users/{user}/activate and deactivate *)
BeginSwitch(r, t) ==
  /\ Present(r, t)
  /\ t \in tokens
  /\ \E e \in Emails : Registered(e) /\ target' = [target EXCEPT ![r] = e]
  /\ \E b \in BOOLEAN : wanted' = [wanted EXCEPT ![r] = b]
  /\ Advance(r, "binding")

(* 401: the token is gone. *)
Unauthenticated(r, t) ==
  /\ Present(r, t)
  /\ t \notin tokens
  /\ Answer(r, "unauthenticated")
  /\ UNCHANGED <<target, wanted>>

(* A bug: delete by type of owner only. *)
LogoutAll(r) ==
  /\ pc[r] = "leaving"
  /\ tokens' = {}
  /\ Answer(r, "loggedout")
  /\ UNCHANGED <<users, sent>>

(* All tokens of the user, one issued a moment ago too. *)
Logout(r) ==
  /\ pc[r] = "leaving"
  /\ tokens' = {t \in tokens : email[t] # email[r]}
  /\ Answer(r, "loggedout")
  /\ UNCHANGED <<users, sent>>

(* A bug: write the whole model back. *)
EditWholeModel(r) ==
  /\ pc[r] = "editing"
  /\ profile' = [profile EXCEPT ![email[r]] = wanted[r]]
  /\ active' = [active EXCEPT ![email[r]] = loaded[r].active]
  /\ Answer(r, "updated")
  /\ UNCHANGED <<password, tokens, sent>>

(* UPDATE of the validated columns that differ from the loaded ones; email, *)
(* role and is_active are fillable, but not validated.                      *)
EditProfile(r) ==
  /\ pc[r] = "editing"
  /\ profile' = IF wanted[r] # loaded[r].profile
                  THEN [profile EXCEPT ![email[r]] = wanted[r]] ELSE profile
  /\ Answer(r, "updated")
  /\ UNCHANGED <<password, active, tokens, sent>>

(* Route binding loads the account to switch. *)
BindUser(r) ==
  /\ pc[r] = "binding"
  /\ loaded' = [loaded EXCEPT ![r] = Row(target[r])]
  /\ Advance(r, "switching")
  /\ UNCHANGED <<users, tokens, email, secret, target, wanted>>

(* The route's role:admin middleware, then authorize('isAdmin'). *)
MayAdminister(r) == email[r] = Admin /\ AbilitiesDefined

ForbidSwitch(r) ==
  /\ pc[r] = "switching"
  /\ ~MayAdminister(r)
  /\ Answer(r, "forbidden")
  /\ UNCHANGED <<users, tokens, sent>>

(* $user->update(['is_active' => ...]): nothing is sent if the model says   *)
(* so already.  Tokens are not looked at.                                   *)
SwitchUser(r) ==
  /\ pc[r] = "switching"
  /\ MayAdminister(r)
  /\ active' = IF wanted[r] # loaded[r].active
                 THEN [active EXCEPT ![target[r]] = wanted[r]] ELSE active
  /\ Answer(r, "switched")
  /\ UNCHANGED <<password, profile, tokens, sent>>

Next ==
  \E r \in Requests :
    \/ \E e \in Emails, p \in Passwords :
         \/ Register(r, e, p) \/ RefuseRegister(r, e, p)
         \/ Login(r, e, p)    \/ RefuseLogin(r, e, p)
    \/ InsertUser(r) \/ FailInsert(r)
    \/ CreateToken(r) \/ FailToken(r)
    \/ \E t \in Requests :
         \/ BeginLogout(r, t) \/ BeginEdit(r, t) \/ BeginSwitch(r, t)
         \/ Unauthenticated(r, t)
    \/ Logout(r) \/ EditProfile(r)
    \/ BindUser(r) \/ ForbidSwitch(r) \/ SwitchUser(r)

Spec == Init /\ [][Next]_vars

-------------------------------------------------------------------------------
(* Properties. *)

(* An account belongs to whoever registered it: a token, and also an error  *)
(* 500 after the row was made, was only given to somebody who sent the      *)
(* password the account has now, however registrations of one address       *)
(* overlap (AuthController.php:19-28, :43-56).                              *)
CredentialsStand ==
  \A r \in Requests :
    r \in tokens \/ reply[r] = "unissued" => secret[r] = password[email[r]]

(* Deactivating an account ends the making of tokens: while it lasts, only  *)
(* logins that had read the account before it still get one                 *)
(* (AuthController.php:50-56).                                              *)
Access(e) == {r \in Requests : /\ email[r] = e
                               /\ pc[r] = "issuing" \/ r \in tokens}

DeactivationStops ==
  [][\A e \in Emails :
       Registered(e) /\ ~active[e] => Access(e)' \subseteq Access(e)]_vars

(* Whether an account is active is decided by administrators only: neither  *)
(* a profile that was loaded before, nor a registration of the same         *)
(* address, undoes it (AuthController.php:91, AdminController.php:57).      *)
OnlyAdminsSwitch ==
  [][\A e \in Emails :
       active'[e] # active[e] =>
         \E r \in Requests : /\ reply[r] # "switched" /\ reply'[r] = "switched"
                             /\ email[r] = Admin]_vars

(* Nobody is logged out by somebody else: a token that was issued and is    *)
(* refused was given up by a logout of the same account                     *)
(* (AuthController.php:70).                                                 *)
OwnLogoutOnly ==
  \A r \in Requests :
    reply[r] = "unauthenticated" =>
      \E s \in Requests : reply[s] = "loggedout" /\ email[s] = email[r]

(* What AuthTest::test_user_can_register expects: who has registered gets a *)
(* token.                                                                   *)
RegistrationsSucceed == \A r \in Requests : reply[r] # "unissued"

===============================================================================
