---------------------------- MODULE AccountsProofs ----------------------------
(***************************************************************************)
(* Theorems about module Accounts, for any addresses, passwords, profiles  *)
(* and number of overlapping requests, with and without HasApiTokens and   *)
(* the gate's ability.                                                     *)
(***************************************************************************)
EXTENDS Accounts, TLAPS

(* What a request carries fits the phase it is in. *)
Carried ==
  \A r \in Requests :
    /\ pc[r] \in {"inserting", "editing"} => wanted[r] \in Profiles
    /\ pc[r] \in {"inserting", "issuing"} => secret[r] \in Passwords
    /\ pc[r] \in {"binding", "switching"} =>
         wanted[r] \in BOOLEAN /\ Registered(target[r])

LEMMA TypeInit == Init => TypeOK /\ Carried
BY AdminAssumption, ValuesAssumption
   DEF Init, TypeOK, Carried, Phases, Replies, Model

LEMMA TypeStep == TypeOK /\ Carried /\ [Next]_vars => TypeOK' /\ Carried'
<1> SUFFICES ASSUME TypeOK, Carried, [Next]_vars
             PROVE  TypeOK' /\ Carried'
  OBVIOUS
<1> USE DEF TypeOK, Carried, Phases, Replies, users, sent, Registered
<1>1. ASSUME NEW r \in Requests, NEW e \in Emails, NEW p \in Passwords,
             \/ Register(r, e, p) \/ RefuseRegister(r, e, p)
             \/ Login(r, e, p)    \/ RefuseLogin(r, e, p)
      PROVE  TypeOK' /\ Carried'
  BY <1>1 DEF Register, RefuseRegister, Login, RefuseLogin, SendCredentials,
              Advance, Answer
<1>2. ASSUME NEW r \in Requests, InsertUser(r)
      PROVE  TypeOK' /\ Carried'
  BY <1>2, ValuesAssumption DEF InsertUser, Advance
<1>3. ASSUME NEW r \in Requests,
             FailInsert(r) \/ CreateToken(r) \/ FailToken(r) \/ Logout(r)
      PROVE  TypeOK' /\ Carried'
  BY <1>3 DEF FailInsert, CreateToken, FailToken, Logout, Answer
<1>4. ASSUME NEW r \in Requests, NEW t \in Requests,
             \/ BeginLogout(r, t) \/ BeginEdit(r, t) \/ BeginSwitch(r, t)
             \/ Unauthenticated(r, t)
      PROVE  TypeOK' /\ Carried'
  <2>1. Row(email[t]) \in Model
    BY DEF Row, Model
  <2>2. CASE BeginLogout(r, t) \/ Unauthenticated(r, t)
    BY <2>1, <2>2 DEF BeginLogout, Unauthenticated, Present, Advance, Answer
  <2>3. CASE BeginEdit(r, t)
    BY <2>1, <2>3 DEF BeginEdit, Present, Advance
  <2>4. CASE BeginSwitch(r, t)
    BY <2>1, <2>4 DEF BeginSwitch, Present, Advance
  <2> QED
    BY <1>4, <2>2, <2>3, <2>4
<1>5. ASSUME NEW r \in Requests, BindUser(r)
      PROVE  TypeOK' /\ Carried'
  <2>1. Row(target[r]) \in Model
    BY DEF Row, Model
  <2> QED
    BY <1>5, <2>1 DEF BindUser, Advance
<1>6. ASSUME NEW r \in Requests, EditProfile(r) \/ ForbidSwitch(r) \/ SwitchUser(r)
      PROVE  TypeOK' /\ Carried'
  BY <1>6 DEF EditProfile, ForbidSwitch, SwitchUser, Answer
<1>7. CASE UNCHANGED vars
  BY <1>7 DEF vars
<1> QED
  BY <1>1, <1>2, <1>3, <1>4, <1>5, <1>6, <1>7 DEF Next

LEMMA AlwaysCarried == Spec => [](TypeOK /\ Carried)
BY TypeInit, TypeStep, PTL DEF Spec

(* Accounts, tokens and requests keep their types. *)
THEOREM TypeCorrect == Spec => []TypeOK
BY AlwaysCarried, PTL

-------------------------------------------------------------------------------
(* Answers come last, and whoever has a token, is about to get one, or was  *)
(* answered as if, knows the password of the account.                       *)
Knows(r) == secret[r] # None /\ secret[r] = password[email[r]]

Owned ==
  \A r \in Requests :
    /\ pc[r] = "answered" <=> reply[r] # "none"
    /\ r \in tokens => reply[r] = "token"
    /\ pc[r] = "issuing" \/ reply[r] \in {"token", "unissued"} => Knows(r)

(* An account that has a password keeps it. *)
LEMMA PasswordsStay ==
  ASSUME TypeOK, [Next]_vars, NEW e \in Emails, Registered(e)
  PROVE  password'[e] = password[e]
BY DEF TypeOK, Next, vars, users, Registered, SendCredentials, Present,
       Register, RefuseRegister, Login, RefuseLogin, InsertUser, FailInsert,
       CreateToken, FailToken, BeginLogout, BeginEdit, BeginSwitch,
       Unauthenticated, Logout, EditProfile, BindUser, ForbidSwitch, SwitchUser

LEMMA OwnedStep == TypeOK /\ Carried /\ Owned /\ [Next]_vars => Owned'
<1> SUFFICES ASSUME TypeOK, Carried, Owned, [Next]_vars
             PROVE  Owned'
  OBVIOUS
<1> USE DEF TypeOK, Owned, Knows, users, sent
<1>1. ASSUME NEW r \in Requests, NEW e \in Emails, NEW p \in Passwords,
             \/ Register(r, e, p) \/ RefuseRegister(r, e, p)
             \/ Login(r, e, p)    \/ RefuseLogin(r, e, p)
      PROVE  Owned'
  BY <1>1, ValuesAssumption
     DEF Register, RefuseRegister, Login, RefuseLogin, SendCredentials,
         Advance, Answer
<1>2. ASSUME NEW r \in Requests, InsertUser(r)
      PROVE  Owned'
  <2>1. secret[r] \in Passwords /\ password[email[r]] = None
    BY <1>2 DEF InsertUser, Carried, Registered
  <2> QED
    BY <1>2, <2>1, ValuesAssumption DEF InsertUser, Advance
<1>3. ASSUME NEW r \in Requests, FailInsert(r) \/ CreateToken(r) \/ FailToken(r)
      PROVE  Owned'
  BY <1>3 DEF FailInsert, CreateToken, FailToken, Answer
<1>4. ASSUME NEW r \in Requests, NEW t \in Requests,
             \/ BeginLogout(r, t) \/ BeginEdit(r, t) \/ BeginSwitch(r, t)
             \/ Unauthenticated(r, t)
      PROVE  Owned'
  BY <1>4 DEF BeginLogout, BeginEdit, BeginSwitch, Unauthenticated, Present,
              Advance, Answer
<1>5. ASSUME NEW r \in Requests,
             \/ Logout(r) \/ EditProfile(r) \/ ForbidSwitch(r) \/ SwitchUser(r)
      PROVE  Owned'
  BY <1>5 DEF Logout, EditProfile, ForbidSwitch, SwitchUser, Answer
<1>6. ASSUME NEW r \in Requests, BindUser(r)
      PROVE  Owned'
  BY <1>6 DEF BindUser, Advance
<1>7. CASE UNCHANGED vars
  BY <1>7 DEF vars
<1> QED
  BY <1>1, <1>2, <1>3, <1>4, <1>5, <1>6, <1>7 DEF Next

LEMMA AlwaysOwned == Spec => []Owned
<1>1. Init => Owned
  BY DEF Init, Owned
<1> QED
  BY <1>1, OwnedStep, AlwaysCarried, PTL DEF Spec

(* Tokens, and errors after the row was made, were only given for the       *)
(* password the account still has.                                          *)
THEOREM AccountsBelong == Spec => []CredentialsStand
<1>1. Owned => CredentialsStand
  BY DEF Owned, Knows, CredentialsStand
<1> QED
  BY <1>1, AlwaysOwned, PTL

-------------------------------------------------------------------------------
(* While an account is deactivated, nobody new comes to a token.            *)
THEOREM NoNewAccess == Spec => DeactivationStops
<1>1. TypeOK /\ Owned /\ [Next]_vars
        => [\A e \in Emails :
              Registered(e) /\ ~active[e] => Access(e)' \subseteq Access(e)]_vars
  <2> SUFFICES ASSUME TypeOK, Owned, [Next]_vars, NEW e \in Emails,
                      Registered(e), ~active[e], NEW r \in Requests,
                      email'[r] = e, pc'[r] = "issuing" \/ r \in tokens'
               PROVE  email[r] = e /\ (pc[r] = "issuing" \/ r \in tokens)
    BY DEF Access
  <2> USE DEF TypeOK, Owned, users, sent
  <2>1. ASSUME NEW s \in Requests, NEW f \in Emails, NEW p \in Passwords,
               \/ Register(s, f, p) \/ RefuseRegister(s, f, p)
               \/ Login(s, f, p)    \/ RefuseLogin(s, f, p)
        PROVE  email[r] = e /\ (pc[r] = "issuing" \/ r \in tokens)
    BY <2>1 DEF Register, RefuseRegister, Login, RefuseLogin, SendCredentials,
                Advance, Answer
  <2>2. ASSUME NEW s \in Requests,
               \/ InsertUser(s) \/ FailInsert(s) \/ CreateToken(s)
               \/ FailToken(s)
        PROVE  email[r] = e /\ (pc[r] = "issuing" \/ r \in tokens)
    BY <2>2 DEF InsertUser, FailInsert, CreateToken, FailToken, Registered,
                Advance, Answer
  <2>3. ASSUME NEW s \in Requests, NEW t \in Requests,
               \/ BeginLogout(s, t) \/ BeginEdit(s, t) \/ BeginSwitch(s, t)
               \/ Unauthenticated(s, t)
        PROVE  email[r] = e /\ (pc[r] = "issuing" \/ r \in tokens)
    BY <2>3 DEF BeginLogout, BeginEdit, BeginSwitch, Unauthenticated, Present,
                Advance, Answer
  <2>4. ASSUME NEW s \in Requests,
               \/ Logout(s) \/ EditProfile(s) \/ BindUser(s)
               \/ ForbidSwitch(s) \/ SwitchUser(s)
        PROVE  email[r] = e /\ (pc[r] = "issuing" \/ r \in tokens)
    BY <2>4 DEF Logout, EditProfile, BindUser, ForbidSwitch, SwitchUser,
                Advance, Answer
  <2>5. CASE UNCHANGED vars
    BY <2>5 DEF vars
  <2> QED
    BY <2>1, <2>2, <2>3, <2>4, <2>5 DEF Next
<1> QED
  BY <1>1, AlwaysCarried, AlwaysOwned, PTL DEF Spec, DeactivationStops

-------------------------------------------------------------------------------
(* An address without an account counts as active, as a new row will be.    *)
ActiveByDefault == \A e \in Emails : Registered(e) \/ active[e]

(* is_active changes by an administrator's request, for a registered        *)
(* account, or not at all.                                                  *)
LEMMA ActiveStep ==
  ASSUME TypeOK, Carried, Owned, ActiveByDefault, [Next]_vars,
         NEW e \in Emails, active'[e] # active[e]
  PROVE  \E r \in Requests : /\ reply[r] # "switched" /\ reply'[r] = "switched"
                             /\ email[r] = Admin /\ Registered(e)
<1> USE DEF TypeOK, users, sent
<1>1. ASSUME NEW r \in Requests, InsertUser(r)
      PROVE  FALSE
  BY <1>1 DEF InsertUser, ActiveByDefault
<1>2. ASSUME NEW r \in Requests, SwitchUser(r)
      PROVE  /\ reply[r] # "switched" /\ reply'[r] = "switched"
             /\ email[r] = Admin /\ Registered(e)
  BY <1>2 DEF SwitchUser, Answer, MayAdminister, Owned, Carried
<1>3. \E r \in Requests : InsertUser(r) \/ SwitchUser(r)
  BY DEF Next, vars, Register, RefuseRegister, Login, RefuseLogin,
         SendCredentials, FailInsert, CreateToken, FailToken, BeginLogout,
         BeginEdit, BeginSwitch, Unauthenticated, Present, Logout, EditProfile,
         BindUser, ForbidSwitch
<1> QED
  BY <1>1, <1>2, <1>3

LEMMA AlwaysActiveByDefault == Spec => []ActiveByDefault
<1>1. Init => ActiveByDefault
  BY DEF Init, ActiveByDefault
<1>2. TypeOK /\ Carried /\ Owned /\ ActiveByDefault /\ [Next]_vars
        => ActiveByDefault'
  <2> SUFFICES ASSUME TypeOK, Carried, Owned, ActiveByDefault, [Next]_vars,
                      NEW e \in Emails, ~active'[e]
               PROVE  Registered(e)'
    BY DEF ActiveByDefault
  <2>1. Registered(e)
    BY ActiveStep DEF ActiveByDefault
  <2> QED
    BY <2>1, PasswordsStay DEF Registered
<1> QED
  BY <1>1, <1>2, AlwaysCarried, AlwaysOwned, PTL DEF Spec

(* Nothing but an administrator's request changes is_active.                *)
THEOREM SwitchedByAdmins == Spec => OnlyAdminsSwitch
<1>1. TypeOK /\ Carried /\ Owned /\ ActiveByDefault /\ [Next]_vars
        => [\A e \in Emails :
              active'[e] # active[e] =>
                \E r \in Requests :
                  /\ reply[r] # "switched" /\ reply'[r] = "switched"
                  /\ email[r] = Admin]_vars
  BY ActiveStep
<1> QED
  BY <1>1, AlwaysCarried, AlwaysOwned, AlwaysActiveByDefault, PTL
     DEF Spec, OnlyAdminsSwitch

-------------------------------------------------------------------------------
(* A token that is gone was given up by a logout of its account.            *)
GoneByLogout ==
  \A r \in Requests :
    reply[r] \in {"token", "unauthenticated"} /\ r \notin tokens =>
      \E s \in Requests : reply[s] = "loggedout" /\ email[s] = email[r]

(* An answer, and the account it was about, stay.                           *)
LEMMA AnswersStay ==
  ASSUME TypeOK, Owned, [Next]_vars, NEW r \in Requests, reply[r] # "none"
  PROVE  reply'[r] = reply[r] /\ email'[r] = email[r]
<1>1. pc[r] = "answered"
  BY DEF Owned
<1> USE DEF TypeOK, users, sent, Advance, Answer
<1>2. ASSUME NEW s \in Requests, NEW e \in Emails, NEW p \in Passwords,
             \/ Register(s, e, p) \/ RefuseRegister(s, e, p)
             \/ Login(s, e, p)    \/ RefuseLogin(s, e, p)
      PROVE  reply'[r] = reply[r] /\ email'[r] = email[r]
  BY <1>1, <1>2 DEF Register, RefuseRegister, Login, RefuseLogin,
                    SendCredentials
<1>3. ASSUME NEW s \in Requests, NEW t \in Requests,
             \/ BeginLogout(s, t) \/ BeginEdit(s, t) \/ BeginSwitch(s, t)
             \/ Unauthenticated(s, t)
      PROVE  reply'[r] = reply[r] /\ email'[r] = email[r]
  BY <1>1, <1>3 DEF BeginLogout, BeginEdit, BeginSwitch, Unauthenticated,
                    Present
<1>4. ASSUME NEW s \in Requests,
             \/ InsertUser(s) \/ FailInsert(s) \/ CreateToken(s)
             \/ FailToken(s) \/ Logout(s) \/ EditProfile(s) \/ BindUser(s)
             \/ ForbidSwitch(s) \/ SwitchUser(s)
      PROVE  reply'[r] = reply[r] /\ email'[r] = email[r]
  BY <1>1, <1>4 DEF InsertUser, FailInsert, CreateToken, FailToken, Logout,
                    EditProfile, BindUser, ForbidSwitch, SwitchUser
<1>5. CASE UNCHANGED vars
  BY <1>5 DEF vars
<1> QED
  BY <1>2, <1>3, <1>4, <1>5 DEF Next

LEMMA GoneStep ==
  TypeOK /\ Owned /\ GoneByLogout /\ [Next]_vars => GoneByLogout'
<1> SUFFICES ASSUME TypeOK, Owned, GoneByLogout, [Next]_vars, NEW r \in Requests,
                    reply'[r] \in {"token", "unauthenticated"}, r \notin tokens'
             PROVE  \E s \in Requests :
                      reply'[s] = "loggedout" /\ email'[s] = email'[r]
  BY DEF GoneByLogout
<1> USE DEF TypeOK, users, sent
(* A logout the token, or the request refused with it, can point to. *)
<1>1. ASSUME NEW q \in Requests, email[q] = email'[r],
             reply[q] \in {"token", "unauthenticated"}, q \notin tokens
      PROVE  \E s \in Requests :
               reply'[s] = "loggedout" /\ email'[s] = email'[r]
  <2>1. PICK s \in Requests : reply[s] = "loggedout" /\ email[s] = email[q]
    BY <1>1 DEF GoneByLogout
  <2> QED
    BY <1>1, <2>1, AnswersStay
<1>2. CASE reply[r] # "none" /\ r \notin tokens
  BY <1>1, <1>2, AnswersStay
<1>3. CASE r \in tokens
  <2>1. PICK s \in Requests : Logout(s)
    BY <1>3 DEF Next, vars, Register, RefuseRegister, Login, RefuseLogin,
                SendCredentials, InsertUser, FailInsert, CreateToken, FailToken,
                BeginLogout, BeginEdit, BeginSwitch, Unauthenticated, Present,
                EditProfile, BindUser, ForbidSwitch, SwitchUser
  <2>2. email[r] = email[s] /\ email' = email
    BY <1>3, <2>1 DEF Logout
  <2>3. reply'[s] = "loggedout"
    BY <2>1 DEF Logout, Answer
  <2> QED
    BY <2>2, <2>3
<1>4. CASE reply[r] = "none" /\ r \notin tokens
  <2> USE DEF Advance, Answer
  <2>1. ASSUME NEW s \in Requests, NEW e \in Emails, NEW p \in Passwords,
               \/ Register(s, e, p) \/ RefuseRegister(s, e, p)
               \/ Login(s, e, p)    \/ RefuseLogin(s, e, p)
        PROVE  FALSE
    BY <1>4, <2>1 DEF Register, RefuseRegister, Login, RefuseLogin
  <2>2. ASSUME NEW s \in Requests,
               \/ InsertUser(s) \/ FailInsert(s) \/ CreateToken(s)
               \/ FailToken(s) \/ Logout(s) \/ EditProfile(s) \/ BindUser(s)
               \/ ForbidSwitch(s) \/ SwitchUser(s)
        PROVE  FALSE
    BY <1>4, <2>2 DEF InsertUser, FailInsert, CreateToken, FailToken, Logout,
                      EditProfile, BindUser, ForbidSwitch, SwitchUser
  <2>3. ASSUME NEW s \in Requests, NEW t \in Requests,
               BeginLogout(s, t) \/ BeginEdit(s, t) \/ BeginSwitch(s, t)
        PROVE  FALSE
    BY <1>4, <2>3 DEF BeginLogout, BeginEdit, BeginSwitch
  <2>4. ASSUME NEW s \in Requests, NEW t \in Requests, Unauthenticated(s, t)
        PROVE  s = r
    BY <1>4, <2>4 DEF Unauthenticated
  <2>5. \E t \in Requests : Unauthenticated(r, t)
    BY <1>4, <2>1, <2>2, <2>3, <2>4 DEF Next, vars
  <2>6. PICK t \in Requests : Unauthenticated(r, t)
    BY <2>5
  <2> QED
    BY <1>1, <2>6 DEF Unauthenticated, Present
<1> QED
  BY <1>2, <1>3, <1>4

(* Nobody is logged out by somebody else.                                   *)
THEOREM LogoutsAreOwn == Spec => []OwnLogoutOnly
<1>1. Init => GoneByLogout
  BY DEF Init, GoneByLogout
<1>2. Owned /\ GoneByLogout => OwnLogoutOnly
  BY DEF Owned, GoneByLogout, OwnLogoutOnly
<1> QED
  BY <1>1, <1>2, GoneStep, AlwaysCarried, AlwaysOwned, PTL DEF Spec

===============================================================================
