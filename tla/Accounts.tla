------------------------------ MODULE Accounts ------------------------------
(***************************************************************************)
(* The accounts of Screen Watcher Pro: the users table, the tokens the     *)
(* server hands out and the sessions of the desktop application.           *)
(*                                                                         *)
(* Three surfaces work on one table: the HTTP endpoints and the assistant's*)
(* tools (worker threads of the server process) and the buttons of the     *)
(* desktop's user tab (another process).  Each repository call commits on  *)
(* its own, so an operation is one action per call that another actor may  *)
(* get in front of: what was checked may be stale when it is used.         *)
(*                                                                         *)
(* A request's optional fields are chosen when the code looks at them,     *)
(* which allows the same behaviours as choosing the body at the start.  A  *)
(* desktop does one thing at a time.                                       *)
(* Profile texts are left out.  A role stands for its permissions: only    *)
(* "admin" holds user.manage.                                              *)
(***************************************************************************)
EXTENDS Naturals, FiniteSets

CONSTANTS
    Handlers,         \* worker threads of the server
    Desktops,         \* desktop processes
    Ids,              \* ids of the rows of users, one per account ever made
    Admin0,           \* the id of the account _seed_rbac inserts
    Names, Passwords, \* user names, passwords
    Name0,            \* the seeded name and ...
    Password0,        \* ... password
    Roles,            \* names of the seeded roles
    SelfRegister,     \* auth.allow_self_register
    ConfiguredRole,   \* auth.self_register_role
    Ops,              \* the operations the environment performs
    MaxRequests,      \* a bound: how many requests are ever made
    None, Gone        \* an id not used yet; the id of a row that was removed

ASSUME AccountsAssumption ==
    /\ Admin0 \in Ids /\ Name0 \in Names /\ Password0 \in Passwords
    /\ {"admin", "viewer"} \subseteq Roles /\ ConfiguredRole \in Roles
    /\ {None, Gone} \cap (Ids \cup Names \cup Passwords \cup Roles) = {}
    /\ None # Gone
    /\ Handlers \cap Desktops = {}
    /\ SelfRegister \in BOOLEAN
    /\ MaxRequests \in Nat

VARIABLES
    users,      \* id -> row, None or Gone
    referenced, \* ids that rows of other tables name (audit rows, screenshots)
    tokens,     \* bearer tokens and admin-page cookies that have not expired
    act,        \* what each actor is doing
    desk,       \* the signed-in user of each desktop, or None
    requests    \* how many requests were made (only to bound them)

vars == <<users, referenced, tokens, act, desk, requests>>

Actors == Handlers \cup Desktops

Row == [name : Names, password : Passwords, role : Roles,
        active : BOOLEAN, deleted : BOOLEAN, mustChange : BOOLEAN]

\* Claims of a token, rebuilt into the caller without a look at the table.
Token == [id : Ids, role : Roles]

\* CurrentUser of a desktop and the screen it is on.
Session == [id : Ids, role : Roles, screen : {"change", "main"}]

\* No row, no caller and no session are not rows, callers or sessions.
ASSUME NoneAssumption == {None, Gone} \cap (Row \cup Token \cup Session) = {}

Idle == [at |-> "idle", caller |-> None, target |-> None, data |-> None]

NewRow(name, password, role, mustChange) ==
    [name |-> name, password |-> password, role |-> role,
     active |-> TRUE, deleted |-> FALSE, mustChange |-> mustChange]

Exists(i) == users[i] \notin {None, Gone}
Live(i)   == Exists(i) /\ ~users[i].deleted

\* get_user_by_username: soft-deleted rows keep their names.
Holders(name) == {i \in Ids : Exists(i) /\ users[i].name = name}

\* Self-registration may not be configured to make admins (two mutants, then it).
SelfRegisterUnseeded == IF ConfiguredRole = "admin" THEN None ELSE ConfiguredRole
SelfRegisterAsConfigured == ConfiguredRole
SelfRegisterRole == IF ConfiguredRole = "admin" THEN "viewer" ELSE ConfiguredRole

\* An UPDATE of a row that is gone changes nothing.
Update(i, row) == users' = IF Exists(i) THEN [users EXCEPT ![i] = row] ELSE users

Goto(a, at, data) == act' = [act EXCEPT ![a].at = at, ![a].data = data]
Done(a)           == act' = [act EXCEPT ![a] = Idle]

\* Whom a request may act for: any token that has not expired, whatever became
\* of its account; the signed-in user of a desktop once its main window is built.
TokenCallers == tokens
DeskCallers(d) ==
    IF desk[d] # None /\ desk[d].screen = "main"
    THEN {[id |-> desk[d].id, role |-> desk[d].role]} ELSE {}

IsAdminClaim(c) == c.role = "admin"
Admins(a) == {c \in IF a \in Handlers THEN TokenCallers ELSE DeskCallers(a) : IsAdminClaim(c)}

Request == requests < MaxRequests /\ requests' = requests + 1

Start(a, caller, at, target, data) ==
    /\ act[a] = Idle
    /\ Request
    /\ act' = [act EXCEPT ![a] = [at |-> at, caller |-> caller,
                                  target |-> target, data |-> data]]
-----------------------------------------------------------------------------
(***************************************************************************)
(* Signing in.                                                             *)
(***************************************************************************)

MaySignIn(i, password) ==
    /\ ~users[i].deleted
    /\ users[i].active
    /\ users[i].password = password

\* AuthService.login reads the row once; roles and permissions do not change.
\* A refused sign-in changes nothing.  POST /api/auth/login, the admin pages'
\* form, the desktop's window; and the sign-in a registration ends with.
Login(a) ==
    /\ "login" \in Ops
    /\ a \in Desktops => desk[a] = None
    /\ \E i \in Ids, password \in Passwords :
           /\ Exists(i)
           /\ MaySignIn(i, password)
           /\ Start(a, None, "sign_in", i, users[i])
    /\ UNCHANGED <<users, referenced, tokens, desk>>

LoginRegistered(h) ==
    LET data == act[h].data
    IN  /\ act[h].at = "login"
        /\ IF \E i \in Holders(data.name) : MaySignIn(i, data.password)
           THEN \E i \in Holders(data.name) :
                    act' = [act EXCEPT ![h] = [at |-> "sign_in", caller |-> None,
                                               target |-> i, data |-> users[i]]]
           ELSE Done(h)
        /\ UNCHANGED <<users, referenced, tokens, desk, requests>>

\* The server answers with a token, the admin pages keep it in a cookie.
IssueToken(i, row) ==
    /\ tokens' = tokens \cup {[id |-> i, role |-> row.role]}
    /\ UNCHANGED desk

\* The desktop shows the forced change first when the account asks for it.
AfterLogin(d, i, row) ==
    /\ desk' = [desk EXCEPT ![d] =
           [id |-> i, role |-> row.role,
            screen |-> IF row.mustChange THEN "change" ELSE "main"]]
    /\ UNCHANGED tokens

\* The audit row, which needs the account's row, then the token or the session.
SignIn(a) ==
    LET i == act[a].target  row == act[a].data
    IN  /\ act[a].at = "sign_in"
        /\ Done(a)
        /\ \/ /\ Exists(i)
              /\ referenced' = referenced \cup {i}
              /\ IF a \in Handlers THEN IssueToken(i, row) ELSE AfterLogin(a, i, row)
           \/ /\ ~Exists(i)
              /\ UNCHANGED <<referenced, tokens, desk>>
        /\ UNCHANGED <<users, requests>>

\* Signing out, or closing the application.
Logout(d) ==
    /\ "logout" \in Ops
    /\ desk[d] # None
    /\ act[d] = Idle
    /\ desk' = [desk EXCEPT ![d] = None]
    /\ UNCHANGED <<users, referenced, tokens, act, requests>>

\* A token expires; logging out of the admin pages drops the cookie.
Expire ==
    /\ "expire" \in Ops
    /\ \E t \in tokens : tokens' = tokens \ {t}
    /\ UNCHANGED <<users, referenced, act, desk, requests>>
-----------------------------------------------------------------------------
(***************************************************************************)
(* New accounts.                                                           *)
(***************************************************************************)

\* POST /api/auth/register: anybody, when the policy allows it.
Register(h) ==
    /\ "register" \in Ops
    /\ SelfRegister
    /\ \E name \in Names, password \in Passwords :
           /\ Holders(name) = {}
           /\ Start(h, None, "insert", None,
                    NewRow(name, password, SelfRegisterRole, FALSE))
    /\ UNCHANGED <<users, referenced, tokens, desk>>

\* An administrator's new account: the name is looked up, the row is inserted
\* later with the flag that asks for another password.
Create(a) ==
    /\ "create" \in Ops
    /\ \E c \in Admins(a), name \in Names, password \in Passwords, role \in Roles :
           /\ Holders(name) = {}
           /\ Start(a, c, "insert", None, NewRow(name, password, role, TRUE))
    /\ UNCHANGED <<users, referenced, tokens, desk>>

AdminCreate(h) == Create(h)  \* POST /api/admin/users
TabAdd(d)      == Create(d)  \* the desktop's Add user dialog
ToolCreate(a)  == Create(a)  \* the assistant's create_user, on either surface

\* The INSERT; users.username is UNIQUE, so the loser of a race gets an error.
\* Unchecked, a mutant: the column without its UNIQUE.
NotUnique(name) == TRUE
NameFree(name) == Holders(name) = {}

Insert(a) ==
    /\ act[a].at = "insert"
    /\ \/ /\ NameFree(act[a].data.name)
          /\ \E i \in Ids :
                 /\ users[i] = None
                 /\ users' = [users EXCEPT ![i] = act[a].data]
                 /\ IF act[a].caller = None
                    THEN act' = [act EXCEPT ![a].at = "registered", ![a].target = i]
                    ELSE Goto(a, "audit", None)
       \/ /\ ~NameFree(act[a].data.name)
          /\ Done(a)
          /\ UNCHANGED users
    /\ UNCHANGED <<referenced, tokens, desk, requests>>

\* register's audit row, then the sign-in it ends with.
Registered(h) ==
    /\ act[h].at = "registered"
    /\ IF Exists(act[h].target)
       THEN /\ referenced' = referenced \cup {act[h].target}
            /\ act' = [act EXCEPT ![h] =
                   [Idle EXCEPT !.at = "login",
                                !.data = [name     |-> act[h].data.name,
                                          password |-> act[h].data.password]]]
       ELSE /\ Done(h)
            /\ UNCHANGED referenced
    /\ UNCHANGED <<users, tokens, desk, requests>>

\* The audit row an operation ends with names its caller.
Audit(a) ==
    LET i == act[a].caller.id
    IN  /\ act[a].at = "audit"
        /\ referenced' = IF Exists(i) THEN referenced \cup {i} ELSE referenced
        /\ Done(a)
        /\ UNCHANGED <<users, tokens, desk, requests>>
-----------------------------------------------------------------------------
(***************************************************************************)
(* Updates through the server: one commit per field.  A field that is      *)
(* refused ends the request and the earlier ones stay.                     *)
(***************************************************************************)

\* PUT /api/admin/users/{id}.
BeginUpdate(h) ==
    /\ "update" \in Ops
    /\ \E c \in Admins(h), i \in Ids : Live(i) /\ Start(h, c, "name", i, "admin")
    /\ UNCHANGED <<users, referenced, tokens, desk>>

\* PUT /api/user/profile: one's own row, and of it the name.
BeginProfile(h) ==
    /\ "update" \in Ops
    /\ \E c \in TokenCallers : Live(c.id) /\ Start(h, c, "name", c.id, "self")
    /\ UNCHANGED <<users, referenced, tokens, desk>>

AfterName(h) == IF act[h].data = "admin" THEN "role" ELSE "audit"

\* _apply_username_change: look the new name up; none, or one's own, is fine.
CheckName(h) ==
    /\ act[h].at = "name"
    /\ \/ Goto(h, AfterName(h), None)
       \/ \E name \in Names :
              IF Holders(name) \ {act[h].target} # {}
              THEN Done(h)
              ELSE Goto(h, "rename", [name |-> name, then |-> AfterName(h)])
    /\ UNCHANGED <<users, referenced, tokens, desk, requests>>

Rename(h) ==
    LET i == act[h].target  name == act[h].data.name
    IN  /\ act[h].at = "rename"
        /\ IF Exists(i) /\ Holders(name) \ {i} # {}
           THEN Done(h) /\ UNCHANGED users
           ELSE /\ Update(i, [users[i] EXCEPT !.name = name])
                /\ Goto(h, act[h].data.then, None)
        /\ UNCHANGED <<referenced, tokens, desk, requests>>

SetRole(h) ==
    LET i == act[h].target
    IN  /\ act[h].at = "role"
        /\ \/ Goto(h, "active", None) /\ UNCHANGED users
           \/ Done(h) /\ UNCHANGED users  \* no such role
           \/ \E role \in Roles :
                  IF i = act[h].caller.id /\ role # "admin"
                  THEN Done(h) /\ UNCHANGED users
                  ELSE /\ Update(i, [users[i] EXCEPT !.role = role])
                       /\ Goto(h, "active", None)
        /\ UNCHANGED <<referenced, tokens, desk, requests>>

\* set_user_active writes this one column; deleted_at stays (a mutant: restored).
RestoredRow(row, active) == [row EXCEPT !.active = active, !.deleted = @ /\ ~active]
ActivatedRow(row, active) == [row EXCEPT !.active = active]

SetActive(h) ==
    LET i == act[h].target
    IN  /\ act[h].at = "active"
        /\ \/ Goto(h, "password", None) /\ UNCHANGED users
           \/ \E active \in BOOLEAN :
                  IF i = act[h].caller.id /\ ~active
                  THEN Done(h) /\ UNCHANGED users
                  ELSE /\ Update(i, ActivatedRow(users[i], active))
                       /\ Goto(h, "password", None)
        /\ UNCHANGED <<referenced, tokens, desk, requests>>

\* An administrator's reset: the owner is to choose another at the next sign-in.
ResetUnflagged(row, password) == [row EXCEPT !.password = password, !.mustChange = FALSE]
ResetRow(row, password) == [row EXCEPT !.password = password, !.mustChange = TRUE]

ResetPassword(h) ==
    LET i == act[h].target
    IN  /\ act[h].at = "password"
        /\ \/ UNCHANGED users
           \/ \E password \in Passwords : Update(i, ResetRow(users[i], password))
        /\ Goto(h, "audit", None)
        /\ UNCHANGED <<referenced, tokens, desk, requests>>
-----------------------------------------------------------------------------
\* AuthService.change_password reads the row and checks the current password,
\* neither whether the account is live nor whether it is active ...
Verify(a, c) ==
    \E password \in Passwords :
        /\ Exists(c.id)
        /\ users[c.id].password # password
        /\ Start(a, c, "change", c.id,
                 [verified |-> users[c.id].password, password |-> password])

\* POST /api/user/change-password.
ChangeMine(h) ==
    /\ "change" \in Ops
    /\ \E c \in TokenCallers : Verify(h, c)
    /\ UNCHANGED <<users, referenced, tokens, desk>>

\* The desktop's forced change.
ForcedChange(d) ==
    /\ "change" \in Ops
    /\ desk[d] # None /\ desk[d].screen = "change"
    /\ Verify(d, [id |-> desk[d].id, role |-> desk[d].role])
    /\ UNCHANGED <<users, referenced, tokens, desk>>

\* ... and overwritten later.
ChangedRow(row, password) == [row EXCEPT !.password = password, !.mustChange = FALSE]

ChangePassword(a) ==
    LET i == act[a].target
    IN  /\ act[a].at = "change"
        /\ Update(i, ChangedRow(users[i], act[a].data.password))
        /\ Goto(a, "audit", None)
        /\ desk' = IF a \in Desktops THEN [desk EXCEPT ![a].screen = "main"] ELSE desk
        /\ UNCHANGED <<referenced, tokens, requests>>
-----------------------------------------------------------------------------
\* Two ways to delete: an admin account is refused, and the tool refuses its
\* caller too; then the soft delete, which looks at neither again.
Deletable(i) == Live(i) /\ users[i].role # "admin"

AdminDelete(h) ==
    /\ "delete" \in Ops
    /\ \E c \in Admins(h), i \in Ids : Deletable(i) /\ Start(h, c, "delete", i, None)
    /\ UNCHANGED <<users, referenced, tokens, desk>>

ToolDelete(a) ==
    /\ "delete" \in Ops
    /\ \E c \in Admins(a), i \in Ids :
           Deletable(i) /\ i # c.id /\ Start(a, c, "delete", i, None)
    /\ UNCHANGED <<users, referenced, tokens, desk>>

SoftDelete(a) ==
    LET i == act[a].target
    IN  /\ act[a].at = "delete"
        /\ IF Live(i)
           THEN users' = [users EXCEPT ![i].deleted = TRUE, ![i].active = FALSE]
           ELSE UNCHANGED users
        /\ Goto(a, "audit", None)
        /\ UNCHANGED <<referenced, tokens, desk, requests>>
-----------------------------------------------------------------------------
(***************************************************************************)
(* The desktop's user tab, built when the user who signed in could manage  *)
(* users.  Its list, as refreshed, hides soft-deleted rows; a row picked   *)
(* from it may have changed since.                                         *)
(***************************************************************************)

TabChangeRole(d) ==
    /\ "tab" \in Ops
    /\ Admins(d) # {} /\ act[d] = Idle
    /\ \E i \in Ids, role \in Roles : Exists(i) /\ Update(i, [users[i] EXCEPT !.role = role])
    /\ Request
    /\ UNCHANGED <<referenced, tokens, act, desk>>

TabReset(d) ==
    /\ "tab" \in Ops
    /\ \E c \in Admins(d), i \in Ids, password \in Passwords :
           /\ Exists(i)
           /\ Update(i, ResetRow(users[i], password))
           /\ Start(d, c, "audit", None, None)
    /\ UNCHANGED <<referenced, tokens, desk>>

\* _toggle_active reads the flag and writes its opposite.
TabToggle(d) ==
    /\ "tab" \in Ops
    /\ \E c \in Admins(d), i \in Ids :
           Exists(i) /\ i # c.id /\ Start(d, c, "toggle", i, ~users[i].active)
    /\ UNCHANGED <<users, referenced, tokens, desk>>

Toggle(d) ==
    /\ act[d].at = "toggle"
    /\ Update(act[d].target, ActivatedRow(users[act[d].target], act[d].data))
    /\ Done(d)
    /\ UNCHANGED <<referenced, tokens, desk, requests>>

\* _delete_user removes the row; foreign keys refuse that for a row in use.
WithoutForeignKeys(i) == Exists(i)
Removable(i) == Exists(i) /\ i \notin referenced

TabDelete(d) ==
    /\ "tab" \in Ops
    /\ act[d] = Idle
    /\ \E c \in Admins(d), i \in Ids :
           /\ i # c.id
           /\ Removable(i)
           /\ users' = [users EXCEPT ![i] = Gone]
    /\ Request
    /\ UNCHANGED <<referenced, tokens, act, desk>>
-----------------------------------------------------------------------------
\* _seed_rbac leaves one admin; the first start of the desktop also stores
\* demonstration screenshots in its name.
Init ==
    /\ users = [i \in Ids |-> IF i = Admin0 THEN NewRow(Name0, Password0, "admin", TRUE)
                                            ELSE None]
    /\ referenced \in {{}, {Admin0}}
    /\ tokens = {}
    /\ act = [a \in Actors |-> Idle]
    /\ desk = [d \in Desktops |-> None]
    /\ requests = 0

Next ==
    \/ Expire
    \/ \E a \in Actors :
           \/ Login(a) \/ SignIn(a)
           \/ ToolCreate(a) \/ Insert(a) \/ Audit(a)
           \/ ChangePassword(a)
           \/ ToolDelete(a) \/ SoftDelete(a)
    \/ \E h \in Handlers :
           \/ Register(h) \/ Registered(h) \/ LoginRegistered(h)
           \/ AdminCreate(h) \/ AdminDelete(h) \/ ChangeMine(h)
           \/ BeginUpdate(h) \/ BeginProfile(h) \/ CheckName(h) \/ Rename(h)
           \/ SetRole(h) \/ SetActive(h) \/ ResetPassword(h)
    \/ \E d \in Desktops :
           \/ Logout(d) \/ ForcedChange(d) \/ TabAdd(d)
           \/ TabChangeRole(d) \/ TabReset(d)
           \/ TabToggle(d) \/ Toggle(d) \/ TabDelete(d)

Spec == Init /\ [][Next]_vars
-----------------------------------------------------------------------------
TypeOK ==
    /\ users \in [Ids -> Row \cup {None, Gone}]
    /\ referenced \subseteq Ids
    /\ requests \in 0..MaxRequests
    /\ tokens \subseteq Token
    /\ desk \in [Desktops -> Session \cup {None}]
    /\ \A a \in Actors :
           /\ act[a].at \in {"idle", "login", "sign_in", "insert", "registered", "audit",
                            "name", "rename", "role", "active", "password", "change",
                            "delete", "toggle"}
           /\ act[a].caller \in Token \cup {None}
           /\ act[a].target \in Ids \cup {None}

\* Two accounts never share a name, whatever registrations, additions and
\* renames checked before they wrote (also against soft-deleted rows).
NamesUnique ==
    \A i, j \in Ids : Exists(i) /\ Exists(j) /\ i # j => users[i].name # users[j].name

\* No account that the trail or a screenshot names is ever removed: the
\* desktop's hard delete is refused while another process writes such a row.
TrailKept == \A i \in referenced : Exists(i)

\* The steps of actors that claim to be admins.
AdminStep ==
    \E a \in Actors :
        \/ act'[a] # act[a] /\ act[a].caller # None /\ act[a].caller.role = "admin"
        \/ a \in Desktops /\ act[a] = Idle /\ Admins(a) # {}

\* Administrators only come from administrators: no registration, profile
\* update or password change makes one, whatever the configuration says.
IsAdmin(i) == Exists(i) /\ users[i].role = "admin"
AdminFromAdmin == [][\A i \in Ids : ~IsAdmin(i) /\ IsAdmin(i)' => AdminStep]_vars

\* What somebody may still act with for an account: a token, a desktop's
\* session, a sign-in or an operation under way.
Access(i) ==
    \/ \E t \in tokens : t.id = i
    \/ \E d \in Desktops : desk[d] # None /\ desk[d].id = i
    \/ \E a \in Actors : act[a].at = "sign_in" /\ act[a].target = i
    \/ \E a \in Actors : act[a].caller # None /\ act[a].caller.id = i

\* Claims outlive the account they were made for, but no longer than the tokens
\* and sessions there are: once an account is deleted, softly or for good, and
\* the last of them has ended, it is out for ever.  No update that looked it up
\* while it was live brings it back, no sign-in begins, nobody acts for it.
LockedOut(i) == users[i] # None /\ ~Live(i) /\ ~Access(i)
LockoutLasts == [][\A i \in Ids : LockedOut(i) => LockedOut(i)']_vars

\* The account whose own password change ends in this step.
OwnChange(i) ==
    \E a \in Actors : act[a].at = "change" /\ act[a].caller.id = i /\ act'[a] # act[a]

\* A password somebody else set is never one to keep: the owner is told to
\* change it at the next sign-in, on every surface that resets passwords.
ForeignPasswordFlagged ==
    [][\A i \in Ids :
           /\ Exists(i) /\ Exists(i)'
           /\ users[i].password # users'[i].password
           => OwnChange(i) \/ users'[i].mustChange]_vars

\* users_tab.py says after a reset that the user must change the password at
\* the next sign-in: the flag goes only with the password that is stored.
ResetHolds ==
    [][\A i \in Ids :
           Exists(i) /\ Exists(i)' /\ users[i].mustChange /\ ~users'[i].mustChange =>
               \E a \in Actors : /\ act[a].at = "change" /\ act[a].target = i
                                 /\ act[a].data.verified = users[i].password]_vars
=============================================================================
