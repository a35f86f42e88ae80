-------------------------------- MODULE Accounts --------------------------------
(***************************************************************************)
(* User accounts, their sessions and their menus: app/routers/users.py,    *)
(* auth.py, the menu pages of admin.py, app/dependencies.py and            *)
(* app/menu_permissions.py.  A session is a signed token that carries the  *)
(* token_version of its user; raising that column revokes it.  Handlers    *)
(* read and raise it without a lock.                                       *)
(***************************************************************************)
EXTENDS Naturals, FiniteSets, Sessions

CONSTANTS
    User,          \* accounts, and the mail addresses that name them
    Role,
    Menu,          \* keys of app_menus
    Preset,        \* ROLE_PRESETS
    Staffs,        \* the roles of the accounts there may be at the start
    MaxAudit       \* bound: commits

ASSUME AccountAssumption ==
    /\ NULL \notin User /\ NULL \notin BOOLEAN
    /\ {"SUPER_ADMIN", "MD", "STAFF"} \subseteq Role
    /\ Preset \in [Role -> SUBSET Menu]
    /\ \A roles \in Staffs : /\ DOMAIN roles \subseteq User
                             /\ \A u \in DOMAIN roles : roles[u] \in Role
                             /\ \E u \in DOMAIN roles : roles[u] = "SUPER_ADMIN"

VARIABLES
    account,       \* [User -> the row of users, or NULL]
    access,        \* [User -> [Menu -> can_access, or NULL without a row]]
    menu,          \* the active menus
    token,         \* [User -> tokens in the hands of clients]
    request,       \* [Worker -> the handler it runs]
    audited,       \* number of commits
    epoch,         \* auxiliary: [User -> changes of password, role or activity so far]
    raced,         \* auxiliary: users with two overlapping changes of that kind
    granted,       \* auxiliary: [User -> menus an administrator opened for its role]
    mixed          \* auxiliary: users with menus from a handler that knew another role, or
                   \* committed while their role changed

shadow == <<epoch, raced, granted, mixed>>
accountVars == <<account, access, menu, token, shadow>>

\* A row of users: a password is known by who knows it, and left out.
AccountRow ==
    [role : Role, is_active : BOOLEAN, must_change_password : BOOLEAN, token_version : Nat]

ASSUME AccountRowAssumption == NULL \notin AccountRow

NewAccount(role, change) ==
    [role |-> role, is_active |-> TRUE, must_change_password |-> change, token_version |-> 0]

WriteAudit == audited < MaxAudit /\ audited' = audited + 1

Finished(w) == [request EXCEPT ![w] = Idle]

---------------------------------------------------------------------------
\* Menus.

NoRows == [m \in Menu |-> NULL]

\* Mutant: the rows of the former role stay.
PresetRowsAdded(user, role) ==
    [m \in Menu |-> IF role # "SUPER_ADMIN" /\ m \in menu \cap Preset[role]
                    THEN TRUE ELSE access[user][m]]

\* The rows reset_user_menu_permissions_for_role inserts are those of the role's preset,
\* a Super Admin has none.
PresetRows(user, role) ==
    [m \in Menu |-> IF role # "SUPER_ADMIN" /\ m \in menu \cap Preset[role] THEN TRUE ELSE NULL]

\* seed_missing_user_permissions for one user: rows that exist stay, denials too.
Seeded(user, role) ==
    [m \in Menu |-> IF /\ access[user][m] = NULL
                       /\ role # "SUPER_ADMIN"
                       /\ m \in menu \cap Preset[role]
                    THEN TRUE ELSE access[user][m]]

\* menu_access_keys_for_user.
AllowedKeys(user) ==
    IF account[user].role = "SUPER_ADMIN" THEN menu
    ELSE {m \in menu : access[user][m] = TRUE}

---------------------------------------------------------------------------
\* Who may call: get_current_user, _get_admin_user.

Accepted(user, t) ==
    /\ account[user] # NULL
    /\ account[user].is_active
    /\ t.ver = account[user].token_version

\* A temporary password opens the change of the password only.
CurrentUser(user) ==
    /\ \E t \in token[user] : Accepted(user, t)
    /\ ~ account[user].must_change_password

\* The pages of admin.py ask for the role, not for the password.
AdminUser(user) ==
    /\ \E t \in token[user] : Accepted(user, t)
    /\ account[user].role = "SUPER_ADMIN"

_manage_roles == {"SUPER_ADMIN", "MD"}

\* The row of the user who called, as get_current_user loaded it.
Manages(actor) == ~ actor.must_change_password /\ actor.role \in _manage_roles

\* _assert_can_manage_target.
CanManage(actor, target) == actor.role = "MD" => target.role # "SUPER_ADMIN"

\* What _active_super_admin_count counts.
ActiveSuperAdmins ==
    {u \in User : account[u] # NULL /\ account[u].role = "SUPER_ADMIN" /\ account[u].is_active}

\* Mutant: one other Super Admin is enough, active or not.
NotLastCounted(target, row) ==
    row.role = "SUPER_ADMIN"
        => \E u \in User \ {target} : account[u] # NULL /\ account[u].role = "SUPER_ADMIN"

\* _assert_not_last_active_super_admin, on the row the handler loaded.
NotLast(target, row) ==
    row.role = "SUPER_ADMIN" /\ row.is_active => Cardinality(ActiveSuperAdmins) > 1

---------------------------------------------------------------------------
\* Handlers that load the row of a user, and commit what they make of it.

\* Mutant: a change of the role leaves the sessions alone.
RevokedOnActivity(row, new) ==
    IF new.is_active # row.is_active THEN [new EXCEPT !.token_version = @ + 1] ELSE new

\* update_user: a change of the role or the activity raises token_version.
Revoked(row, new) ==
    IF new.role # row.role \/ new.is_active # row.is_active
    THEN [new EXCEPT !.token_version = @ + 1] ELSE new

\* get_current_user loads the caller, whose row the session keeps.
Admit(w) ==
    /\ request[w] = Idle
    /\ \E u \in User : /\ \E t \in token[u] : Accepted(u, t)
                       /\ request' = [request EXCEPT ![w] =
                              [op |-> "admitted", target |-> u, read |-> account[u]]]
    /\ UNCHANGED <<accountVars, audited>>

\* The row a handler gets for a user.
Loaded(w, user) == IF user = request[w].target THEN request[w].read ELSE account[user]

ChangeAccount(w, op, target, new) ==
    /\ request[w].op = "admitted"
    /\ request' = [request EXCEPT ![w] =
           [op |-> op, target |-> target, read |-> Loaded(w, target), new |-> new,
            admins |-> ActiveSuperAdmins, reset |-> NULL]]
    /\ UNCHANGED <<accountVars, audited>>

\* change_my_password; the token follows the commit.
ChangePassword(w) ==
    /\ request[w].op = "admitted"
    /\ ChangeAccount(w, "change_password", request[w].target,
           [request[w].read EXCEPT !.must_change_password = FALSE, !.token_version = @ + 1])

ResetPassword(w) ==
    /\ request[w].op = "admitted"
    /\ \E target \in User :
           /\ Manages(request[w].read)
           /\ account[target] # NULL
           /\ CanManage(request[w].read, account[target])
           /\ target # request[w].target
           /\ ChangeAccount(w, "reset_password", target,
                  [account[target] EXCEPT !.must_change_password = TRUE, !.token_version = @ + 1])

\* update_user, with a role or not and with is_active or not.
UpdateUser(w) ==
    /\ request[w].op = "admitted"
    /\ \E target \in User, role \in Role, active \in BOOLEAN :
           LET actor == request[w].read
               row == Loaded(w, target)
               new == [row EXCEPT !.role = role, !.is_active = active]
           IN  /\ Manages(actor)
               /\ row # NULL
               /\ CanManage(actor, row)
               /\ new # row
               /\ role # row.role => actor.role = "SUPER_ADMIN"
               /\ target = request[w].target
                  => active /\ (role # row.role => role = "SUPER_ADMIN")
               /\ \/ role # row.role /\ role # "SUPER_ADMIN"
                  \/ row.is_active /\ ~ active
                  => NotLast(target, row)
               /\ ChangeAccount(w, "update_user", target, Revoked(row, new))

DeactivateUser(w) ==
    /\ request[w].op = "admitted"
    /\ \E target \in User :
           /\ ~ request[w].read.must_change_password
           /\ request[w].read.role = "SUPER_ADMIN"
           /\ account[target] # NULL
           /\ target # request[w].target
           /\ NotLast(target, account[target])
           /\ ChangeAccount(w, "deactivate_user", target,
                  [account[target] EXCEPT !.is_active = FALSE, !.token_version = @ + 1])

Recasts(req) == req.new.role # req.read.role

\* Sessions that wrote the row of the user, and have not committed.
Holding(user) ==
    {w \in Worker : /\ request[w].op = "update_user"
                    /\ request[w].target = user
                    /\ request[w].reset # NULL}

\* update_user flushes a new role and deletes the user's rows of menus, those that are
\* committed by then.  Nobody sees it before the commit.
FlushRole(w) ==
    LET req == request[w]
        u == req.target
    IN  /\ req.op = "update_user"
        /\ Recasts(req)
        /\ req.reset = NULL
        /\ Holding(u) = {}
        /\ request' = [request EXCEPT ![w].reset =
               [gone |-> {m \in Menu : access[u][m] # NULL}, rows |-> PresetRows(u, req.new.role)]]
        /\ UNCHANGED <<accountVars, audited>>

\* Rows that another session committed after the deletion.
Survivors(req) == {m \in Menu \ req.reset.gone : access[req.target][m] # NULL}

\* The commit of one of these handlers.  A row that survived and one of the preset for
\* the same menu are an IntegrityError.
CommitAccount(w) ==
    LET req == request[w]
        u == req.target
    IN  /\ req.op \in {"change_password", "reset_password", "update_user", "deactivate_user"}
        /\ Holding(u) \subseteq {w}
        /\ account' = [account EXCEPT ![u] = Merged(account[u], req.read, req.new)]
        /\ \/ /\ ~ Recasts(req)
              /\ UNCHANGED <<access, granted, mixed>>
           \/ /\ Recasts(req)
              /\ req.reset # NULL
              /\ \A m \in Survivors(req) : req.reset.rows[m] = NULL
              /\ access' = [access EXCEPT ![u] =
                     [m \in Menu |-> IF m \in Survivors(req) THEN access[u][m]
                                     ELSE req.reset.rows[m]]]
              /\ granted' = [granted EXCEPT ![u] = {}]
              /\ mixed' = IF Survivors(req) = {} THEN mixed \ {u} ELSE mixed \cup {u}
        /\ epoch' = [epoch EXCEPT ![u] = @ + 1]
        /\ raced' = IF account[u].token_version # req.read.token_version
                    THEN raced \cup {u} ELSE raced
        /\ request' = IF req.op = "change_password"
                      THEN [request EXCEPT ![w] =
                                [op |-> "issue", target |-> u, epoch |-> epoch[u] + 1,
                                 ver |-> req.new.token_version]]
                      ELSE Finished(w)
        /\ WriteAudit
        /\ UNCHANGED <<menu, token>>

\* change_my_password signs a token for the row as it finds it after its commit.
IssueToken(w) ==
    LET req == request[w]
        ver == account[req.target].token_version
    IN  /\ req.op = "issue"
        /\ token' = [token EXCEPT ![req.target] = @ \cup {[ver |-> ver, epoch |-> req.epoch]}]
        /\ raced' = IF ver # req.ver THEN raced \cup {req.target} ELSE raced
        /\ request' = Finished(w)
        /\ UNCHANGED <<account, access, menu, audited, epoch, granted, mixed>>

---------------------------------------------------------------------------
\* Handlers whose rows nobody else writes, or that read late.

\* A token for the password of this moment.  A user who has it needs no other.
SignIn(u) ==
    /\ account[u] # NULL
    /\ account[u].is_active
    /\ token' = [token EXCEPT ![u] =
                     @ \cup {[ver |-> account[u].token_version, epoch |-> epoch[u]]}]
    /\ token' # token
    /\ UNCHANGED <<account, access, menu, request, audited, shadow>>

\* login of auth.py, with an address and a password.
Login(u) == SignIn(u)

\* login_submit of admin.py: the cookie of its pages carries the same token.
AdminLogin(u) == SignIn(u) /\ account[u].role = "SUPER_ADMIN"

\* The address is unique.
CreateUser(u) ==
    /\ account[u] = NULL
    /\ \E actor \in User, role \in Role :
           /\ CurrentUser(actor)
           /\ Manages(account[actor])
           /\ role = "SUPER_ADMIN" => account[actor].role = "SUPER_ADMIN"
           /\ account' = [account EXCEPT ![u] = NewAccount(role, FALSE)]
           /\ access' = [access EXCEPT ![u] = PresetRows(u, role)]
    /\ WriteAudit
    /\ UNCHANGED <<menu, token, request, shadow>>

ToggleMenu(m) ==
    /\ \E actor \in User : AdminUser(actor)
    /\ menu' = IF m \in menu THEN menu \ {m} ELSE menu \cup {m}
    /\ WriteAudit
    /\ UNCHANGED <<account, access, token, request, shadow>>

\* update_menu_access and apply_menu_preset: the target's role is checked, then the
\* form is awaited.
OpenMenus(w) ==
    /\ request[w] = Idle
    /\ \E actor \in User : AdminUser(actor)
    /\ \E target \in User :
           /\ account[target] # NULL
           /\ account[target].role # "SUPER_ADMIN"
           /\ request' = [request EXCEPT ![w] =
                  [op |-> "menu_access", target |-> target, role |-> account[target].role]]
    /\ UNCHANGED <<accountVars, audited>>

\* Every active menu gets a row.  The rows are read just before they are written; the
\* UPDATE of one that update_user has deleted waits for its commit, and fails.
SaveMenus(w) ==
    LET u == request[w].target
    IN  /\ request[w].op = "menu_access"
        /\ \E chosen \in SUBSET menu :
               /\ \A other \in Holding(u) : \A m \in menu \cap request[other].reset.gone :
                      access[u][m] = (m \in chosen)
               /\ access' = [access EXCEPT ![u] =
                      [m \in Menu |-> IF m \in menu THEN m \in chosen ELSE access[u][m]]]
               /\ granted' = [granted EXCEPT ![u] = (@ \ menu) \cup chosen]
        /\ request' = Finished(w)
        /\ WriteAudit
        /\ UNCHANGED <<account, menu, token, epoch, raced, mixed>>

\* ensure_default_menus, which any user's request for its menus runs: the default
\* menus are active again, and the users are loaded.
EnsureDefaultMenus(w) ==
    /\ request[w] = Idle
    /\ \E u \in User : \E t \in token[u] : Accepted(u, t)
    /\ menu' = Menu
    /\ request' = [request EXCEPT ![w] =
           [op |-> "seed",
            roles |-> [u \in {v \in User : account[v] # NULL /\ account[v].is_active} |->
                           account[u].role]]]
    /\ UNCHANGED <<account, access, token, audited, shadow>>

\* seed_missing_user_permissions: the missing rows of the roles it loaded.
SeedMissing(w) ==
    LET roles == request[w].roles
        now == [u \in User |-> IF u \in DOMAIN roles THEN Seeded(u, roles[u]) ELSE access[u]]
    IN  /\ request[w].op = "seed"
        /\ access' = now
        /\ mixed' = mixed \cup {u \in DOMAIN roles : now[u] # access[u]
                                                     /\ roles[u] # account[u].role}
        /\ request' = Finished(w)
        /\ UNCHANGED <<account, menu, token, audited, epoch, raced, granted>>

\* scripts/resync_permissions.py, run from the shell.  It loads the users.
OpenResync(w) ==
    /\ request[w] = Idle
    /\ request' = [request EXCEPT ![w] =
           [op |-> "resync",
            roles |-> [u \in {v \in User : account[v] # NULL /\ account[v].is_active} |->
                           account[u].role]]]
    /\ UNCHANGED <<accountVars, audited>>

\* The rows of active menus outside the preset go, the missing ones of the preset come.
\* The DELETE of a row that update_user has deleted waits for its commit and finds
\* nothing; here it comes first, which leaves the same rows.
Resynced(user, role) ==
    [m \in Menu |->
        IF role = "SUPER_ADMIN" \/ m \notin menu THEN access[user][m]
        ELSE IF m \notin Preset[role] THEN NULL
        ELSE IF access[user][m] = NULL THEN TRUE ELSE access[user][m]]

ResyncPermissions(w) ==
    LET roles == request[w].roles
        now == [u \in User |-> IF u \in DOMAIN roles THEN Resynced(u, roles[u]) ELSE access[u]]
    IN  /\ request[w].op = "resync"
        /\ access' = now
        /\ granted' = [u \in User |-> {m \in granted[u] : now[u][m] # NULL}]
        /\ mixed' = mixed \cup {u \in DOMAIN roles : now[u] # access[u]
                                                     /\ roles[u] # account[u].role}
        /\ request' = Finished(w)
        /\ UNCHANGED <<account, menu, token, audited, epoch, raced>>

\* A handler ends with an exception, and its transaction is rolled back; the token
\* of a changed password may be lost with the response.
Rollback(w) ==
    /\ request[w] # Idle
    /\ request' = Finished(w)
    /\ UNCHANGED <<accountVars, audited>>

AccountInit ==
    /\ \E roles \in Staffs :
           account = [u \in User |-> IF u \in DOMAIN roles THEN NewAccount(roles[u], FALSE)
                                     ELSE NULL]
    /\ access = [u \in User |-> IF account[u] = NULL \/ account[u].role = "SUPER_ADMIN" THEN NoRows
                                ELSE [m \in Menu |-> IF m \in Preset[account[u].role]
                                                     THEN TRUE ELSE NULL]]
    /\ menu = Menu
    /\ token = [u \in User |-> IF account[u] = NULL THEN {} ELSE {[ver |-> 0, epoch |-> 0]}]
    /\ epoch = [u \in User |-> 0]
    /\ raced = {}
    /\ granted = [u \in User |-> {}]
    /\ mixed = {}

\* Requests about sessions, and requests about menus.
SessionNext ==
    \/ \E w \in Worker : \/ Admit(w) \/ ChangePassword(w) \/ IssueToken(w) \/ ResetPassword(w)
                         \/ UpdateUser(w) \/ DeactivateUser(w) \/ FlushRole(w)
                         \/ CommitAccount(w)
    \/ \E u \in User : Login(u) \/ AdminLogin(u)
MenuNext ==
    \/ \E w \in Worker : \/ Admit(w) \/ UpdateUser(w) \/ FlushRole(w) \/ CommitAccount(w)
                         \/ OpenMenus(w) \/ SaveMenus(w)
                         \/ EnsureDefaultMenus(w) \/ SeedMissing(w)
                         \/ OpenResync(w) \/ ResyncPermissions(w)
    \/ \E u \in User : Login(u) \/ CreateUser(u)
    \/ \E m \in Menu : ToggleMenu(m)

---------------------------------------------------------------------------
AccountTypeOK ==
    /\ \A u \in User : account[u] = NULL \/ account[u] \in AccountRow
    /\ access \in [User -> [Menu -> BOOLEAN \cup {NULL}]]
    /\ menu \subseteq Menu

\* A session opened before its user's password, role or activity last changed is
\* refused (token_version, get_current_user), unless two such changes overlapped and
\* raised the column once, or a reset came between a change of the password and the
\* token it signs.
SessionsRevoked ==
    /\ AccountTypeOK
    /\ \A u \in User \ raced : \A t \in token[u] : Accepted(u, t) => t.epoch = epoch[u]

\* The last active Super Admin is not demoted or deactivated by users.py, except by a
\* handler that counted one who has gone since: the count takes no lock.  Ending the
\* last one's employment deactivates it, update_employee does not count.
LastSuperAdminKept ==
    [][ActiveSuperAdmins' = {}
       => \/ ActiveSuperAdmins = {}
          \/ \E w \in Worker :
                 /\ request'[w] = Idle
                 /\ \/ request[w].op = "update_employee"
                    \/ /\ request[w].op \in {"update_user", "deactivate_user"}
                       /\ request[w].admins # ActiveSuperAdmins]_<<account, request>>

\* The menus of a user are those of its present role and those an administrator opened
\* since it has that role, unless ensure_default_menus or resync_permissions gave it the
\* rows of the role it had when they loaded it, or some session committed a row of it
\* after update_user deleted the old ones and before update_user committed.
MenusFollowRole ==
    \A u \in User \ mixed :
        account[u] # NULL /\ account[u].role # "SUPER_ADMIN"
            => AllowedKeys(u) \subseteq Preset[account[u].role] \cup granted[u]
================================================================================
