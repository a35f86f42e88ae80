----------------------------- MODULE WorkforceProofs -----------------------------
(***************************************************************************)
(* Proofs about accounts, sessions, menus, employees, applicants and       *)
(* salary assignments, for every number of users, workers and rows and     *)
(* every bound of the commits.  Nothing rests on the variable subject: the *)
(* invariant holds when handlers of all subjects overlap.                  *)
(***************************************************************************)
EXTENDS Workforce, FiniteSetTheorems, TLAPS

\* A token of that version, signed when the user had changed epoch times, opens a session
\* only as long as the user has not changed again.
Good(u, ver, changes) ==
    /\ account[u] # NULL
    /\ ver <= account[u].token_version
    /\ account[u].is_active /\ ver = account[u].token_version => changes = epoch[u]

AccountsTyped ==
    /\ account \in [User -> AccountRow \cup {NULL}]
    /\ access \in [User -> [Menu -> BOOLEAN \cup {NULL}]]
    /\ menu \subseteq Menu
    /\ token \in [User -> SUBSET [ver : Nat, epoch : Nat]]
    /\ epoch \in [User -> Nat]
    /\ granted \in [User -> SUBSET Menu]

TokensSound == \A u \in User \ raced : \A t \in token[u] : Good(u, t.ver, t.epoch)

MenusEarned ==
    \A u \in User \ mixed :
        account[u] # NULL /\ account[u].role # "SUPER_ADMIN" =>
            \A m \in Menu : access[u][m] = TRUE => m \in Preset[account[u].role] \cup granted[u]

\* Two changes of one field never wait for one employee.
ChangeSound(r) ==
    change[r] # NULL =>
        /\ employee[change[r].employee] # NULL
        /\ change[r].status = "APPROVED" => change[r].over = change[r].old
        /\ change[r].status = "PENDING" =>
               \A s \in ChangeRequest :
                   /\ change[s] # NULL
                   /\ change[s].employee = change[r].employee
                   /\ change[s].status = "PENDING"
                   => s = r

PersonnelInv == PersonnelTypeOK /\ \A r \in ChangeRequest : ChangeSound(r)

\* At most one of them.
AtMostOne(ids) == \A i, j \in ids : i = j

ApplicantSound(a) ==
    /\ applicant[a].stage \in {"OFFER", "HIRED"} => Passed(a) # {}
    /\ Passed(a) # {} => applicant[a].stage \in {"OFFER", "HIRED", "REJECTED"}
    /\ AtMostOne(Passed(a))
    /\ AtMostOne(Waiting(a))
    /\ applicant[a].stage = "HIRED" <=> applicant[a].employee_id # NULL
    /\ applicant[a].stage = "HIRED" <=> onboarding[a] # NULL
    /\ applicant[a].employee_id # NULL =>
           /\ employee[applicant[a].employee_id] # NULL
           /\ \A b \in Applicant : applicant[b] # NULL /\ b # a =>
                  applicant[b].employee_id # applicant[a].employee_id

RecruitmentInv ==
    /\ RecruitmentTypeOK
    /\ \A a \in Applicant : applicant[a] # NULL => ApplicantSound(a)
    /\ \A a \in Applicant : onboarding[a] # NULL => applicant[a] # NULL
    /\ \A i \in Interview : interview[i] # NULL => applicant[interview[i].applicant_id] # NULL

\* Two rows some payroll finds on one day.
Clash(r, s) ==
    /\ r.employee = s.employee
    /\ r.component = s.component
    /\ r.last # NULL => s.first <= r.last
    /\ s.last # NULL => s.last >= r.first

SalaryInv ==
    /\ SalaryTypeOK
    /\ \A a, b \in Assignment \ crossed :
           assignment[a] # NULL /\ assignment[b] # NULL /\ a # b
               => ~ Clash(assignment[a], assignment[b])

---------------------------------------------------------------------------
\* Requests.

AccountOps == {"change_password", "reset_password", "update_user", "deactivate_user"}
EmployeeOps == {"link", "insert", "update_employee", "bulk"}

\* The commit takes an active Super Admin away, as far as the handler knows.
Removes(q) ==
    \/ q.new.role # q.read.role /\ q.new.role # "SUPER_ADMIN"
    \/ q.read.is_active /\ ~ q.new.is_active

\* Rows of menus within the preset of a role.
PresetOnly(rows, role) ==
    /\ rows \in [Menu -> BOOLEAN \cup {NULL}]
    /\ \A m \in Menu : rows[m] = TRUE => m \in Preset[role]

\* What the handler of an account carries.
AccountRequest(q) ==
    /\ q.op \in {"admitted", "issue", "menu_access"} \cup AccountOps => q.target \in User
    /\ q.op \in {"admitted"} \cup AccountOps => q.read \in AccountRow
    /\ q.op \in AccountOps =>
           /\ q.new \in AccountRow
           /\ q.new.token_version = q.read.token_version + 1
           /\ Removes(q) => \/ q.target \notin q.admins
                            \/ \E u \in q.admins : u # q.target
           /\ q.reset # NULL => PresetOnly(q.reset.rows, q.new.role)
           /\ {"op", "target", "read", "new", "admins", "reset"} \subseteq DOMAIN q
    /\ q.op \in AccountOps /\ Removes(q) => q.op \in {"update_user", "deactivate_user"}
    /\ q.op = "issue" => q.ver \in Nat /\ q.epoch \in Nat

\* What the handler of an employee carries.
EmployeeRequest(q) ==
    q.op \in EmployeeOps =>
        /\ q.employee \in Employee
        /\ q.read \in EmployeeRow \cup {NULL}
        /\ q.new \in EmployeeRow
        /\ q.op = "insert" <=> q.read = NULL
        /\ q.opens \in Role \cup {NULL}
        /\ q.opens # NULL => /\ q.op = "bulk"
                             /\ q.read # NULL
                             /\ q.read.user_id = NULL
                             /\ q.new.user_id \in User
        /\ q.disables # NULL => q.disables \in User /\ q.op = "update_employee"

Sound(q) ==
    /\ AccountRequest(q)
    /\ EmployeeRequest(q)
    /\ q.op = "apply" => q.applicant \in Applicant
    /\ q.op = "assign" => q.row \in SalaryAssignmentCreate

\* What still holds of the rows it relies on.
Held(q) ==
    /\ q.op \in {"admitted", "issue"} \cup AccountOps => account[q.target] # NULL
    /\ q.op = "issue" /\ q.target \notin raced => Good(q.target, q.ver, q.epoch)
    /\ q.op \in EmployeeOps =>
           /\ q.op # "insert" => employee[q.employee] # NULL
           /\ q.disables # NULL => account[q.disables] # NULL
    /\ q.op = "assign" /\ ~ q.late =>
           \A a \in Assignment : assignment[a] # NULL => ~ Clash(assignment[a], q.row)

RequestsSound == \A w \in Worker : Sound(request[w]) /\ Held(request[w])

IInv ==
    /\ AccountsTyped
    /\ TokensSound
    /\ MenusEarned
    /\ PersonnelInv
    /\ RecruitmentInv
    /\ SalaryInv
    /\ RequestsSound
    /\ DOMAIN request = Worker

---------------------------------------------------------------------------
\* Steps by the tables they write.

AccountStep == (SessionNext \/ MenuNext) /\ UNCHANGED <<personnelVars, recruitmentVars, salaryVars>>
PeopleStep == (PeopleNext \/ DataNext) /\ UNCHANGED <<recruitmentVars, salaryVars>>
RecruitmentStep == RecruitmentNext /\ UNCHANGED salaryVars
SalaryStep == SalaryNext /\ UNCHANGED recruitmentVars
RollbackStep ==
    (\E w \in Worker : Rollback(w)) /\ UNCHANGED <<personnelVars, recruitmentVars, salaryVars>>

\* A step is one of a group, and leaves the tables of the others alone.
LEMMA Steps ==
    ASSUME [Next]_vars
    PROVE  \/ AccountStep \/ PeopleStep \/ RecruitmentStep \/ SalaryStep \/ RollbackStep
           \/ UNCHANGED vars
  BY DEF Next, AccountStep, PeopleStep, RecruitmentStep, SalaryStep, RollbackStep,
         personnelVars, recruitmentVars, salaryVars

\* What an UPDATE makes of a row of users.
LEMMA MergedAccount ==
    ASSUME NEW row \in AccountRow, NEW read \in AccountRow, NEW new \in AccountRow
    PROVE  LET mix == Merged(row, read, new)
           IN  /\ mix \in AccountRow
               /\ mix.role = IF new.role # read.role THEN new.role ELSE row.role
               /\ mix.is_active = IF new.is_active # read.is_active THEN new.is_active
                                  ELSE row.is_active
               /\ mix.token_version = IF new.token_version # read.token_version
                                      THEN new.token_version ELSE row.token_version
<1> DEFINE Columns == {"role", "is_active", "must_change_password", "token_version"}
           mix == Merged(row, read, new)
<1>1. DOMAIN row = Columns
  BY DEF AccountRow
<1>2. mix = [column \in Columns |-> IF new[column] # read[column] THEN new[column] ELSE row[column]]
  BY <1>1 DEF Merged
<1>3. \A column \in Columns :
          mix[column] = IF new[column] # read[column] THEN new[column] ELSE row[column]
  BY <1>2
<1>4. mix = [role |-> mix.role, is_active |-> mix.is_active,
             must_change_password |-> mix.must_change_password,
             token_version |-> mix.token_version]
  BY <1>2
<1> HIDE DEF mix
<1>5. /\ mix.role \in Role
      /\ mix.is_active \in BOOLEAN
      /\ mix.must_change_password \in BOOLEAN
      /\ mix.token_version \in Nat
  BY <1>3 DEF AccountRow
<1>6. mix \in AccountRow
  BY <1>4, <1>5 DEF AccountRow
<1>7. /\ mix.role = IF new.role # read.role THEN new.role ELSE row.role
      /\ mix.is_active = IF new.is_active # read.is_active THEN new.is_active ELSE row.is_active
      /\ mix.token_version = IF new.token_version # read.token_version
                             THEN new.token_version ELSE row.token_version
  BY <1>3
<1> QED
  BY <1>6, <1>7 DEF mix

\* The same for a row of employees, which the handler may have inserted.
LEMMA WrittenEmployee ==
    ASSUME NEW row \in EmployeeRow \cup {NULL}, NEW read \in EmployeeRow \cup {NULL},
           NEW new \in EmployeeRow, read # NULL => row # NULL
    PROVE  LET mix == Written(row, read, new)
           IN  /\ mix \in EmployeeRow
               /\ read # NULL /\ new.user_id # read.user_id => mix.user_id = new.user_id
<1> DEFINE Columns == {"user_id", "email", "terminated", "phone"}
           mix == Merged(row, read, new)
<1>1. CASE read = NULL
  BY <1>1, EmployeeRowAssumption DEF Written
<1>2. CASE read # NULL /\ read = new
  BY <1>2 DEF Written
<1>3. CASE read # NULL /\ read # new
  <2>1. row \in EmployeeRow /\ read \in EmployeeRow /\ new # NULL
    BY <1>3, EmployeeRowAssumption
  <2>2. Written(row, read, new) = mix
    BY <1>3, <2>1 DEF Written
  <2>3. DOMAIN row = Columns
    BY <2>1 DEF EmployeeRow
  <2>4. mix = [column \in Columns |->
                   IF new[column] # read[column] THEN new[column] ELSE row[column]]
    BY <2>3 DEF Merged
  <2>5. \A column \in Columns :
            mix[column] = IF new[column] # read[column] THEN new[column] ELSE row[column]
    BY <2>4
  <2>6. mix = [user_id |-> mix.user_id, email |-> mix.email, terminated |-> mix.terminated,
               phone |-> mix.phone]
    BY <2>4
  <2> HIDE DEF mix
  <2>7. /\ mix.user_id \in User \cup {NULL}
        /\ mix.email \in User \cup {NULL}
        /\ mix.terminated \in BOOLEAN
        /\ mix.phone \in Phone
    BY <2>1, <2>5 DEF EmployeeRow
  <2>8. mix \in EmployeeRow
    BY <2>6, <2>7 DEF EmployeeRow
  <2>9. new.user_id # read.user_id => mix.user_id = new.user_id
    BY <2>5
  <2> QED
    BY <2>2, <2>8, <2>9
<1> QED
  BY <1>1, <1>2, <1>3

---------------------------------------------------------------------------
\* Accounts, tokens and menus.

\* No step makes a token of a user good for longer.
GoodKept ==
    /\ raced \subseteq raced'
    /\ \A u \in User \ raced' : \A ver, changes \in Nat :
           Good(u, ver, changes) => Good(u, ver, changes)'
    /\ \A u \in User : account[u] # NULL => account'[u] # NULL

AccountsInv == AccountsTyped /\ TokensSound /\ MenusEarned

LEMMA TokensStay ==
    ASSUME AccountsInv, GoodKept, token' = token
    PROVE  TokensSound'
<1> SUFFICES ASSUME NEW u \in User \ raced', NEW t \in token[u]
             PROVE  Good(u, t.ver, t.epoch)'
  BY DEF TokensSound
<1>1. t \in [ver : Nat, epoch : Nat]
  BY DEF AccountsInv, AccountsTyped
<1>2. Good(u, t.ver, t.epoch)
  BY DEF AccountsInv, TokensSound, GoodKept
<1> QED
  BY <1>1, <1>2 DEF GoodKept

LEMMA AccountsQuiet ==
    ASSUME AccountsInv, UNCHANGED accountVars
    PROVE  AccountsInv' /\ GoodKept
<1> USE DEF accountVars, shadow
<1>1. AccountsTyped'
  BY DEF AccountsInv, AccountsTyped
<1>2. MenusEarned'
  BY DEF AccountsInv, MenusEarned
<1>3. GoodKept
  BY DEF GoodKept, Good
<1> QED
  BY <1>1, <1>2, <1>3, TokensStay DEF AccountsInv

\* Menus open and close.
LEMMA MenuKept ==
    ASSUME AccountsInv, menu' \subseteq Menu, UNCHANGED <<account, access, token, shadow>>
    PROVE  AccountsInv' /\ GoodKept
<1> USE DEF shadow
<1>1. AccountsTyped'
  BY DEF AccountsInv, AccountsTyped
<1>2. MenusEarned'
  BY DEF AccountsInv, MenusEarned
<1>3. GoodKept
  BY DEF GoodKept, Good
<1> QED
  BY <1>1, <1>2, <1>3, TokensStay DEF AccountsInv

\* A token for the user as it is.
LEMMA SignInKept ==
    ASSUME AccountsInv, NEW u \in User, SignIn(u)
    PROVE  AccountsInv' /\ GoodKept
<1> USE DEF shadow
<1> DEFINE t == [ver |-> account[u].token_version, epoch |-> epoch[u]]
<1>1. /\ account[u] \in AccountRow
      /\ t \in [ver : Nat, epoch : Nat]
      /\ token' = [token EXCEPT ![u] = token[u] \cup {t}]
      /\ UNCHANGED <<account, access, menu, epoch, raced, granted, mixed>>
  BY DEF SignIn, AccountsInv, AccountsTyped, AccountRow
<1>2. Good(u, t.ver, t.epoch)
  BY <1>1 DEF Good, SignIn, AccountRow
<1> HIDE DEF t
<1>3. AccountsTyped'
  BY <1>1 DEF AccountsInv, AccountsTyped
<1>4. MenusEarned'
  BY <1>1 DEF AccountsInv, MenusEarned
<1>5. GoodKept
  BY <1>1 DEF GoodKept, Good
<1>6. TokensSound'
  <2> SUFFICES ASSUME NEW v \in User \ raced, NEW s \in token'[v]
               PROVE  Good(v, s.ver, s.epoch)
    BY <1>1 DEF TokensSound, Good
  <2>1. s \in token[v] \/ (v = u /\ s = t)
    BY <1>1 DEF AccountsInv, AccountsTyped
  <2> QED
    BY <1>2, <2>1 DEF AccountsInv, TokensSound
<1> QED
  BY <1>3, <1>4, <1>5, <1>6 DEF AccountsInv

\* The token of a changed password, for the row as it is found.
LEMMA IssueTokenKept ==
    ASSUME AccountsInv, NEW w \in Worker, Sound(request[w]), Held(request[w]), IssueToken(w)
    PROVE  AccountsInv' /\ GoodKept
<1> DEFINE q == request[w]
           u == q.target
           t == [ver |-> account[u].token_version, epoch |-> q.epoch]
<1>1. /\ u \in User
      /\ q.epoch \in Nat
      /\ account[u] # NULL
      /\ u \notin raced => Good(u, q.ver, q.epoch)
  BY DEF IssueToken, Sound, AccountRequest, Held
<1>2. /\ account[u] \in AccountRow
      /\ t \in [ver : Nat, epoch : Nat]
      /\ token' = [token EXCEPT ![u] = token[u] \cup {t}]
      /\ raced' = IF account[u].token_version # q.ver THEN raced \cup {u} ELSE raced
      /\ UNCHANGED <<account, access, menu, epoch, granted, mixed>>
  BY <1>1 DEF IssueToken, AccountsInv, AccountsTyped, AccountRow
<1>3. u \notin raced' => Good(u, t.ver, t.epoch)
  BY <1>1, <1>2
<1> HIDE DEF t, q
<1>4. AccountsTyped'
  BY <1>1, <1>2 DEF AccountsInv, AccountsTyped
<1>5. MenusEarned'
  BY <1>2 DEF AccountsInv, MenusEarned
<1>6. raced \subseteq raced'
  BY <1>2
<1>7. GoodKept
  BY <1>2, <1>6 DEF GoodKept, Good
<1>8. TokensSound'
  <2> SUFFICES ASSUME NEW v \in User \ raced', NEW s \in token'[v]
               PROVE  Good(v, s.ver, s.epoch)
    BY <1>2 DEF TokensSound, Good
  <2>1. s \in token[v] \/ (v = u /\ s = t)
    BY <1>1, <1>2 DEF AccountsInv, AccountsTyped
  <2> QED
    BY <1>3, <1>6, <2>1 DEF AccountsInv, TokensSound
<1> QED
  BY <1>4, <1>5, <1>7, <1>8 DEF AccountsInv

\* A new row of users, and the menus of its role or fewer.
LEMMA OpenedKept ==
    ASSUME AccountsInv, NEW u \in User, NEW role \in Role, NEW late \in BOOLEAN,
           account[u] = NULL, NEW rows \in [Menu -> BOOLEAN \cup {NULL}],
           \A m \in Menu : rows[m] = TRUE => m \in Preset[role],
           account' = [account EXCEPT ![u] = NewAccount(role, late)],
           access' = [access EXCEPT ![u] = rows],
           UNCHANGED <<menu, token, shadow>>
    PROVE  AccountsInv' /\ GoodKept
<1> USE DEF shadow
<1>1. NewAccount(role, late) \in AccountRow /\ NewAccount(role, late).role = role
  BY DEF NewAccount, AccountRow
<1>2. account' \in [User -> AccountRow \cup {NULL}]
  BY <1>1 DEF AccountsInv, AccountsTyped
<1>3. AccountsTyped'
  BY <1>2 DEF AccountsInv, AccountsTyped
<1>4. GoodKept
  <2>1. \A v \in User : account[v] # NULL => account'[v] = account[v]
    BY DEF AccountsInv, AccountsTyped
  <2> QED
    BY <2>1 DEF GoodKept, Good
<1>5. MenusEarned'
  <2> SUFFICES ASSUME NEW v \in User \ mixed, account'[v] # NULL, account'[v].role # "SUPER_ADMIN",
                      NEW m \in Menu, access'[v][m] = TRUE
               PROVE  m \in Preset[account'[v].role] \cup granted[v]
    BY DEF MenusEarned
  <2>1. CASE v = u
    <3>1. access'[v] = rows /\ account'[v] = NewAccount(role, late)
      BY <2>1 DEF AccountsInv, AccountsTyped
    <3> QED
      BY <1>1, <3>1
  <2>2. CASE v # u
    BY <2>2 DEF AccountsInv, AccountsTyped, MenusEarned
  <2> QED
    BY <2>1, <2>2
<1> QED
  BY <1>3, <1>4, <1>5, TokensStay DEF AccountsInv

\* The commit of a handler of one account.
LEMMA CommitAccountKept ==
    ASSUME AccountsInv, NEW w \in Worker, Sound(request[w]), Held(request[w]), CommitAccount(w)
    PROVE  AccountsInv' /\ GoodKept
<1>0. PICK q, u : q = request[w] /\ u = q.target
  OBVIOUS
<1> DEFINE recast == Recasts(q)
           row == Merged(account[u], q.read, q.new)
           rows == [m \in Menu |-> IF m \in Survivors(q) THEN access[u][m] ELSE q.reset.rows[m]]
<1>1. /\ q.op \in AccountOps
      /\ u \in User
      /\ q.read \in AccountRow
      /\ q.new \in AccountRow
      /\ q.new.token_version = q.read.token_version + 1
      /\ account[u] \in AccountRow
  <2>1. q.op \in AccountOps
    BY <1>0 DEF CommitAccount, AccountOps
  <2>2. u \in User /\ account[u] # NULL
    BY <1>0, <2>1 DEF Sound, AccountRequest, Held
  <2> QED
    BY <1>0, <2>1, <2>2 DEF Sound, AccountRequest, AccountsInv, AccountsTyped
<1>2. /\ row \in AccountRow
      /\ row.role = IF recast THEN q.new.role ELSE account[u].role
      /\ row.token_version = q.read.token_version + 1
  <2>1. q.read.token_version \in Nat
    BY <1>1 DEF AccountRow
  <2> QED
    BY <1>1, <2>1, MergedAccount DEF Recasts
<1>3. /\ account' = [account EXCEPT ![u] = row]
      /\ ~ recast => UNCHANGED <<access, granted, mixed>>
      /\ recast => /\ q.reset # NULL
                   /\ access' = [access EXCEPT ![u] = rows]
                   /\ granted' = [granted EXCEPT ![u] = {}]
                   /\ mixed' = IF Survivors(q) = {} THEN mixed \ {u} ELSE mixed \cup {u}
      /\ epoch' = [epoch EXCEPT ![u] = @ + 1]
      /\ raced' = IF account[u].token_version # q.read.token_version THEN raced \cup {u} ELSE raced
      /\ UNCHANGED <<menu, token>>
  BY <1>0 DEF CommitAccount
<1>4. recast => /\ rows \in [Menu -> BOOLEAN \cup {NULL}]
                /\ Survivors(q) = {} => PresetOnly(rows, q.new.role)
  <2> SUFFICES ASSUME recast
               PROVE  /\ rows \in [Menu -> BOOLEAN \cup {NULL}]
                      /\ Survivors(q) = {} => PresetOnly(rows, q.new.role)
    OBVIOUS
  <2>1. PresetOnly(q.reset.rows, q.new.role)
    BY <1>0, <1>1, <1>3 DEF Sound, AccountRequest
  <2>2. access[u] \in [Menu -> BOOLEAN \cup {NULL}]
    BY <1>1 DEF AccountsInv, AccountsTyped
  <2>3. rows \in [Menu -> BOOLEAN \cup {NULL}]
    BY <2>1, <2>2 DEF PresetOnly
  <2>4. Survivors(q) = {} => \A m \in Menu : rows[m] = q.reset.rows[m]
    OBVIOUS
  <2> QED
    BY <2>1, <2>3, <2>4 DEF PresetOnly
<1> HIDE DEF row, recast, rows
<1>5. AccountsTyped'
  <2>1. account' \in [User -> AccountRow \cup {NULL}]
    BY <1>1, <1>2, <1>3 DEF AccountsInv, AccountsTyped
  <2>2. access' \in [User -> [Menu -> BOOLEAN \cup {NULL}]]
    BY <1>1, <1>3, <1>4 DEF AccountsInv, AccountsTyped
  <2>3. epoch' \in [User -> Nat] /\ granted' \in [User -> SUBSET Menu]
    BY <1>1, <1>3 DEF AccountsInv, AccountsTyped
  <2> QED
    BY <1>3, <2>1, <2>2, <2>3 DEF AccountsInv, AccountsTyped
<1>6. GoodKept
  <2>1. \A v \in User \ {u} : account'[v] = account[v] /\ epoch'[v] = epoch[v]
    BY <1>1, <1>3 DEF AccountsInv, AccountsTyped
  <2>2. account'[u] = row /\ row # NULL
    BY <1>1, <1>2, <1>3, AccountRowAssumption DEF AccountsInv, AccountsTyped
  <2>3. raced \subseteq raced'
    BY <1>3
  <2>4. ASSUME NEW ver \in Nat, NEW changes \in Nat, u \notin raced', Good(u, ver, changes)
        PROVE  Good(u, ver, changes)'
    <3>1. account[u].token_version = q.read.token_version
      BY <1>3, <2>4
    <3>2. ver <= account[u].token_version /\ account[u].token_version \in Nat
      BY <1>1, <2>4 DEF Good, AccountRow
    <3> QED
      BY <1>2, <2>2, <3>1, <3>2 DEF Good
  <2>5. ASSUME NEW v \in User \ {u}, NEW ver \in Nat, NEW changes \in Nat, Good(v, ver, changes)
        PROVE  Good(v, ver, changes)'
    BY <2>1, <2>5 DEF Good
  <2>6. ASSUME NEW v \in User \ raced', NEW ver \in Nat, NEW changes \in Nat,
               Good(v, ver, changes)
        PROVE  Good(v, ver, changes)'
    <3>1. CASE v = u
      BY <2>4, <2>6, <3>1
    <3>2. CASE v # u
      BY <2>5, <2>6, <3>2
    <3> QED
      BY <3>1, <3>2
  <2>7. \A v \in User : account[v] # NULL => account'[v] # NULL
    BY <2>1, <2>2
  <2> QED
    BY <2>3, <2>6, <2>7 DEF GoodKept
<1>7. MenusEarned'
  <2> SUFFICES ASSUME NEW v \in User \ mixed', account'[v] # NULL, account'[v].role # "SUPER_ADMIN",
                      NEW m \in Menu, access'[v][m] = TRUE
               PROVE  m \in Preset[account'[v].role] \cup granted'[v]
    BY DEF MenusEarned
  <2>1. CASE v = u /\ recast
    <3>1. access'[v] = rows /\ account'[v].role = q.new.role
      BY <1>1, <1>2, <1>3, <2>1 DEF AccountsInv, AccountsTyped
    <3>2. Survivors(q) = {}
      BY <1>3, <2>1
    <3> QED
      BY <1>4, <2>1, <3>1, <3>2 DEF PresetOnly
  <2>2. CASE v # u \/ ~ recast
    <3>1. /\ v \in User \ mixed
          /\ access'[v] = access[v]
          /\ granted'[v] = granted[v]
          /\ account'[v].role = account[v].role
          /\ account[v] # NULL
      BY <1>1, <1>2, <1>3, <2>2, AccountRowAssumption DEF AccountsInv, AccountsTyped
    <3> QED
      BY <3>1 DEF AccountsInv, MenusEarned
  <2> QED
    BY <2>1, <2>2
<1> QED
  BY <1>3, <1>5, <1>6, <1>7, TokensStay DEF AccountsInv

LEMMA CreateUserKept ==
    ASSUME AccountsInv, NEW u \in User, CreateUser(u)
    PROVE  AccountsInv' /\ GoodKept
<1> USE DEF shadow
<1>1. PICK role \in Role :
          /\ account' = [account EXCEPT ![u] = NewAccount(role, FALSE)]
          /\ access' = [access EXCEPT ![u] = PresetRows(u, role)]
  BY DEF CreateUser
<1>2. account[u] = NULL /\ UNCHANGED <<menu, token, shadow>>
  BY DEF CreateUser
<1>3. /\ PresetRows(u, role) \in [Menu -> BOOLEAN \cup {NULL}]
      /\ \A m \in Menu : PresetRows(u, role)[m] = TRUE => m \in Preset[role]
  BY AccountAssumption DEF PresetRows
<1> QED
  BY <1>1, <1>2, <1>3, OpenedKept

\* Menus that an administrator chose, or that a role was given.
LEMMA AccessKept ==
    ASSUME AccountsInv, access' \in [User -> [Menu -> BOOLEAN \cup {NULL}]],
           granted' \in [User -> SUBSET Menu], mixed \subseteq mixed',
           \A u \in User \ mixed', m \in Menu :
               /\ account[u] # NULL
               /\ access'[u][m] = TRUE
               /\ access[u][m] = TRUE => m \in Preset[account[u].role] \cup granted[u]
               => m \in Preset[account[u].role] \cup granted'[u],
           UNCHANGED <<account, menu, token, epoch, raced>>
    PROVE  AccountsInv' /\ GoodKept
<1>1. AccountsTyped'
  BY DEF AccountsInv, AccountsTyped
<1>2. GoodKept
  BY DEF GoodKept, Good
<1>3. MenusEarned'
  BY DEF AccountsInv, MenusEarned
<1> QED
  BY <1>1, <1>2, <1>3, TokensStay DEF AccountsInv

LEMMA SaveMenusKept ==
    ASSUME AccountsInv, NEW w \in Worker, Sound(request[w]), SaveMenus(w)
    PROVE  AccountsInv' /\ GoodKept
<1> DEFINE u == request[w].target
<1>1. u \in User
  BY DEF Sound, AccountRequest, SaveMenus
<1>2. PICK chosen \in SUBSET menu :
          /\ access' = [access EXCEPT ![u] =
                 [m \in Menu |-> IF m \in menu THEN m \in chosen ELSE access[u][m]]]
          /\ granted' = [granted EXCEPT ![u] = (@ \ menu) \cup chosen]
  BY DEF SaveMenus
<1>3. UNCHANGED <<account, menu, token, epoch, raced, mixed>>
  BY DEF SaveMenus
<1> DEFINE rows == [m \in Menu |-> IF m \in menu THEN m \in chosen ELSE access[u][m]]
<1>4. rows \in [Menu -> BOOLEAN \cup {NULL}]
  BY <1>1 DEF AccountsInv, AccountsTyped
<1>5. \A m \in Menu : rows[m] = TRUE =>
          IF m \in menu THEN m \in chosen ELSE access[u][m] = TRUE
  OBVIOUS
<1> HIDE DEF rows, u
<1>6. access' \in [User -> [Menu -> BOOLEAN \cup {NULL}]] /\ access' = [access EXCEPT ![u] = rows]
  BY <1>1, <1>2, <1>4 DEF AccountsInv, AccountsTyped, rows
<1>7. granted' \in [User -> SUBSET Menu]
  BY <1>1, <1>2 DEF AccountsInv, AccountsTyped
<1>8. ASSUME NEW v \in User, NEW m \in Menu, access'[v][m] = TRUE,
             access[v][m] = TRUE => m \in Preset[account[v].role] \cup granted[v]
      PROVE  m \in Preset[account[v].role] \cup granted'[v]
  <2>1. CASE v = u
    <3>1. access'[v] = rows /\ granted'[v] = (granted[u] \ menu) \cup chosen
      BY <1>1, <1>2, <1>6, <2>1 DEF AccountsInv, AccountsTyped
    <3> QED
      BY <1>5, <1>8, <2>1, <3>1
  <2>2. CASE v # u
    BY <1>2, <1>6, <1>8, <2>2 DEF AccountsInv, AccountsTyped
  <2> QED
    BY <2>1, <2>2
<1> QED
  BY <1>3, <1>6, <1>7, <1>8, AccessKept

LEMMA SeedMissingKept ==
    ASSUME AccountsInv, NEW w \in Worker, SeedMissing(w)
    PROVE  AccountsInv' /\ GoodKept
<1> DEFINE roles == request[w].roles
           now == [u \in User |-> IF u \in DOMAIN roles THEN Seeded(u, roles[u]) ELSE access[u]]
<1>1. /\ access' = now
      /\ mixed' = mixed \cup {u \in DOMAIN roles : now[u] # access[u]
                                                   /\ roles[u] # account[u].role}
      /\ UNCHANGED <<account, menu, token, epoch, raced, granted>>
  BY DEF SeedMissing
<1>2. ASSUME NEW u \in User, NEW role
      PROVE  /\ Seeded(u, role) \in [Menu -> BOOLEAN \cup {NULL}]
             /\ \A m \in Menu : Seeded(u, role)[m] = TRUE =>
                    access[u][m] = TRUE \/ m \in Preset[role]
  BY DEF Seeded, AccountsInv, AccountsTyped
<1>3. access' \in [User -> [Menu -> BOOLEAN \cup {NULL}]]
  BY <1>1, <1>2 DEF AccountsInv, AccountsTyped
<1>4. \A u \in User \ mixed' : access'[u] = access[u] \/ access'[u] = Seeded(u, account[u].role)
  BY <1>1
<1>5. granted' \in [User -> SUBSET Menu] /\ mixed \subseteq mixed'
  BY <1>1 DEF AccountsInv, AccountsTyped
<1> HIDE DEF roles, now
<1> QED
  BY <1>1, <1>2, <1>3, <1>4, <1>5, AccessKept

LEMMA ResyncPermissionsKept ==
    ASSUME AccountsInv, NEW w \in Worker, ResyncPermissions(w)
    PROVE  AccountsInv' /\ GoodKept
<1> DEFINE roles == request[w].roles
           now == [u \in User |-> IF u \in DOMAIN roles THEN Resynced(u, roles[u]) ELSE access[u]]
<1>1. /\ access' = now
      /\ granted' = [u \in User |-> {m \in granted[u] : now[u][m] # NULL}]
      /\ mixed' = mixed \cup {u \in DOMAIN roles : now[u] # access[u]
                                                   /\ roles[u] # account[u].role}
      /\ UNCHANGED <<account, menu, token, epoch, raced>>
  BY DEF ResyncPermissions
<1>2. ASSUME NEW u \in User, NEW role
      PROVE  /\ Resynced(u, role) \in [Menu -> BOOLEAN \cup {NULL}]
             /\ \A m \in Menu : Resynced(u, role)[m] = TRUE =>
                    access[u][m] = TRUE \/ m \in Preset[role]
  <2>1. access[u] \in [Menu -> BOOLEAN \cup {NULL}] /\ NULL # TRUE
    BY AccountAssumption DEF AccountsInv, AccountsTyped
  <2>2. Resynced(u, role) \in [Menu -> BOOLEAN \cup {NULL}]
    BY <2>1 DEF Resynced
  <2>3. ASSUME NEW m \in Menu, Resynced(u, role)[m] = TRUE
        PROVE  access[u][m] = TRUE \/ m \in Preset[role]
    BY <2>1, <2>3 DEF Resynced
  <2> QED
    BY <2>2, <2>3
<1>3. access' \in [User -> [Menu -> BOOLEAN \cup {NULL}]]
  BY <1>1, <1>2 DEF AccountsInv, AccountsTyped
<1>4. \A u \in User \ mixed' : access'[u] = access[u] \/ access'[u] = Resynced(u, account[u].role)
  BY <1>1
<1>5. granted' \in [User -> SUBSET Menu] /\ mixed \subseteq mixed'
  BY <1>1 DEF AccountsInv, AccountsTyped
<1>6. ASSUME NEW u \in User, NEW m \in Menu, access'[u][m] = TRUE, m \in granted[u]
      PROVE  m \in granted'[u]
  BY <1>1, <1>6, AccountAssumption
<1> HIDE DEF roles, now
<1>7. ASSUME NEW u \in User \ mixed', NEW m \in Menu, access'[u][m] = TRUE,
             access[u][m] = TRUE => m \in Preset[account[u].role] \cup granted[u]
      PROVE  m \in Preset[account[u].role] \cup granted'[u]
  <2>1. access[u][m] = TRUE \/ m \in Preset[account[u].role]
    BY <1>2, <1>4, <1>7
  <2> QED
    BY <1>6, <1>7, <2>1
<1> QED
  BY <1>1, <1>3, <1>5, <1>7, AccessKept

\* An employee whose employment ends loses the account's activity.
LEMMA DisabledKept ==
    ASSUME AccountsInv, NEW u \in User, account[u] # NULL,
           account' = [account EXCEPT ![u].is_active = FALSE],
           epoch' = IF account[u].is_active THEN [epoch EXCEPT ![u] = @ + 1] ELSE epoch,
           UNCHANGED <<access, menu, token, raced, granted, mixed>>
    PROVE  AccountsInv' /\ GoodKept
<1>1. account[u] \in AccountRow
  BY DEF AccountsInv, AccountsTyped
<1>2. PICK row : row = [account[u] EXCEPT !.is_active = FALSE]
  OBVIOUS
<1>3. /\ row \in AccountRow
      /\ row.role = account[u].role
      /\ row.is_active = FALSE
      /\ row.token_version = account[u].token_version
      /\ row # NULL
  BY <1>1, <1>2, AccountRowAssumption DEF AccountRow
<1>4. account' = [account EXCEPT ![u] = row]
  BY <1>1, <1>2 DEF AccountsInv, AccountsTyped
<1>5. /\ account' \in [User -> AccountRow \cup {NULL}]
      /\ account'[u] = row
      /\ \A v \in User \ {u} : account'[v] = account[v]
  BY <1>3, <1>4 DEF AccountsInv, AccountsTyped
<1>6. epoch' \in [User -> Nat] /\ \A v \in User \ {u} : epoch'[v] = epoch[v]
  BY DEF AccountsInv, AccountsTyped
<1>7. AccountsTyped'
  BY <1>5, <1>6 DEF AccountsInv, AccountsTyped
<1>8. GoodKept
  <2>1. ASSUME NEW v \in User, NEW ver \in Nat, NEW changes \in Nat, Good(v, ver, changes)
        PROVE  Good(v, ver, changes)'
    <3>1. CASE v = u
      BY <1>3, <1>5, <2>1, <3>1 DEF Good
    <3>2. CASE v # u
      BY <1>5, <1>6, <2>1, <3>2 DEF Good
    <3> QED
      BY <3>1, <3>2
  <2>2. \A v \in User : account[v] # NULL => account'[v] # NULL
    BY <1>3, <1>5
  <2> QED
    BY <2>1, <2>2 DEF GoodKept
<1>9. MenusEarned'
  <2>1. \A v \in User : account'[v] # NULL => account[v] # NULL /\ account'[v].role = account[v].role
    BY <1>3, <1>5
  <2> QED
    BY <2>1 DEF AccountsInv, MenusEarned
<1> QED
  BY <1>7, <1>8, <1>9, TokensStay DEF AccountsInv

\* What the handler of an employee makes of the accounts: it opens one, it disables one,
\* or it leaves them alone.
LEMMA CommitEmployeeKept ==
    ASSUME AccountsInv, PersonnelInv, NEW w \in Worker, Sound(request[w]), Held(request[w]),
           CommitEmployee(w)
    PROVE  /\ AccountsInv' /\ GoodKept
           /\ \E e \in Employee, row \in EmployeeRow : employee' = [employee EXCEPT ![e] = row]
<1>0. PICK q, e, row : /\ q = request[w]
                       /\ e = q.employee
                       /\ row = Written(employee[e], q.read, q.new)
  OBVIOUS
<1>1. /\ q.op \in EmployeeOps
      /\ e \in Employee
      /\ q.read \in EmployeeRow \cup {NULL}
      /\ q.new \in EmployeeRow
      /\ q.op = "insert" <=> q.read = NULL
      /\ q.op # "insert" => employee[e] # NULL
      /\ q.opens \in Role \cup {NULL}
      /\ q.opens # NULL => /\ q.op = "bulk"
                           /\ q.read # NULL
                           /\ q.read.user_id = NULL
                           /\ q.new.user_id \in User
      /\ q.disables # NULL => /\ q.disables \in User
                              /\ q.op = "update_employee"
                              /\ account[q.disables] # NULL
  <2>1. q.op \in EmployeeOps
    BY <1>0 DEF CommitEmployee, EmployeeOps
  <2>2. Sound(q) /\ Held(q)
    BY <1>0
  <2>3. EmployeeRequest(q)
    BY <2>2 DEF Sound
  <2>4. /\ q.op # "insert" => employee[q.employee] # NULL
        /\ q.disables # NULL => account[q.disables] # NULL
    BY <2>1, <2>2 DEF Held
  <2> QED
    BY <1>0, <2>1, <2>3, <2>4 DEF EmployeeRequest
<1>2. employee[e] \in EmployeeRow \cup {NULL}
  BY <1>1 DEF PersonnelInv, PersonnelTypeOK
<1>3. /\ row \in EmployeeRow
      /\ q.opens # NULL => row.user_id = q.new.user_id
  <2>1. q.read # NULL => employee[e] # NULL
    BY <1>1
  <2>2. q.opens # NULL => q.new.user_id # q.read.user_id
    BY <1>1, AccountAssumption
  <2> QED
    BY <1>0, <1>1, <1>2, <2>1, <2>2, WrittenEmployee
<1>4. employee' = [employee EXCEPT ![e] = row]
  BY <1>0 DEF CommitEmployee
<1>5. CASE q.opens = NULL /\ q.disables = NULL
  <2>1. UNCHANGED accountVars
    BY <1>0, <1>5 DEF CommitEmployee, accountVars, shadow
  <2> QED
    BY <1>1, <1>3, <1>4, <2>1, AccountsQuiet
<1>6. CASE q.opens # NULL
  <2>1. PICK u \in User : u = row.user_id
    BY <1>1, <1>3, <1>6
  <2>2. q.disables = NULL /\ account[u] = NULL
    BY <1>0, <1>1, <1>3, <1>6, <2>1 DEF CommitEmployee
  <2>3. /\ account' = [account EXCEPT ![u] = NewAccount(q.opens, FALSE)]
        /\ access' = [access EXCEPT ![u] = seed_user_menus(q.opens)]
        /\ UNCHANGED <<menu, token, shadow>>
    BY <1>0, <1>6, <2>1, <2>2 DEF CommitEmployee, shadow
  <2>4. /\ seed_user_menus(q.opens) \in [Menu -> BOOLEAN \cup {NULL}]
        /\ \A m \in Menu : seed_user_menus(q.opens)[m] = TRUE => m \in Preset[q.opens]
    BY AccountAssumption DEF seed_user_menus
  <2>5. q.opens \in Role
    BY <1>1, <1>6
  <2>6. AccountsInv' /\ GoodKept
    BY <2>2, <2>3, <2>4, <2>5, OpenedKept
  <2> QED
    BY <1>1, <1>3, <1>4, <2>6
<1>7. CASE q.disables # NULL
  <2>1. PICK u \in User : u = q.disables /\ account[u] # NULL
    BY <1>1, <1>7
  <2>2. q.opens = NULL
    BY <1>1, <1>7
  <2>3. /\ account' = [account EXCEPT ![u].is_active = FALSE]
        /\ epoch' = IF ~ account[u].is_active THEN epoch ELSE [epoch EXCEPT ![u] = @ + 1]
        /\ UNCHANGED <<access, menu, token, raced, granted, mixed>>
    BY <1>0, <1>7, <2>1, <2>2 DEF CommitEmployee
  <2>4. AccountsInv' /\ GoodKept
    BY <2>1, <2>3, DisabledKept
  <2> QED
    BY <1>1, <1>3, <1>4, <2>4
<1> QED
  BY <1>5, <1>6, <1>7

\* A hired applicant may get an account, with the menus of a STAFF.
LEMMA HireAccountKept ==
    ASSUME AccountsInv, RecruitmentInv, NEW a \in Applied, HireApplicant(a)
    PROVE  AccountsInv' /\ GoodKept
<1>1. PICK u \in User \cup {NULL} : u = applicant[a].email
  BY DEF RecruitmentInv, RecruitmentTypeOK, Applied, ApplicantRow
<1>2. UNCHANGED <<menu, token, shadow>>
  BY DEF HireApplicant
<1>3. \/ UNCHANGED <<account, access>>
      \/ /\ u # NULL
         /\ account[u] = NULL
         /\ account' = [account EXCEPT ![u] = NewAccount("STAFF", TRUE)]
         /\ access' = [access EXCEPT ![u] = _seed_staff_menus]
  BY <1>1 DEF HireApplicant
<1>4. /\ _seed_staff_menus \in [Menu -> BOOLEAN \cup {NULL}]
      /\ \A m \in Menu : _seed_staff_menus[m] = TRUE => m \in Preset["STAFF"]
  BY AccountAssumption DEF _seed_staff_menus
<1>5. "STAFF" \in Role
  BY AccountAssumption
<1>6. CASE UNCHANGED <<account, access>>
  BY <1>2, <1>6, AccountsQuiet DEF accountVars
<1> QED
  BY <1>1, <1>2, <1>3, <1>4, <1>5, <1>6, OpenedKept

\* Accounts, tokens and menus stay sound over every step.
LEMMA AccountsKept ==
    ASSUME IInv, [Next]_vars
    PROVE  AccountsInv' /\ GoodKept
<1>1. AccountsInv
  BY DEF IInv, AccountsInv
<1>2. \A w \in Worker : Sound(request[w]) /\ Held(request[w])
  BY DEF IInv, RequestsSound
<1>3. CASE SessionNext
  <2>1. ASSUME NEW w \in Worker,
               \/ Admit(w) \/ ChangePassword(w) \/ ResetPassword(w) \/ UpdateUser(w)
               \/ DeactivateUser(w) \/ FlushRole(w)
        PROVE  UNCHANGED accountVars
    BY <2>1 DEF Admit, ChangePassword, ResetPassword, UpdateUser, DeactivateUser, ChangeAccount,
                FlushRole
  <2> QED
    BY <1>1, <1>2, <1>3, <2>1, AccountsQuiet, IssueTokenKept, CommitAccountKept, SignInKept
    DEF SessionNext, Login, AdminLogin
<1>4. CASE MenuNext
  <2>1. ASSUME NEW w \in Worker, \/ Admit(w) \/ UpdateUser(w) \/ FlushRole(w) \/ OpenMenus(w)
                                 \/ OpenResync(w)
        PROVE  UNCHANGED accountVars
    BY <2>1 DEF Admit, UpdateUser, FlushRole, ChangeAccount, OpenMenus, OpenResync
  <2>2. ASSUME NEW w \in Worker, EnsureDefaultMenus(w)
        PROVE  AccountsInv' /\ GoodKept
    BY <1>1, <2>2, MenuKept DEF EnsureDefaultMenus
  <2>3. ASSUME NEW m \in Menu, ToggleMenu(m)
        PROVE  AccountsInv' /\ GoodKept
    <3>1. menu' \subseteq Menu
      BY <1>1, <2>3 DEF ToggleMenu, AccountsInv, AccountsTyped
    <3> QED
      BY <1>1, <2>3, <3>1, MenuKept DEF ToggleMenu
  <2>4. ASSUME NEW w \in Worker, CommitAccount(w) \/ SaveMenus(w) \/ SeedMissing(w)
                                 \/ ResyncPermissions(w)
        PROVE  AccountsInv' /\ GoodKept
    BY <1>1, <1>2, <2>4, CommitAccountKept, SaveMenusKept, SeedMissingKept, ResyncPermissionsKept
  <2>5. ASSUME NEW u \in User, Login(u) \/ CreateUser(u)
        PROVE  AccountsInv' /\ GoodKept
    BY <1>1, <2>5, SignInKept, CreateUserKept DEF Login
  <2> QED
    BY <1>1, <1>4, <2>1, <2>2, <2>3, <2>4, <2>5, AccountsQuiet DEF MenuNext
<1>5. CASE PeopleNext \/ DataNext
  <2>1. ASSUME NEW w \in Worker, \/ LinkEmployeeUser(w) \/ EmployeeFromUser(w) \/ UpdateEmployee(w)
                                 \/ BulkCreateAccounts(w)
        PROVE  UNCHANGED accountVars
    BY <2>1 DEF LinkEmployeeUser, EmployeeFromUser, UpdateEmployee, BulkCreateAccounts,
                ChangeEmployee
  <2>2. ASSUME NEW e \in Employee, CreateEmployee(e)
        PROVE  UNCHANGED accountVars
    BY <2>2 DEF CreateEmployee
  <2>3. ASSUME NEW r \in ChangeRequest,
               SubmitDataChange(r) \/ ApproveDataChange(r) \/ RejectDataChange(r)
        PROVE  UNCHANGED accountVars
    BY <2>3 DEF SubmitDataChange, ApproveDataChange, RejectDataChange
  <2>4. ASSUME NEW w \in Worker, CommitEmployee(w)
        PROVE  AccountsInv' /\ GoodKept
    BY <1>1, <1>2, <2>4, CommitEmployeeKept DEF IInv
  <2> QED
    BY <1>1, <1>5, <2>1, <2>2, <2>3, <2>4, AccountsQuiet DEF PeopleNext, DataNext
<1>6. CASE RecruitmentNext
  <2>1. ASSUME NEW a \in Applied, HireApplicant(a)
        PROVE  AccountsInv' /\ GoodKept
    BY <1>1, <2>1, HireAccountKept DEF IInv
  <2>2. CASE CreatePosting \/ UpdatePosting \/ \E i \in Interview : UpdateInterview(i)
    BY <1>1, <2>2, AccountsQuiet DEF CreatePosting, UpdatePosting, UpdateInterview
  <2>3. ASSUME NEW w \in Worker, (\E a \in Applicant : Apply(w, a)) \/ CommitApplicant(w)
        PROVE  UNCHANGED accountVars
    BY <2>3 DEF Apply, CommitApplicant
  <2>4. ASSUME NEW a, \/ UpdateStage(a) \/ CompleteTask(a)
                      \/ \E i \in Interview : CreateInterview(a, i)
        PROVE  UNCHANGED accountVars
    BY <2>4 DEF UpdateStage, CompleteTask, CreateInterview
  <2> QED
    BY <1>1, <1>6, <2>1, <2>2, <2>3, <2>4, AccountsQuiet DEF RecruitmentNext
<1>7. CASE SalaryNext \/ (\E w \in Worker : Rollback(w)) \/ UNCHANGED vars
  <2>1. UNCHANGED accountVars
    BY <1>7 DEF SalaryNext, CreateAssignment, CommitAssignment, DeleteAssignment, Rollback, vars
  <2> QED
    BY <1>1, <2>1, AccountsQuiet
<1> QED
  BY <1>3, <1>4, <1>5, <1>6, <1>7, Steps
  DEF AccountStep, PeopleStep, RecruitmentStep, SalaryStep, RollbackStep

---------------------------------------------------------------------------
\* Employees and the changes they ask for.

EmployeesStay == \A e \in Employee : employee[e] # NULL => employee'[e] # NULL

LEMMA PersonnelQuiet ==
    ASSUME PersonnelInv, UNCHANGED personnelVars
    PROVE  PersonnelInv' /\ EmployeesStay
  BY DEF PersonnelInv, PersonnelTypeOK, ChangeSound, personnelVars, EmployeesStay

\* A row of employees is written.
LEMMA EmployeeWritten ==
    ASSUME PersonnelInv, NEW e \in Employee, NEW row \in EmployeeRow,
           employee' = [employee EXCEPT ![e] = row], change' = change
    PROVE  PersonnelInv' /\ EmployeesStay
<1>1. row # NULL
  BY EmployeeRowAssumption
<1>2. EmployeesStay
  BY <1>1 DEF PersonnelInv, PersonnelTypeOK, EmployeesStay
<1>3. PersonnelTypeOK'
  BY DEF PersonnelInv, PersonnelTypeOK
<1>4. ASSUME NEW r \in ChangeRequest, change[r] # NULL
      PROVE  change[r].employee \in Employee
  BY <1>4 DEF PersonnelInv, PersonnelTypeOK, EmployeeDataChangeRequest
<1>5. \A r \in ChangeRequest : ChangeSound(r)'
  BY <1>2, <1>4 DEF PersonnelInv, ChangeSound, EmployeesStay
<1> QED
  BY <1>2, <1>3, <1>5 DEF PersonnelInv

\* A request for a change is made or reviewed.
LEMMA ChangeWritten ==
    ASSUME PersonnelInv, NEW r \in ChangeRequest, NEW row \in EmployeeDataChangeRequest,
           change' = [change EXCEPT ![r] = row], EmployeesStay,
           employee' \in [Employee -> EmployeeRow \cup {NULL}],
           employee[row.employee] # NULL,
           row.status = "APPROVED" => row.over = row.old,
           row.status = "PENDING" => Pending(row.employee) = {}
    PROVE  PersonnelInv'
<1>1. PersonnelTypeOK'
  BY DEF PersonnelInv, PersonnelTypeOK
<1>2. /\ change'[r] = row
      /\ \A s \in ChangeRequest \ {r} : change'[s] = change[s]
      /\ row # NULL
      /\ row.employee \in Employee
  BY EmployeeRowAssumption DEF PersonnelInv, PersonnelTypeOK, EmployeeDataChangeRequest
<1>3. ASSUME NEW s \in ChangeRequest, change[s] # NULL
      PROVE  change[s].employee \in Employee
  BY <1>3 DEF PersonnelInv, PersonnelTypeOK, EmployeeDataChangeRequest
<1>4. row.status = "PENDING" =>
          \A s \in ChangeRequest : ~ (/\ change[s] # NULL
                                      /\ change[s].employee = row.employee
                                      /\ change[s].status = "PENDING")
  BY DEF Pending
<1>5. ASSUME NEW s \in ChangeRequest, change'[s] # NULL
      PROVE  ChangeSound(s)'
  <2>1. /\ employee'[change'[s].employee] # NULL
        /\ change'[s].status = "APPROVED" => change'[s].over = change'[s].old
    BY <1>2, <1>3, <1>5 DEF PersonnelInv, ChangeSound, EmployeesStay
  <2>2. ASSUME change'[s].status = "PENDING", NEW o \in ChangeRequest,
               change'[o] # NULL, change'[o].employee = change'[s].employee,
               change'[o].status = "PENDING"
        PROVE  o = s
    <3>1. CASE s = r \/ o = r
      BY <1>2, <1>4, <1>5, <2>2, <3>1
    <3>2. CASE s # r /\ o # r
      BY <1>2, <1>5, <2>2, <3>2 DEF PersonnelInv, ChangeSound
    <3> QED
      BY <3>1, <3>2
  <2> QED
    BY <2>1, <2>2 DEF ChangeSound
<1>6. \A s \in ChangeRequest : ChangeSound(s)'
  BY <1>5 DEF ChangeSound
<1> QED
  BY <1>1, <1>6 DEF PersonnelInv

LEMMA SubmitKept ==
    ASSUME PersonnelInv, NEW r \in ChangeRequest, SubmitDataChange(r)
    PROVE  PersonnelInv' /\ EmployeesStay
<1>1. PICK e \in Rows, phone \in Phone :
          /\ Pending(e) = {}
          /\ change' = [change EXCEPT ![r] =
                 [employee |-> e, old |-> employee[e].phone, new |-> phone, status |-> "PENDING",
                  over |-> NULL]]
          /\ employee' = employee
  BY DEF SubmitDataChange
<1>2. employee[e] \in EmployeeRow /\ e \in Employee /\ employee[e] # NULL
  BY DEF Rows, PersonnelInv, PersonnelTypeOK
<1>3. PICK row : row = [employee |-> e, old |-> employee[e].phone, new |-> phone,
                        status |-> "PENDING", over |-> NULL]
  OBVIOUS
<1>4. row \in EmployeeDataChangeRequest
  BY <1>2, <1>3 DEF EmployeeDataChangeRequest, EmployeeRow
<1>5. EmployeesStay /\ employee' \in [Employee -> EmployeeRow \cup {NULL}]
  BY <1>1 DEF EmployeesStay, PersonnelInv, PersonnelTypeOK
<1> QED
  BY <1>1, <1>2, <1>3, <1>4, <1>5, ChangeWritten

LEMMA ReviewKept ==
    ASSUME PersonnelInv, NEW r \in ChangeRequest, ApproveDataChange(r) \/ RejectDataChange(r)
    PROVE  PersonnelInv' /\ EmployeesStay
<1>1. PICK e \in Employee : /\ e = change[r].employee
                            /\ change[r] \in EmployeeDataChangeRequest
                            /\ employee[e] \in EmployeeRow
                            /\ employee[e] # NULL
  BY DEF ApproveDataChange, RejectDataChange, PersonnelInv, PersonnelTypeOK, ChangeSound,
         EmployeeDataChangeRequest
<1>2. CASE ApproveDataChange(r)
  <2>1. PICK row, now :
            /\ row = [change[r] EXCEPT !.status = "APPROVED", !.over = employee[e].phone]
            /\ now = [employee[e] EXCEPT !.phone = change[r].new]
    OBVIOUS
  <2>2. employee[e].phone = change[r].old
    BY <1>1, <1>2 DEF ApproveDataChange, Applies
  <2>3. row \in EmployeeDataChangeRequest
    BY <1>1, <2>1 DEF EmployeeDataChangeRequest, EmployeeRow
  <2>4. row.employee = e /\ row.status = "APPROVED" /\ row.over = employee[e].phone
        /\ row.old = change[r].old
    BY <1>1, <2>1 DEF EmployeeDataChangeRequest
  <2>5. now \in EmployeeRow
    BY <1>1, <2>1 DEF EmployeeDataChangeRequest, EmployeeRow
  <2>6. employee' = [employee EXCEPT ![e] = now] /\ change' = [change EXCEPT ![r] = row]
    BY <1>1, <1>2, <2>1 DEF ApproveDataChange, PersonnelInv, PersonnelTypeOK
  <2>7. EmployeesStay /\ employee' \in [Employee -> EmployeeRow \cup {NULL}]
    BY <2>5, <2>6, EmployeeRowAssumption DEF EmployeesStay, PersonnelInv, PersonnelTypeOK
  <2> QED
    BY <1>1, <2>2, <2>3, <2>4, <2>6, <2>7, ChangeWritten
<1>3. CASE RejectDataChange(r)
  <2>1. PICK row : row = [change[r] EXCEPT !.status = "REJECTED"]
    OBVIOUS
  <2>2. row \in EmployeeDataChangeRequest /\ row.employee = e /\ row.status = "REJECTED"
    BY <1>1, <2>1 DEF EmployeeDataChangeRequest
  <2>3. employee' = employee /\ change' = [change EXCEPT ![r] = row]
    BY <1>1, <1>3, <2>1 DEF RejectDataChange, PersonnelInv, PersonnelTypeOK
  <2>4. EmployeesStay /\ employee' \in [Employee -> EmployeeRow \cup {NULL}]
    BY <2>3 DEF EmployeesStay, PersonnelInv, PersonnelTypeOK
  <2> QED
    BY <1>1, <2>2, <2>3, <2>4, ChangeWritten
<1> QED
  BY <1>2, <1>3

\* The employee a hired applicant becomes is new.
LEMMA HireEmployee ==
    ASSUME PersonnelInv, RecruitmentInv, NEW a \in Applied, HireApplicant(a)
    PROVE  \E e \in Employee, row \in EmployeeRow :
               /\ employee[e] = NULL
               /\ employee' = [employee EXCEPT ![e] = row]
               /\ change' = change
               /\ applicant' = [applicant EXCEPT ![a].stage = "HIRED", ![a].employee_id = e]
<1>1. PICK e \in Employee \ Rows, create \in BOOLEAN :
          /\ create => applicant[a].email # NULL
          /\ employee' = [employee EXCEPT ![e] =
                              Hired(a, IF create THEN applicant[a].email ELSE NULL)]
          /\ applicant' = [applicant EXCEPT ![a].stage = "HIRED", ![a].employee_id = e]
  BY DEF HireApplicant
<1>2. applicant[a].email \in User \cup {NULL}
  BY DEF RecruitmentInv, RecruitmentTypeOK, Applied, ApplicantRow
<1>3. (CHOOSE p \in Phone : TRUE) \in Phone
  BY PersonnelAssumption
<1>4. Hired(a, IF create THEN applicant[a].email ELSE NULL) \in EmployeeRow
  BY <1>1, <1>2, <1>3 DEF Hired, EmployeeRow
<1>5. employee[e] = NULL /\ change' = change
  BY <1>1 DEF Rows, HireApplicant
<1> QED
  BY <1>1, <1>4, <1>5

LEMMA PersonnelKept ==
    ASSUME IInv, [Next]_vars
    PROVE  PersonnelInv' /\ EmployeesStay
<1>1. PersonnelInv /\ RecruitmentInv /\ AccountsInv
  BY DEF IInv, AccountsInv
<1>2. \A w \in Worker : Sound(request[w]) /\ Held(request[w])
  BY DEF IInv, RequestsSound
<1>3. CASE PeopleNext \/ DataNext
  <2>1. ASSUME NEW w \in Worker, \/ LinkEmployeeUser(w) \/ EmployeeFromUser(w) \/ UpdateEmployee(w)
                                 \/ BulkCreateAccounts(w)
        PROVE  UNCHANGED personnelVars
    BY <2>1 DEF LinkEmployeeUser, EmployeeFromUser, UpdateEmployee, BulkCreateAccounts,
                ChangeEmployee
  <2>2. ASSUME NEW e \in Employee, CreateEmployee(e)
        PROVE  PersonnelInv' /\ EmployeesStay
    <3>1. PICK user \in {NULL} \cup (Existing \ Linked), email \in User \cup {NULL},
               phone \in Phone :
              employee' = [employee EXCEPT ![e] =
                  [user_id |-> user, email |-> email, terminated |-> FALSE, phone |-> phone]]
      BY <2>2 DEF CreateEmployee
    <3>2. [user_id |-> user, email |-> email, terminated |-> FALSE, phone |-> phone]
              \in EmployeeRow
      BY DEF EmployeeRow, Existing
    <3> QED
      BY <1>1, <2>2, <3>1, <3>2, EmployeeWritten DEF CreateEmployee
  <2>3. ASSUME NEW w \in Worker, CommitEmployee(w)
        PROVE  PersonnelInv' /\ EmployeesStay
    <3>1. change' = change
      BY <2>3 DEF CommitEmployee
    <3> QED
      BY <1>1, <1>2, <2>3, <3>1, CommitEmployeeKept, EmployeeWritten
  <2> QED
    BY <1>1, <1>3, <2>1, <2>2, <2>3, PersonnelQuiet, SubmitKept, ReviewKept
    DEF PeopleNext, DataNext
<1>4. CASE RecruitmentNext
  <2>1. ASSUME NEW a \in Applied, HireApplicant(a)
        PROVE  PersonnelInv' /\ EmployeesStay
    BY <1>1, <2>1, HireEmployee, EmployeeWritten
  <2>2. CASE CreatePosting \/ UpdatePosting \/ \E i \in Interview : UpdateInterview(i)
    BY <1>1, <2>2, PersonnelQuiet DEF CreatePosting, UpdatePosting, UpdateInterview
  <2>3. ASSUME NEW w \in Worker, (\E a \in Applicant : Apply(w, a)) \/ CommitApplicant(w)
        PROVE  UNCHANGED personnelVars
    BY <2>3 DEF Apply, CommitApplicant
  <2>4. ASSUME NEW a, \/ UpdateStage(a) \/ CompleteTask(a)
                      \/ \E i \in Interview : CreateInterview(a, i)
        PROVE  UNCHANGED personnelVars
    BY <2>4 DEF UpdateStage, CompleteTask, CreateInterview
  <2> QED
    BY <1>1, <1>4, <2>1, <2>2, <2>3, <2>4, PersonnelQuiet DEF RecruitmentNext
<1>5. CASE AccountStep \/ SalaryNext \/ RollbackStep \/ UNCHANGED vars
  <2>1. UNCHANGED personnelVars
    BY <1>5 DEF AccountStep, SalaryNext, CreateAssignment, CommitAssignment, DeleteAssignment,
                RollbackStep, vars
  <2> QED
    BY <1>1, <2>1, PersonnelQuiet
<1> QED
  BY <1>3, <1>4, <1>5, Steps DEF PeopleStep, RecruitmentStep, SalaryStep

---------------------------------------------------------------------------
\* Applicants.

LEMMA RecruitmentQuiet ==
    ASSUME RecruitmentInv, EmployeesStay, UNCHANGED <<applicant, interview, onboarding>>,
           posting' \in PostingStatus \cup {NULL}
    PROVE  RecruitmentInv'
<1>1. RecruitmentTypeOK'
  BY DEF RecruitmentInv, RecruitmentTypeOK
<1>2. \A b \in Applicant : Passed(b)' = Passed(b) /\ Waiting(b)' = Waiting(b)
  BY DEF Passed, Waiting
<1>3. ASSUME NEW b \in Applicant, applicant[b] # NULL
      PROVE  ApplicantSound(b)'
  <2>1. ApplicantSound(b) /\ applicant[b] \in ApplicantRow
    BY <1>3 DEF RecruitmentInv, RecruitmentTypeOK
  <2>2. applicant[b].employee_id # NULL => applicant[b].employee_id \in Employee
    BY <2>1 DEF ApplicantRow
  <2> QED
    BY <1>2, <2>1, <2>2 DEF ApplicantSound, EmployeesStay
<1> QED
  BY <1>1, <1>3 DEF RecruitmentInv

\* One applicant is written, with its interviews and its checklist.
LEMMA ApplicantWritten ==
    ASSUME RecruitmentInv, EmployeesStay, NEW a \in Applicant, NEW row \in ApplicantRow,
           applicant' = [applicant EXCEPT ![a] = row], posting' = posting,
           interview' \in [Interview -> InterviewRow \cup {NULL}],
           onboarding' \in [Applicant -> OnboardingTask \cup {NULL}],
           \A b \in Applicant \ {a} : /\ Passed(b)' = Passed(b)
                                      /\ Waiting(b)' = Waiting(b)
                                      /\ onboarding'[b] = onboarding[b],
           \A i \in Interview : \/ interview'[i] = interview[i]
                                \/ interview'[i].applicant_id = a,
           ApplicantSound(a)'
    PROVE  RecruitmentInv'
<1>1. /\ applicant'[a] = row
      /\ row # NULL
      /\ \A b \in Applicant \ {a} : applicant'[b] = applicant[b]
      /\ applicant' \in [Applicant -> ApplicantRow \cup {NULL}]
  BY ApplicantRowAssumption DEF RecruitmentInv, RecruitmentTypeOK
<1>2. RecruitmentTypeOK'
  BY <1>1 DEF RecruitmentInv, RecruitmentTypeOK
<1>3. ASSUME NEW b \in Applicant \ {a}, applicant[b] # NULL
      PROVE  ApplicantSound(b)'
  <2>1. ApplicantSound(b) /\ applicant[b] \in ApplicantRow /\ applicant'[b] = applicant[b]
    BY <1>1, <1>3 DEF RecruitmentInv, RecruitmentTypeOK
  <2>2. applicant[b].employee_id # NULL => applicant[b].employee_id \in Employee
    BY <2>1 DEF ApplicantRow
  <2>3. /\ applicant[b].stage \in {"OFFER", "HIRED"} => Passed(b)' # {}
        /\ Passed(b)' # {} => applicant[b].stage \in {"OFFER", "HIRED", "REJECTED"}
        /\ AtMostOne(Passed(b)')
        /\ AtMostOne(Waiting(b)')
        /\ applicant[b].stage = "HIRED" <=> applicant[b].employee_id # NULL
        /\ applicant[b].stage = "HIRED" <=> onboarding'[b] # NULL
    BY <2>1 DEF ApplicantSound
  <2>4. ASSUME applicant[b].employee_id # NULL
        PROVE  /\ employee'[applicant[b].employee_id] # NULL
               /\ \A c \in Applicant : applicant'[c] # NULL /\ c # b =>
                      applicant'[c].employee_id # applicant[b].employee_id
    <3>1. employee'[applicant[b].employee_id] # NULL
      BY <2>1, <2>2, <2>4 DEF ApplicantSound, EmployeesStay
    <3>2. row.employee_id # applicant[b].employee_id
      <4>1. row.employee_id # NULL => applicant'[b].employee_id # row.employee_id
        BY <1>1, <1>3, <2>1 DEF ApplicantSound
      <4> QED
        BY <2>1, <2>4, <4>1
    <3>3. \A c \in Applicant \ {a} : applicant[c] # NULL /\ c # b =>
              applicant[c].employee_id # applicant[b].employee_id
      BY <2>1, <2>4 DEF ApplicantSound
    <3> QED
      BY <1>1, <3>1, <3>2, <3>3
  <2> QED
    BY <2>1, <2>3, <2>4 DEF ApplicantSound, AtMostOne
<1>4. \A b \in Applicant : applicant'[b] # NULL => ApplicantSound(b)'
  BY <1>1, <1>3
<1>5. \A b \in Applicant : onboarding'[b] # NULL => applicant'[b] # NULL
  BY <1>1 DEF RecruitmentInv
<1>6. \A i \in Interview : interview'[i] # NULL => applicant'[interview'[i].applicant_id] # NULL
  <2>1. \A i \in Interview : interview[i] # NULL => /\ applicant[interview[i].applicant_id] # NULL
                                                     /\ interview[i].applicant_id \in Applicant
    BY DEF RecruitmentInv, RecruitmentTypeOK, InterviewRow
  <2> QED
    BY <1>1, <2>1
<1> QED
  BY <1>2, <1>4, <1>5, <1>6 DEF RecruitmentInv

\* A row with another stage.
LEMMA Staged ==
    ASSUME NEW row \in ApplicantRow, NEW stage \in ApplicantStage
    PROVE  LET next == [row EXCEPT !.stage = stage]
           IN  /\ next \in ApplicantRow
               /\ next.stage = stage
               /\ next.employee_id = row.employee_id
  BY DEF ApplicantRow

\* The interviews of an applicant that passed, and those it waits for.
LEMMA InterviewsOf ==
    ASSUME RecruitmentInv, NEW a \in Applicant, NEW i \in Interview
    PROVE  /\ i \in Passed(a) <=> /\ interview[i] # NULL
                                  /\ interview[i].applicant_id = a
                                  /\ interview[i].result = "PASS"
           /\ i \in Waiting(a) <=> /\ interview[i] # NULL
                                   /\ interview[i].applicant_id = a
                                   /\ interview[i].result = "PENDING"
<1>1. interview[i] = NULL \/ interview[i] \in InterviewRow
  BY DEF RecruitmentInv, RecruitmentTypeOK
<1>2. \A result \in InterviewResult : [applicant_id |-> a, result |-> result] # NULL
  BY ApplicantRowAssumption DEF InterviewRow
<1>3. \A row \in InterviewRow, result \in InterviewResult :
          row = [applicant_id |-> a, result |-> result]
              <=> row.applicant_id = a /\ row.result = result
  BY DEF InterviewRow
<1>4. "PASS" \in InterviewResult /\ "PENDING" \in InterviewResult
  BY DEF InterviewResult
<1>5. CASE interview[i] = NULL
  BY <1>2, <1>4, <1>5 DEF Passed, Waiting
<1>6. CASE interview[i] # NULL
  BY <1>1, <1>3, <1>4, <1>6 DEF Passed, Waiting
<1> QED
  BY <1>5, <1>6

LEMMA CommitApplicantKept ==
    ASSUME RecruitmentInv, EmployeesStay, NEW w \in Worker, Sound(request[w]), CommitApplicant(w)
    PROVE  RecruitmentInv'
<1>1. PICK a \in Applicant : a = request[w].applicant
  BY DEF Sound, CommitApplicant
<1>2. PICK email \in User \cup {NULL} :
          applicant' = [applicant EXCEPT ![a] =
              [email |-> email, stage |-> "RECEIVED", employee_id |-> NULL]]
  BY <1>1 DEF CommitApplicant
<1>3. applicant[a] = NULL /\ UNCHANGED <<posting, interview, onboarding>>
  BY <1>1 DEF CommitApplicant
<1>4. PICK row : row = [email |-> email, stage |-> "RECEIVED", employee_id |-> NULL]
  OBVIOUS
<1>5. row \in ApplicantRow /\ row.stage = "RECEIVED" /\ row.employee_id = NULL
  BY <1>4 DEF ApplicantRow, ApplicantStage
<1>6. applicant'[a] = row
  BY <1>2, <1>4 DEF RecruitmentInv, RecruitmentTypeOK
<1>7. Passed(a) = {} /\ Waiting(a) = {} /\ onboarding[a] = NULL
  <2>1. \A i \in Interview : interview[i] # NULL => interview[i].applicant_id # a
    BY <1>3 DEF RecruitmentInv
  <2>2. \A i \in Interview : i \notin Passed(a) /\ i \notin Waiting(a)
    BY <2>1, InterviewsOf
  <2> QED
    BY <1>3, <2>2 DEF Passed, Waiting, RecruitmentInv
<1>8. \A b \in Applicant : Passed(b)' = Passed(b) /\ Waiting(b)' = Waiting(b)
  BY <1>3 DEF Passed, Waiting
<1>9. ApplicantSound(a)'
  BY <1>3, <1>5, <1>6, <1>7, <1>8 DEF ApplicantSound, AtMostOne
<1> QED
  BY <1>2, <1>3, <1>4, <1>5, <1>8, <1>9, ApplicantWritten DEF RecruitmentInv, RecruitmentTypeOK

LEMMA UpdateStageKept ==
    ASSUME RecruitmentInv, EmployeesStay, NEW a \in Applied, UpdateStage(a)
    PROVE  RecruitmentInv'
<1>1. PICK stage \in ApplicantStage :
          /\ MayMove(a, stage)
          /\ applicant' = [applicant EXCEPT ![a].stage = stage]
  BY DEF UpdateStage
<1>2. a \in Applicant /\ applicant[a] \in ApplicantRow /\ applicant[a] # NULL
      /\ UNCHANGED <<posting, interview, onboarding>>
  BY DEF Applied, UpdateStage, RecruitmentInv, RecruitmentTypeOK
<1>3. PICK row : row = [applicant[a] EXCEPT !.stage = stage]
  OBVIOUS
<1>4. /\ row \in ApplicantRow
      /\ row.stage = stage
      /\ row.employee_id = applicant[a].employee_id
  BY <1>2, <1>3, Staged
<1>5. applicant' = [applicant EXCEPT ![a] = row] /\ applicant'[a] = row
      /\ \A b \in Applicant \ {a} : applicant'[b] = applicant[b]
  BY <1>1, <1>2, <1>3 DEF RecruitmentInv, RecruitmentTypeOK
<1>6. ApplicantSound(a)
  BY <1>2 DEF RecruitmentInv
<1>7. /\ stage # "HIRED"
      /\ applicant[a].stage # "HIRED"
      /\ stage = "OFFER" => Passed(a) # {}
      /\ Passed(a) # {} => stage \in {"OFFER", "REJECTED"}
  <2>1. stage \in allowed_transitions[applicant[a].stage]
    BY <1>1 DEF MayMove
  <2>2. applicant[a].stage \in ApplicantStage
    BY <1>2 DEF ApplicantRow
  <2>3. /\ stage # "HIRED"
        /\ applicant[a].stage # "HIRED"
        /\ applicant[a].stage \in {"OFFER", "REJECTED"} => stage = "REJECTED"
    BY <2>1, <2>2 DEF allowed_transitions, ApplicantStage
  <2>4. stage = "OFFER" => Passed(a) # {}
    BY <1>1 DEF MayMove
  <2> QED
    BY <1>6, <2>3, <2>4 DEF ApplicantSound
<1>8. \A b \in Applicant : Passed(b)' = Passed(b) /\ Waiting(b)' = Waiting(b)
  BY <1>2 DEF Passed, Waiting
<1>9. ApplicantSound(a)'
  BY <1>2, <1>4, <1>5, <1>6, <1>7, <1>8 DEF ApplicantSound, AtMostOne
<1> QED
  BY <1>2, <1>4, <1>5, <1>8, <1>9, ApplicantWritten DEF RecruitmentInv, RecruitmentTypeOK

LEMMA CreateInterviewKept ==
    ASSUME RecruitmentInv, EmployeesStay, NEW a \in Applied, NEW i \in Interview,
           CreateInterview(a, i)
    PROVE  RecruitmentInv'
<1>1. /\ a \in Applicant
      /\ applicant[a] \in ApplicantRow
      /\ applicant[a] # NULL
      /\ interview[i] = NULL
      /\ applicant[a].stage \in {"SCREENING", "INTERVIEW"}
      /\ Waiting(a) = {}
      /\ UNCHANGED <<posting, onboarding>>
  BY DEF Applied, CreateInterview, RecruitmentInv, RecruitmentTypeOK
<1>2. PICK row, meeting : /\ row = [applicant[a] EXCEPT !.stage = "INTERVIEW"]
                          /\ meeting = [applicant_id |-> a, result |-> "PENDING"]
  OBVIOUS
<1>3. /\ row \in ApplicantRow
      /\ row.stage = "INTERVIEW"
      /\ row.employee_id = applicant[a].employee_id
  BY <1>1, <1>2, Staged DEF ApplicantStage
<1>4. /\ meeting \in InterviewRow
      /\ meeting.applicant_id = a
      /\ \A b \in Applicant : meeting # [applicant_id |-> b, result |-> "PASS"]
      /\ \A b \in Applicant \ {a} : meeting # [applicant_id |-> b, result |-> "PENDING"]
  BY <1>1, <1>2 DEF InterviewRow, InterviewResult
<1>5. /\ applicant' = [applicant EXCEPT ![a] = row]
      /\ applicant'[a] = row
      /\ \A b \in Applicant \ {a} : applicant'[b] = applicant[b]
  BY <1>1, <1>2 DEF CreateInterview, RecruitmentInv, RecruitmentTypeOK
<1>6. /\ interview' \in [Interview -> InterviewRow \cup {NULL}]
      /\ interview'[i] = meeting
      /\ \A j \in Interview \ {i} : interview'[j] = interview[j]
  BY <1>2, <1>4 DEF CreateInterview, RecruitmentInv, RecruitmentTypeOK
<1>7. \A b \in Applicant : i \notin Passed(b) /\ i \notin Waiting(b)
  BY <1>1, InterviewsOf
<1>8. \A b \in Applicant : Passed(b)' = Passed(b)
  BY <1>4, <1>6, <1>7 DEF Passed
<1>9. \A b \in Applicant \ {a} : Waiting(b)' = Waiting(b)
  BY <1>4, <1>6, <1>7 DEF Waiting
<1>10. AtMostOne(Waiting(a)')
  BY <1>1, <1>6 DEF Waiting, AtMostOne
<1>11. ApplicantSound(a)
  BY <1>1 DEF RecruitmentInv
<1>12. ApplicantSound(a)'
  BY <1>1, <1>3, <1>5, <1>8, <1>10, <1>11 DEF ApplicantSound, AtMostOne
<1>13. /\ \A j \in Interview : interview'[j] = interview[j] \/ interview'[j].applicant_id = a
       /\ onboarding' \in [Applicant -> OnboardingTask \cup {NULL}]
  BY <1>1, <1>4, <1>6 DEF RecruitmentInv, RecruitmentTypeOK
<1> QED
  BY <1>1, <1>3, <1>5, <1>6, <1>8, <1>9, <1>12, <1>13, ApplicantWritten

LEMMA UpdateInterviewKept ==
    ASSUME RecruitmentInv, EmployeesStay, NEW i \in Interview, UpdateInterview(i)
    PROVE  RecruitmentInv'
<1>1. PICK a \in Applicant : a = interview[i].applicant_id /\ interview[i] \in InterviewRow
  BY DEF UpdateInterview, RecruitmentInv, RecruitmentTypeOK, InterviewRow
<1>2. /\ interview[i] # NULL
      /\ interview[i].result = "PENDING"
      /\ applicant[a] # NULL
      /\ applicant[a] \in ApplicantRow
      /\ UNCHANGED <<posting, onboarding>>
  BY <1>1 DEF UpdateInterview, RecruitmentInv, RecruitmentTypeOK
<1>3. PICK result \in InterviewResult \ {"PENDING"} :
          /\ result \in {"PASS", "FAIL"} => applicant[a].stage = "INTERVIEW"
          /\ interview' = [interview EXCEPT ![i].result = result]
          /\ applicant' = [applicant EXCEPT ![a].stage =
                 CASE result = "PASS" -> "OFFER"
                   [] result = "FAIL" -> "REJECTED"
                   [] OTHER -> @]
  BY <1>1 DEF UpdateInterview
<1>4. PICK stage : stage = CASE result = "PASS" -> "OFFER"
                             [] result = "FAIL" -> "REJECTED"
                             [] OTHER -> applicant[a].stage
  OBVIOUS
<1>5. stage \in ApplicantStage
  BY <1>2, <1>4 DEF ApplicantRow, ApplicantStage
<1>6. PICK row, meeting : /\ row = [applicant[a] EXCEPT !.stage = stage]
                          /\ meeting = [interview[i] EXCEPT !.result = result]
  OBVIOUS
<1>7. /\ row \in ApplicantRow
      /\ row.stage = stage
      /\ row.employee_id = applicant[a].employee_id
  BY <1>2, <1>5, <1>6, Staged
<1>8. /\ meeting \in InterviewRow
      /\ meeting.applicant_id = a
      /\ meeting.result = result
      /\ meeting = [applicant_id |-> a, result |-> result]
  BY <1>1, <1>6 DEF InterviewRow
<1>9. /\ applicant' = [applicant EXCEPT ![a] = row]
      /\ applicant'[a] = row
      /\ \A b \in Applicant \ {a} : applicant'[b] = applicant[b]
  BY <1>2, <1>3, <1>4, <1>6 DEF RecruitmentInv, RecruitmentTypeOK
<1>10. /\ interview' \in [Interview -> InterviewRow \cup {NULL}]
       /\ interview'[i] = meeting
       /\ \A j \in Interview \ {i} : interview'[j] = interview[j]
  BY <1>3, <1>6, <1>8 DEF RecruitmentInv, RecruitmentTypeOK
<1>11. \A b \in Applicant : i \notin Passed(b) /\ (b # a => i \notin Waiting(b))
  BY <1>1, <1>2, InterviewsOf
<1>12. \A b \in Applicant \ {a} : Passed(b)' = Passed(b) /\ Waiting(b)' = Waiting(b)
  <2>1. \A b \in Applicant \ {a}, x \in InterviewResult :
            meeting # [applicant_id |-> b, result |-> x]
    BY <1>8
  <2>2. "PASS" \in InterviewResult /\ "PENDING" \in InterviewResult
    BY DEF InterviewResult
  <2> QED
    BY <1>10, <1>11, <2>1, <2>2 DEF Passed, Waiting
<1>13. Waiting(a)' \subseteq Waiting(a)
  <2>1. meeting # [applicant_id |-> a, result |-> "PENDING"]
    BY <1>3, <1>8
  <2> QED
    BY <1>10, <2>1 DEF Waiting
<1>14. Passed(a)' = IF result = "PASS" THEN Passed(a) \cup {i} ELSE Passed(a)
  <2>1. CASE result = "PASS"
    BY <1>8, <1>10, <2>1 DEF Passed
  <2>2. CASE result # "PASS"
    <3>1. meeting # [applicant_id |-> a, result |-> "PASS"]
      BY <1>8, <2>2
    <3> QED
      BY <1>10, <1>11, <2>2, <3>1 DEF Passed
  <2> QED
    BY <2>1, <2>2
<1>15. ApplicantSound(a)
  BY <1>2 DEF RecruitmentInv
<1>16. stage = "HIRED" <=> applicant[a].stage = "HIRED"
  BY <1>3, <1>4
<1>17. /\ stage \in {"OFFER", "HIRED"} => Passed(a)' # {}
       /\ Passed(a)' # {} => stage \in {"OFFER", "HIRED", "REJECTED"}
       /\ AtMostOne(Passed(a)')
  <2>1. CASE result = "PASS"
    <3>1. Passed(a) = {} /\ stage = "OFFER"
      BY <1>3, <1>4, <1>15, <2>1 DEF ApplicantSound
    <3> QED
      BY <1>14, <2>1, <3>1 DEF AtMostOne
  <2>2. CASE result = "FAIL"
    BY <1>4, <1>14, <1>15, <2>2 DEF ApplicantSound
  <2>3. CASE result \notin {"PASS", "FAIL"}
    BY <1>4, <1>14, <1>15, <2>3 DEF ApplicantSound
  <2> QED
    BY <2>1, <2>2, <2>3
<1>18. AtMostOne(Waiting(a)')
  BY <1>13, <1>15 DEF ApplicantSound, AtMostOne
<1>19. ApplicantSound(a)'
  BY <1>2, <1>7, <1>9, <1>15, <1>16, <1>17, <1>18 DEF ApplicantSound, AtMostOne, EmployeesStay,
     ApplicantRow
<1>20. /\ \A j \in Interview : interview'[j] = interview[j] \/ interview'[j].applicant_id = a
       /\ onboarding' \in [Applicant -> OnboardingTask \cup {NULL}]
  BY <1>2, <1>8, <1>10 DEF RecruitmentInv, RecruitmentTypeOK
<1> QED
  BY <1>2, <1>7, <1>9, <1>10, <1>12, <1>19, <1>20, ApplicantWritten

LEMMA HireKept ==
    ASSUME PersonnelInv, RecruitmentInv, EmployeesStay, NEW a \in Applied, HireApplicant(a)
    PROVE  RecruitmentInv'
<1>1. PICK e \in Employee, new \in EmployeeRow :
          /\ employee[e] = NULL
          /\ employee' = [employee EXCEPT ![e] = new]
          /\ applicant' = [applicant EXCEPT ![a].stage = "HIRED", ![a].employee_id = e]
  BY HireEmployee
<1>2. /\ a \in Applicant
      /\ applicant[a] \in ApplicantRow
      /\ applicant[a] # NULL
      /\ applicant[a].stage = "OFFER"
      /\ onboarding' = [onboarding EXCEPT ![a] = {}]
      /\ UNCHANGED <<posting, interview>>
  BY DEF Applied, HireApplicant, RecruitmentInv, RecruitmentTypeOK
<1>3. PICK row : row = [applicant[a] EXCEPT !.stage = "HIRED", !.employee_id = e]
  OBVIOUS
<1>4. /\ row \in ApplicantRow
      /\ row.stage = "HIRED"
      /\ row.employee_id = e
  BY <1>2, <1>3 DEF ApplicantRow, ApplicantStage
<1>5. /\ applicant' = [applicant EXCEPT ![a] = row]
      /\ applicant'[a] = row
      /\ \A b \in Applicant \ {a} : applicant'[b] = applicant[b]
  BY <1>1, <1>2, <1>3 DEF RecruitmentInv, RecruitmentTypeOK
<1>6. employee'[e] # NULL /\ e # NULL
  BY <1>1, EmployeeRowAssumption, PersonnelAssumption DEF PersonnelInv, PersonnelTypeOK
<1>7. ASSUME NEW b \in Applicant, applicant[b] # NULL
      PROVE  applicant[b].employee_id # e
  BY <1>1, <1>6, <1>7 DEF RecruitmentInv, ApplicantSound
<1>8. /\ onboarding'[a] # NULL
      /\ \A b \in Applicant \ {a} : onboarding'[b] = onboarding[b]
      /\ onboarding' \in [Applicant -> OnboardingTask \cup {NULL}]
  <2>1. {} \in OnboardingTask
    BY DEF OnboardingTask
  <2> QED
    BY <1>2, <2>1, ApplicantRowAssumption DEF RecruitmentInv, RecruitmentTypeOK
<1>9. \A b \in Applicant : Passed(b)' = Passed(b) /\ Waiting(b)' = Waiting(b)
  BY <1>2 DEF Passed, Waiting
<1>10. ApplicantSound(a)
  BY <1>2 DEF RecruitmentInv
<1>11. /\ row.employee_id # NULL
       /\ \A b \in Applicant : applicant'[b] # NULL /\ b # a =>
              applicant'[b].employee_id # row.employee_id
  BY <1>4, <1>5, <1>6, <1>7
<1>12. ApplicantSound(a)'
  BY <1>2, <1>4, <1>5, <1>6, <1>8, <1>9, <1>10, <1>11 DEF ApplicantSound, AtMostOne
<1> QED
  BY <1>2, <1>4, <1>5, <1>8, <1>9, <1>12, ApplicantWritten DEF RecruitmentInv, RecruitmentTypeOK

LEMMA CompleteTaskKept ==
    ASSUME RecruitmentInv, EmployeesStay, NEW a \in Applied, CompleteTask(a)
    PROVE  RecruitmentInv'
<1>1. PICK task \in Task : onboarding' = [onboarding EXCEPT ![a] =
          IF task \in @ THEN @ \ {task} ELSE @ \cup {task}]
  BY DEF CompleteTask
<1>2. /\ a \in Applicant
      /\ onboarding[a] # NULL
      /\ onboarding[a] \in OnboardingTask
      /\ UNCHANGED <<posting, applicant, interview>>
  BY DEF Applied, CompleteTask, RecruitmentInv, RecruitmentTypeOK
<1>3. PICK tasks : /\ tasks = IF task \in onboarding[a] THEN onboarding[a] \ {task}
                              ELSE onboarding[a] \cup {task}
                   /\ onboarding' = [onboarding EXCEPT ![a] = tasks]
  BY <1>1, <1>2 DEF RecruitmentInv, RecruitmentTypeOK
<1>4. tasks \in OnboardingTask /\ tasks # NULL
  BY <1>2, <1>3, ApplicantRowAssumption DEF OnboardingTask
<1>5. /\ onboarding' \in [Applicant -> OnboardingTask \cup {NULL}]
      /\ \A b \in Applicant : onboarding'[b] = NULL <=> onboarding[b] = NULL
  BY <1>2, <1>3, <1>4 DEF RecruitmentInv, RecruitmentTypeOK
<1>6. RecruitmentTypeOK'
  BY <1>2, <1>5 DEF RecruitmentInv, RecruitmentTypeOK
<1>7. \A b \in Applicant : Passed(b)' = Passed(b) /\ Waiting(b)' = Waiting(b)
  BY <1>2 DEF Passed, Waiting
<1>8. ASSUME NEW b \in Applicant, applicant[b] # NULL
      PROVE  ApplicantSound(b)'
  <2>1. ApplicantSound(b) /\ applicant[b] \in ApplicantRow
    BY <1>8 DEF RecruitmentInv, RecruitmentTypeOK
  <2>2. applicant[b].employee_id # NULL => applicant[b].employee_id \in Employee
    BY <2>1 DEF ApplicantRow
  <2> QED
    BY <1>2, <1>5, <1>7, <2>1, <2>2 DEF ApplicantSound, EmployeesStay
<1> QED
  BY <1>2, <1>5, <1>6, <1>8 DEF RecruitmentInv

LEMMA RecruitmentKept ==
    ASSUME IInv, [Next]_vars
    PROVE  RecruitmentInv'
<1>1. RecruitmentInv /\ PersonnelInv /\ EmployeesStay
  BY PersonnelKept DEF IInv
<1>2. \A w \in Worker : Sound(request[w]) /\ Held(request[w])
  BY DEF IInv, RequestsSound
<1>3. CASE RecruitmentNext
  <2>1. CASE CreatePosting \/ UpdatePosting \/ \E a \in Applicant, w \in Worker : Apply(w, a)
    <3>1. UNCHANGED <<applicant, interview, onboarding>>
      BY <2>1 DEF CreatePosting, UpdatePosting, Apply, recruitmentVars
    <3>2. posting' \in PostingStatus \cup {NULL}
      BY <1>1, <2>1 DEF CreatePosting, UpdatePosting, Apply, recruitmentVars, PostingStatus,
                        RecruitmentInv, RecruitmentTypeOK
    <3> QED
      BY <1>1, <3>1, <3>2, RecruitmentQuiet
  <2>2. ASSUME NEW w \in Worker, CommitApplicant(w)
        PROVE  RecruitmentInv'
    BY <1>1, <1>2, <2>2, CommitApplicantKept
  <2> QED
    BY <1>1, <1>3, <2>1, <2>2, UpdateStageKept, HireKept, CompleteTaskKept, CreateInterviewKept,
       UpdateInterviewKept DEF RecruitmentNext
<1>4. CASE AccountStep \/ PeopleStep \/ SalaryStep \/ RollbackStep \/ UNCHANGED vars
  <2>1. UNCHANGED recruitmentVars
    BY <1>4 DEF AccountStep, PeopleStep, SalaryStep, RollbackStep, vars
  <2>2. posting' \in PostingStatus \cup {NULL}
    BY <1>1, <2>1 DEF recruitmentVars, RecruitmentInv, RecruitmentTypeOK
  <2> QED
    BY <1>1, <2>1, <2>2, RecruitmentQuiet DEF recruitmentVars
<1> QED
  BY <1>3, <1>4, Steps DEF RecruitmentStep

---------------------------------------------------------------------------
\* Salary assignments.

LEMMA ClashSymmetric ==
    ASSUME NEW r, NEW s, Clash(r, s)
    PROVE  Clash(s, r)
  BY DEF Clash

LEMMA CommitAssignmentKept ==
    ASSUME SalaryInv, NEW w \in Worker, Sound(request[w]), Held(request[w]), CommitAssignment(w)
    PROVE  SalaryInv'
<1>1. PICK row \in SalaryAssignmentCreate : row = request[w].row
  BY DEF Sound, CommitAssignment
<1>2. PICK new : new = CHOOSE a \in Assignment \ Assigned : TRUE
  OBVIOUS
<1>3. new \in Assignment \ Assigned
  <2>1. \E a \in Assignment \ Assigned : TRUE
    BY DEF CommitAssignment, Assigned
  <2> QED
    BY <1>2, <2>1
<1>4. /\ assignment' = [assignment EXCEPT ![new] = row]
      /\ crossed' = IF request[w].late THEN crossed \cup {new} ELSE crossed
      /\ ~ request[w].late =>
             \A a \in Assignment : assignment[a] # NULL => ~ Clash(assignment[a], row)
  BY <1>1, <1>2 DEF CommitAssignment, Held
<1>5. /\ assignment'[new] = row
      /\ \A a \in Assignment \ {new} : assignment'[a] = assignment[a]
      /\ SalaryTypeOK'
  BY <1>3, <1>4 DEF SalaryInv, SalaryTypeOK
<1>6. ASSUME NEW a \in Assignment \ crossed', NEW b \in Assignment \ crossed', a # b,
             assignment'[a] # NULL, assignment'[b] # NULL, Clash(assignment'[a], assignment'[b])
      PROVE  FALSE
  <2>1. a \notin crossed /\ b \notin crossed
    BY <1>4, <1>6
  <2>2. CASE a # new /\ b # new
    BY <1>5, <1>6, <2>1, <2>2 DEF SalaryInv
  <2>3. CASE a = new
    <3>1. ~ request[w].late
      BY <1>4, <1>6, <2>3
    <3>2. Clash(assignment[b], row)
      BY <1>5, <1>6, <2>3, ClashSymmetric
    <3> QED
      BY <1>4, <1>5, <1>6, <2>3, <3>1, <3>2
  <2>4. CASE b = new
    <3>1. ~ request[w].late
      BY <1>4, <1>6, <2>4
    <3> QED
      BY <1>4, <1>5, <1>6, <2>4, <3>1
  <2> QED
    BY <2>2, <2>3, <2>4
<1> QED
  BY <1>5, <1>6 DEF SalaryInv

LEMMA DeleteAssignmentKept ==
    ASSUME SalaryInv, NEW a \in Assigned, DeleteAssignment(a)
    PROVE  /\ SalaryInv'
           /\ \A b \in Assignment : assignment'[b] # NULL => assignment'[b] = assignment[b]
<1>1. /\ a \in Assignment
      /\ assignment' = [assignment EXCEPT ![a] = NULL]
      /\ crossed' = crossed \ {a}
  BY DEF Assigned, DeleteAssignment
<1>2. /\ assignment'[a] = NULL
      /\ \A b \in Assignment \ {a} : assignment'[b] = assignment[b]
      /\ SalaryTypeOK'
  BY <1>1 DEF SalaryInv, SalaryTypeOK
<1> QED
  BY <1>1, <1>2 DEF SalaryInv

LEMMA SalaryKept ==
    ASSUME IInv, [Next]_vars
    PROVE  SalaryInv'
<1>1. SalaryInv /\ \A w \in Worker : Sound(request[w]) /\ Held(request[w])
  BY DEF IInv, RequestsSound
<1>2. CASE UNCHANGED salaryVars
  BY <1>1, <1>2 DEF SalaryInv, SalaryTypeOK, salaryVars
<1>3. CASE SalaryNext
  <2>1. ASSUME NEW w \in Worker, CreateAssignment(w)
        PROVE  UNCHANGED salaryVars
    BY <2>1 DEF CreateAssignment
  <2> QED
    BY <1>1, <1>2, <1>3, <2>1, CommitAssignmentKept, DeleteAssignmentKept DEF SalaryNext
<1> QED
  BY <1>2, <1>3, Steps DEF AccountStep, PeopleStep, RecruitmentStep, SalaryStep, RollbackStep,
     vars

---------------------------------------------------------------------------
\* Requests.

\* What a handler relies on stays, as long as no assignment is added.
LEMMA HeldStays ==
    ASSUME IInv, [Next]_vars, NEW q, Sound(q), Held(q),
           q.op = "assign" /\ ~ q.late => \A a \in Assignment :
               assignment'[a] # NULL => assignment'[a] = assignment[a]
    PROVE  Held(q)'
<1>1. GoodKept /\ EmployeesStay
  BY AccountsKept, PersonnelKept
<1>2. q.op \in {"admitted", "issue"} \cup AccountOps => account'[q.target] # NULL
  BY <1>1 DEF Sound, AccountRequest, Held, GoodKept
<1>3. q.op = "issue" /\ q.target \notin raced' => Good(q.target, q.ver, q.epoch)'
  BY <1>1 DEF Sound, AccountRequest, Held, GoodKept
<1>4. q.op \in EmployeeOps =>
          /\ q.op # "insert" => employee'[q.employee] # NULL
          /\ q.disables # NULL => account'[q.disables] # NULL
  <2> SUFFICES ASSUME q.op \in EmployeeOps
               PROVE  /\ q.op # "insert" => employee'[q.employee] # NULL
                      /\ q.disables # NULL => account'[q.disables] # NULL
    OBVIOUS
  <2>1. q.employee \in Employee /\ (q.disables # NULL => q.disables \in User)
    BY DEF Sound, EmployeeRequest
  <2>2. /\ q.op # "insert" => employee[q.employee] # NULL
        /\ q.disables # NULL => account[q.disables] # NULL
    BY DEF Held
  <2> QED
    BY <1>1, <2>1, <2>2 DEF EmployeesStay, GoodKept
<1>5. q.op = "assign" /\ ~ q.late =>
          \A a \in Assignment : assignment'[a] # NULL => ~ Clash(assignment'[a], q.row)
  BY DEF Held
<1> QED
  BY <1>2, <1>3, <1>4, <1>5 DEF Held

\* The requests after a step that adds no assignment and changes one request or none.
LEMMA RequestsStay ==
    ASSUME IInv, [Next]_vars, NEW w \in Worker, NEW q,
           request' = [request EXCEPT ![w] = q],
           \A a \in Assignment : assignment'[a] # NULL => assignment'[a] = assignment[a],
           Sound(q), Held(q)'
    PROVE  RequestsSound' /\ DOMAIN request' = Worker
<1>1. /\ DOMAIN request' = Worker
      /\ request'[w] = q
      /\ \A v \in Worker \ {w} : request'[v] = request[v]
  BY DEF IInv
<1>2. ASSUME NEW v \in Worker \ {w}
      PROVE  Sound(request[v]) /\ Held(request[v])'
  <2>1. PICK r : r = request[v]
    OBVIOUS
  <2>2. Sound(r) /\ Held(r)
    BY <2>1 DEF IInv, RequestsSound
  <2>3. Held(r)'
    BY <2>2, HeldStays
  <2>4. r = request'[v]
    BY <1>1, <2>1
  <2> QED
    BY <2>1, <2>2, <2>3, <2>4
<1>3. Held(request[w])'
  BY <1>1
<1>4. Sound(request'[w]) /\ \A v \in Worker \ {w} : Sound(request'[v])
  BY <1>1, <1>2
<1>5. \A v \in Worker : Sound(request'[v]) /\ Held(request[v])'
  BY <1>2, <1>3, <1>4
<1> QED
  BY <1>1, <1>5 DEF RequestsSound

LEMMA IdleSound == Sound(Idle) /\ Held(Idle) /\ Held(Idle)'
  BY DEF Sound, AccountRequest, EmployeeRequest, Held, Idle, AccountOps, EmployeeOps

LEMMA RequestsUnchanged ==
    ASSUME IInv, [Next]_vars, UNCHANGED request,
           \A a \in Assignment : assignment'[a] # NULL => assignment'[a] = assignment[a]
    PROVE  RequestsSound' /\ DOMAIN request' = Worker
<1>1. ASSUME NEW v \in Worker
      PROVE  Sound(request[v]) /\ Held(request[v])'
  <2>1. PICK r : r = request[v]
    OBVIOUS
  <2>2. Sound(r) /\ Held(r)
    BY <2>1 DEF IInv, RequestsSound
  <2>3. Held(r)'
    BY <2>2, HeldStays
  <2>4. r = request'[v]
    BY <2>1
  <2> QED
    BY <2>1, <2>2, <2>3, <2>4
<1> QED
  BY <1>1 DEF RequestsSound, IInv

\* A count of more than one names another.
LEMMA AnotherOne ==
    ASSUME NEW S, NEW u, Cardinality(S) > 1
    PROVE  \E v \in S : v # u
<1> SUFFICES ASSUME \A v \in S : v = u
             PROVE  FALSE
  OBVIOUS
<1>1. S = {} \/ S = {u}
  OBVIOUS
<1>2. Cardinality({}) = 0 /\ Cardinality({u}) = 1
  BY FS_EmptySet, FS_Singleton
<1> QED
  BY <1>1, <1>2

\* A handler that has loaded the row of an account.
LEMMA LoadedSound ==
    ASSUME IInv, [Next]_vars, NEW w \in Worker, NEW target \in User, NEW new \in AccountRow,
           NEW read \in AccountRow, NEW op \in AccountOps,
           account[target] # NULL,
           new.token_version = read.token_version + 1,
           \/ new.role = read.role /\ new.is_active = read.is_active
           \/ op \in {"update_user", "deactivate_user"},
           \/ new.role = read.role \/ new.role = "SUPER_ADMIN"
           \/ target \notin ActiveSuperAdmins
           \/ \E u \in ActiveSuperAdmins : u # target,
           \/ new.is_active \/ ~ read.is_active
           \/ target \notin ActiveSuperAdmins
           \/ \E u \in ActiveSuperAdmins : u # target,
           request' = [request EXCEPT ![w] =
               [op |-> op, target |-> target, read |-> read, new |-> new,
                admins |-> ActiveSuperAdmins, reset |-> NULL]],
           UNCHANGED assignment
    PROVE  RequestsSound' /\ DOMAIN request' = Worker
<1>1. PICK q : q = [op |-> op, target |-> target, read |-> read, new |-> new,
                    admins |-> ActiveSuperAdmins, reset |-> NULL]
  OBVIOUS
<1>2. /\ q.op = op
      /\ q.target = target
      /\ q.read = read
      /\ q.new = new
      /\ q.admins = ActiveSuperAdmins
      /\ q.reset = NULL
      /\ {"op", "target", "read", "new", "admins", "reset"} \subseteq DOMAIN q
  BY <1>1
<1>3. op \notin EmployeeOps /\ op \notin {"admitted", "issue", "menu_access", "apply", "assign"}
  BY DEF AccountOps, EmployeeOps
<1>4. /\ Removes(q) => \/ q.target \notin q.admins
                       \/ \E u \in q.admins : u # q.target
      /\ Removes(q) => q.op \in {"update_user", "deactivate_user"}
  BY <1>2 DEF Removes, AccountRow
<1>5. AccountRequest(q)
  BY <1>2, <1>3, <1>4 DEF AccountRequest
<1>6. Sound(q)
  BY <1>2, <1>3, <1>5 DEF Sound, EmployeeRequest
<1>7. Held(q)
  BY <1>2, <1>3 DEF Held
<1>8. Held(q)'
  BY <1>2, <1>3, <1>6, <1>7, HeldStays
<1> QED
  BY <1>1, <1>6, <1>8, RequestsStay

LEMMA AdmitSound ==
    ASSUME IInv, [Next]_vars, NEW w \in Worker, Admit(w), UNCHANGED assignment
    PROVE  RequestsSound' /\ DOMAIN request' = Worker
<1>1. PICK u \in User :
          /\ \E t \in token[u] : Accepted(u, t)
          /\ request' = [request EXCEPT ![w] = [op |-> "admitted", target |-> u, read |-> account[u]]]
  BY DEF Admit
<1>2. account[u] # NULL /\ account[u] \in AccountRow
  BY <1>1 DEF Accepted, IInv, AccountsTyped
<1>3. PICK q : q = [op |-> "admitted", target |-> u, read |-> account[u]]
  OBVIOUS
<1>4. Sound(q) /\ Held(q) /\ q.op # "assign"
  BY <1>2, <1>3 DEF Sound, AccountRequest, EmployeeRequest, Held, AccountOps, EmployeeOps
<1>5. Held(q)'
  BY <1>4, HeldStays
<1> QED
  BY <1>1, <1>3, <1>4, <1>5, RequestsStay

\* The requests that change an account.
LEMMA ChangeRequestsSound ==
    ASSUME IInv, [Next]_vars, NEW w \in Worker, UNCHANGED assignment,
           ChangePassword(w) \/ ResetPassword(w) \/ UpdateUser(w) \/ DeactivateUser(w)
    PROVE  RequestsSound' /\ DOMAIN request' = Worker
<1>1. /\ request[w].op = "admitted"
      /\ request[w].target \in User
      /\ request[w].read \in AccountRow
      /\ account[request[w].target] # NULL
  <2>1. request[w].op = "admitted"
    BY DEF ChangePassword, ResetPassword, UpdateUser, DeactivateUser
  <2>2. Sound(request[w]) /\ Held(request[w])
    BY DEF IInv, RequestsSound
  <2> QED
    BY <2>1, <2>2 DEF Sound, AccountRequest, Held
<1>2. \A u \in User : account[u] # NULL => account[u] \in AccountRow
  BY DEF IInv, AccountsTyped
<1>3. \A row \in AccountRow : row.token_version + 1 \in Nat
  BY DEF AccountRow
<1>4. CASE ChangePassword(w)
  <2>1. PICK new : new = [request[w].read EXCEPT !.must_change_password = FALSE,
                                                 !.token_version = @ + 1]
    OBVIOUS
  <2>2. /\ new \in AccountRow
        /\ new.token_version = request[w].read.token_version + 1
        /\ new.role = request[w].read.role
        /\ new.is_active = request[w].read.is_active
    BY <1>1, <1>3, <2>1 DEF AccountRow
  <2>3. request' = [request EXCEPT ![w] =
               [op |-> "change_password", target |-> request[w].target, read |-> request[w].read,
                new |-> new, admins |-> ActiveSuperAdmins, reset |-> NULL]]
    BY <1>4, <2>1 DEF ChangePassword, ChangeAccount, Loaded
  <2>4. "change_password" \in AccountOps
    BY DEF AccountOps
  <2>5. PICK target, read : target = request[w].target /\ read = request[w].read
    OBVIOUS
  <2>6. /\ target \in User
        /\ read \in AccountRow
        /\ account[target] # NULL
        /\ new.token_version = read.token_version + 1
        /\ new.role = read.role
        /\ new.is_active = read.is_active
        /\ request' = [request EXCEPT ![w] =
               [op |-> "change_password", target |-> target, read |-> read,
                new |-> new, admins |-> ActiveSuperAdmins, reset |-> NULL]]
    BY <1>1, <2>2, <2>3, <2>5
  <2> QED
    BY <2>2, <2>4, <2>6, LoadedSound
<1>5. CASE ResetPassword(w)
  <2>1. PICK target \in User :
            /\ account[target] # NULL
            /\ target # request[w].target
            /\ ChangeAccount(w, "reset_password", target,
                   [account[target] EXCEPT !.must_change_password = TRUE, !.token_version = @ + 1])
    BY <1>5 DEF ResetPassword
  <2>2. PICK new : new = [account[target] EXCEPT !.must_change_password = TRUE,
                                                 !.token_version = @ + 1]
    OBVIOUS
  <2>3. account[target] \in AccountRow
    BY <1>2, <2>1
  <2>4. /\ new \in AccountRow
        /\ new.token_version = account[target].token_version + 1
        /\ new.role = account[target].role
        /\ new.is_active = account[target].is_active
    BY <1>3, <2>2, <2>3 DEF AccountRow
  <2>5. request' = [request EXCEPT ![w] =
               [op |-> "reset_password", target |-> target, read |-> account[target],
                new |-> new, admins |-> ActiveSuperAdmins, reset |-> NULL]]
    BY <2>1, <2>2 DEF ChangeAccount, Loaded
  <2>6. "reset_password" \in AccountOps
    BY DEF AccountOps
  <2> QED
    BY <2>1, <2>3, <2>4, <2>5, <2>6, LoadedSound
<1>6. CASE UpdateUser(w)
  <2> DEFINE Updates(target, role, active, row, new) ==
          /\ row = Loaded(w, target)
          /\ new = [row EXCEPT !.role = role, !.is_active = active]
          /\ row # NULL
          /\ new # row
          /\ target = request[w].target
                => active /\ (role # row.role => role = "SUPER_ADMIN")
          /\ \/ role # row.role /\ role # "SUPER_ADMIN"
             \/ row.is_active /\ ~ active
             => NotLast(target, row)
          /\ ChangeAccount(w, "update_user", target, Revoked(row, new))
  <2>0. PICK target \in User, role \in Role, active \in BOOLEAN :
            \E row, new : Updates(target, role, active, row, new)
    BY <1>6 DEF UpdateUser
  <2>1. PICK row, new : Updates(target, role, active, row, new)
    BY <2>0
  <2>2. row \in AccountRow /\ account[target] # NULL
    BY <1>1, <1>2, <2>1 DEF Loaded
  <2>3. /\ new \in AccountRow
        /\ new.role = role
        /\ new.is_active = active
        /\ new.token_version = row.token_version
        /\ new.role # row.role \/ new.is_active # row.is_active
    BY <2>1, <2>2 DEF AccountRow
  <2>4. PICK raised : raised = Revoked(row, new)
    OBVIOUS
  <2>5. /\ raised \in AccountRow
        /\ raised.token_version = row.token_version + 1
        /\ raised.role = role
        /\ raised.is_active = active
    BY <1>3, <2>2, <2>3, <2>4 DEF Revoked, AccountRow
  <2>6. request' = [request EXCEPT ![w] =
               [op |-> "update_user", target |-> target, read |-> row,
                new |-> raised, admins |-> ActiveSuperAdmins, reset |-> NULL]]
    BY <2>1, <2>4 DEF ChangeAccount
  <2>7. ASSUME \/ role # row.role /\ role # "SUPER_ADMIN"
               \/ row.is_active /\ ~ active
        PROVE  \/ target \notin ActiveSuperAdmins
               \/ \E u \in ActiveSuperAdmins : u # target
    <3>1. row = account[target] /\ NotLast(target, row)
      BY <2>1, <2>7 DEF Loaded
    <3>2. target \in ActiveSuperAdmins => Cardinality(ActiveSuperAdmins) > 1
      BY <3>1 DEF NotLast, ActiveSuperAdmins
    <3> QED
      BY <3>2, AnotherOne
  <2>8. "update_user" \in AccountOps
    BY DEF AccountOps
  <2>9. /\ \/ raised.role = row.role \/ raised.role = "SUPER_ADMIN"
           \/ target \notin ActiveSuperAdmins
           \/ \E u \in ActiveSuperAdmins : u # target
        /\ \/ raised.is_active \/ ~ row.is_active
           \/ target \notin ActiveSuperAdmins
           \/ \E u \in ActiveSuperAdmins : u # target
    BY <2>5, <2>7
  <2> QED
    BY <2>2, <2>5, <2>6, <2>8, <2>9, LoadedSound
<1>7. CASE DeactivateUser(w)
  <2>1. PICK target \in User :
            /\ account[target] # NULL
            /\ target # request[w].target
            /\ NotLast(target, account[target])
            /\ ChangeAccount(w, "deactivate_user", target,
                   [account[target] EXCEPT !.is_active = FALSE, !.token_version = @ + 1])
    BY <1>7 DEF DeactivateUser
  <2>2. PICK new : new = [account[target] EXCEPT !.is_active = FALSE, !.token_version = @ + 1]
    OBVIOUS
  <2>3. account[target] \in AccountRow
    BY <1>2, <2>1
  <2>4. /\ new \in AccountRow
        /\ new.token_version = account[target].token_version + 1
        /\ new.role = account[target].role
    BY <1>3, <2>2, <2>3 DEF AccountRow
  <2>5. request' = [request EXCEPT ![w] =
               [op |-> "deactivate_user", target |-> target, read |-> account[target],
                new |-> new, admins |-> ActiveSuperAdmins, reset |-> NULL]]
    BY <2>1, <2>2 DEF ChangeAccount, Loaded
  <2>6. target \notin ActiveSuperAdmins \/ \E u \in ActiveSuperAdmins : u # target
    <3>1. target \in ActiveSuperAdmins => Cardinality(ActiveSuperAdmins) > 1
      BY <2>1 DEF NotLast, ActiveSuperAdmins
    <3> QED
      BY <3>1, AnotherOne
  <2>7. "deactivate_user" \in AccountOps
    BY DEF AccountOps
  <2> QED
    BY <2>1, <2>3, <2>4, <2>5, <2>6, <2>7, LoadedSound
<1> QED
  BY <1>4, <1>5, <1>6, <1>7

\* The rows update_user will insert are those of the new role.
LEMMA FlushRoleSound ==
    ASSUME IInv, [Next]_vars, NEW w \in Worker, FlushRole(w), UNCHANGED assignment
    PROVE  RequestsSound' /\ DOMAIN request' = Worker
<1>0. PICK p, reset : /\ p = request[w]
                      /\ reset = [gone |-> {m \in Menu : access[p.target][m] # NULL},
                                  rows |-> PresetRows(p.target, p.new.role)]
  OBVIOUS
<1>1. PICK q : q = [p EXCEPT !.reset = reset]
  OBVIOUS
<1>2. /\ p.op = "update_user"
      /\ request' = [request EXCEPT ![w] = q]
  BY <1>0, <1>1 DEF FlushRole
<1>3. Sound(p) /\ Held(p)
  BY <1>0 DEF IInv, RequestsSound
<1>4. {"op", "target", "read", "new", "admins", "reset"} \subseteq DOMAIN p
  BY <1>2, <1>3 DEF Sound, AccountRequest, AccountOps
<1>5. /\ q.op = p.op
      /\ q.target = p.target
      /\ q.read = p.read
      /\ q.new = p.new
      /\ q.admins = p.admins
      /\ q.reset = reset
      /\ {"op", "target", "read", "new", "admins", "reset"} \subseteq DOMAIN q
  BY <1>1, <1>4
<1>6. PresetOnly(q.reset.rows, q.new.role)
  <2>1. ASSUME NEW u, NEW role
        PROVE  PresetOnly(PresetRows(u, role), role)
    BY AccountAssumption DEF PresetRows, PresetOnly
  <2>2. q.reset.rows = PresetRows(p.target, p.new.role)
    BY <1>0, <1>5
  <2> QED
    BY <1>5, <2>1, <2>2
<1>7. "update_user" \in AccountOps
      /\ "update_user" \notin EmployeeOps \cup {"admitted", "issue", "menu_access", "apply", "assign"}
  BY DEF AccountOps, EmployeeOps
<1>8. AccountRequest(q)
  BY <1>2, <1>3, <1>5, <1>6, <1>7 DEF Sound, AccountRequest, Removes
<1>9. Sound(q) /\ Held(q)
  BY <1>2, <1>3, <1>5, <1>7, <1>8 DEF Sound, EmployeeRequest, Held
<1>10. Held(q)'
  BY <1>2, <1>5, <1>7, <1>9, HeldStays
<1> QED
  BY <1>2, <1>9, <1>10, RequestsStay

\* A changed password waits for its token.
LEMMA CommitAccountSound ==
    ASSUME IInv, [Next]_vars, NEW w \in Worker, CommitAccount(w), UNCHANGED assignment
    PROVE  RequestsSound' /\ DOMAIN request' = Worker
<1>0. PICK p, u : p = request[w] /\ u = p.target
  OBVIOUS
<1>1. CASE p.op # "change_password"
  <2>1. request' = [request EXCEPT ![w] = Idle]
    BY <1>0, <1>1 DEF CommitAccount, Finished
  <2> QED
    BY <2>1, IdleSound, RequestsStay
<1>2. CASE p.op = "change_password"
  <2>1. /\ u \in User
        /\ p.read \in AccountRow
        /\ p.new \in AccountRow
        /\ p.new.token_version = p.read.token_version + 1
        /\ account[u] \in AccountRow
    <3>1. Sound(p) /\ Held(p) /\ p.op \in AccountOps
      BY <1>0, <1>2 DEF IInv, RequestsSound, AccountOps
    <3> QED
      BY <1>0, <3>1 DEF Sound, AccountRequest, Held, IInv, AccountsTyped
  <2>2. PICK row : row = Merged(account[u], p.read, p.new)
    OBVIOUS
  <2>3. row.token_version = p.new.token_version /\ row \in AccountRow
    <3>1. p.new.token_version # p.read.token_version
      BY <2>1 DEF AccountRow
    <3> QED
      BY <2>1, <2>2, <3>1, MergedAccount
  <2>4. /\ account' = [account EXCEPT ![u] = row]
        /\ epoch' = [epoch EXCEPT ![u] = @ + 1]
        /\ request' = [request EXCEPT ![w] =
               [op |-> "issue", target |-> u, epoch |-> epoch[u] + 1,
                ver |-> p.new.token_version]]
    BY <1>0, <1>2, <2>2 DEF CommitAccount
  <2>5. account'[u] = row /\ epoch'[u] = epoch[u] + 1 /\ epoch[u] \in Nat /\ row # NULL
    BY <2>1, <2>3, <2>4, AccountRowAssumption DEF IInv, AccountsTyped
  <2>6. PICK q : q = [op |-> "issue", target |-> u, epoch |-> epoch[u] + 1,
                      ver |-> p.new.token_version]
    OBVIOUS
  <2>7. /\ q.op = "issue"
        /\ q.target = u
        /\ q.epoch = epoch[u] + 1
        /\ q.ver = p.new.token_version
        /\ q.epoch \in Nat
        /\ q.ver \in Nat
    BY <2>1, <2>5, <2>6 DEF AccountRow
  <2>8. Sound(q)
    BY <2>1, <2>7 DEF Sound, AccountRequest, EmployeeRequest, AccountOps, EmployeeOps
  <2>9. Good(q.target, q.ver, q.epoch)'
    BY <2>3, <2>5, <2>7 DEF Good
  <2>10. Held(q)'
    BY <2>5, <2>7, <2>9 DEF Held, EmployeeOps
  <2> QED
    BY <2>4, <2>6, <2>8, <2>10, RequestsStay
<1> QED
  BY <1>1, <1>2

\* The requests about menus.
LEMMA MenuRequestsSound ==
    ASSUME IInv, [Next]_vars, NEW w \in Worker, UNCHANGED assignment,
           OpenMenus(w) \/ EnsureDefaultMenus(w) \/ OpenResync(w)
    PROVE  RequestsSound' /\ DOMAIN request' = Worker
<1> DEFINE Waits(q) == /\ request' = [request EXCEPT ![w] = q]
                       /\ \/ q.op = "menu_access" /\ q.target \in User
                          \/ q.op \in {"seed", "resync"}
<1>1. ASSUME OpenMenus(w) PROVE \E q : Waits(q)
  <2>1. PICK target \in User :
            request' = [request EXCEPT ![w] =
                [op |-> "menu_access", target |-> target, role |-> account[target].role]]
    BY <1>1 DEF OpenMenus
  <2>2. PICK q : q = [op |-> "menu_access", target |-> target, role |-> account[target].role]
    OBVIOUS
  <2>3. q.op = "menu_access" /\ q.target \in User
    BY <2>2
  <2> QED
    BY <2>1, <2>2, <2>3
<1>2. ASSUME EnsureDefaultMenus(w) \/ OpenResync(w) PROVE \E q : Waits(q)
  <2>1. PICK op \in {"seed", "resync"} :
            request' = [request EXCEPT ![w] =
                [op |-> op,
                 roles |-> [u \in {v \in User : account[v] # NULL /\ account[v].is_active} |->
                                account[u].role]]]
    BY <1>2 DEF EnsureDefaultMenus, OpenResync
  <2>2. PICK q : q = [op |-> op,
                      roles |-> [u \in {v \in User : account[v] # NULL /\ account[v].is_active} |->
                                     account[u].role]]
    OBVIOUS
  <2>3. q.op = op
    BY <2>2
  <2> QED
    BY <2>1, <2>2, <2>3
<1>3. PICK q : Waits(q)
  BY <1>1, <1>2
<1>4. Sound(q) /\ Held(q) /\ q.op # "assign"
  BY <1>3 DEF Sound, AccountRequest, EmployeeRequest, Held, AccountOps, EmployeeOps
<1>5. Held(q)'
  BY <1>4, HeldStays
<1> QED
  BY <1>3, <1>4, <1>5, RequestsStay

\* A handler that has loaded the row of an employee.
LEMMA EmployeeLoadedSound ==
    ASSUME IInv, [Next]_vars, NEW w \in Worker, NEW op \in EmployeeOps, NEW e \in Employee,
           NEW new \in EmployeeRow, NEW opens \in Role \cup {NULL}, NEW disables,
           op = "insert" <=> employee[e] = NULL,
           opens # NULL => /\ op = "bulk"
                           /\ employee[e].user_id = NULL
                           /\ new.user_id \in User,
           disables # NULL => /\ disables \in User
                              /\ op = "update_employee"
                              /\ account[disables] # NULL,
           ChangeEmployee(w, op, e, new, opens, disables),
           UNCHANGED assignment
    PROVE  RequestsSound' /\ DOMAIN request' = Worker
<1>1. PICK q : q = [op |-> op, employee |-> e, read |-> employee[e], new |-> new,
                    opens |-> opens, disables |-> disables]
  OBVIOUS
<1>2. /\ q.op = op
      /\ q.employee = e
      /\ q.read = employee[e]
      /\ q.new = new
      /\ q.opens = opens
      /\ q.disables = disables
  BY <1>1
<1>3. request' = [request EXCEPT ![w] = q]
  BY <1>1 DEF ChangeEmployee
<1>4. op \notin AccountOps /\ op \notin {"admitted", "issue", "menu_access", "apply", "assign"}
  BY DEF AccountOps, EmployeeOps
<1>5. employee[e] \in EmployeeRow \cup {NULL}
  BY DEF IInv, PersonnelInv, PersonnelTypeOK
<1>6. EmployeeRequest(q)
  <2>1. opens # NULL => employee[e] # NULL
    OBVIOUS
  <2> QED
    BY <1>2, <1>5, <2>1 DEF EmployeeRequest
<1>7. AccountRequest(q)
  BY <1>2, <1>4 DEF AccountRequest
<1>8. Sound(q)
  BY <1>2, <1>4, <1>6, <1>7 DEF Sound
<1>9. Held(q)
  BY <1>2, <1>4 DEF Held
<1>10. Held(q)'
  BY <1>2, <1>4, <1>8, <1>9, HeldStays
<1> QED
  BY <1>3, <1>8, <1>10, RequestsStay

\* The requests about employees.
LEMMA EmployeeRequestsSound ==
    ASSUME IInv, [Next]_vars, NEW w \in Worker, UNCHANGED assignment,
           LinkEmployeeUser(w) \/ EmployeeFromUser(w) \/ UpdateEmployee(w) \/ BulkCreateAccounts(w)
    PROVE  RequestsSound' /\ DOMAIN request' = Worker
<1>1. \A e \in Rows : e \in Employee /\ employee[e] # NULL /\ employee[e] \in EmployeeRow
  BY DEF Rows, IInv, PersonnelInv, PersonnelTypeOK
<1>2. \A u \in Existing : u \in User /\ account[u] # NULL
  BY DEF Existing
<1>3. /\ "link" \in EmployeeOps
      /\ "insert" \in EmployeeOps
      /\ "update_employee" \in EmployeeOps
      /\ "bulk" \in EmployeeOps
  BY DEF EmployeeOps
<1>4. ASSUME NEW e \in Rows, NEW u \in Existing,
             ChangeEmployee(w, "link", e, [employee[e] EXCEPT !.user_id = u], NULL, NULL)
      PROVE  RequestsSound' /\ DOMAIN request' = Worker
  <2>1. PICK new : new = [employee[e] EXCEPT !.user_id = u]
    OBVIOUS
  <2>2. new \in EmployeeRow
    BY <1>1, <1>2, <2>1 DEF EmployeeRow
  <2> QED
    BY <1>1, <1>3, <1>4, <2>1, <2>2, EmployeeLoadedSound
<1>5. CASE LinkEmployeeUser(w)
  BY <1>4, <1>5 DEF LinkEmployeeUser
<1>6. CASE EmployeeFromUser(w)
  <2>1. PICK u \in Existing \ Linked :
            \/ \E e \in Rows :
                   ChangeEmployee(w, "link", e, [employee[e] EXCEPT !.user_id = u], NULL, NULL)
            \/ \E e \in Employee \ Rows, phone \in Phone :
                   ChangeEmployee(w, "insert", e,
                       [user_id |-> u, email |-> u, terminated |-> FALSE, phone |-> phone],
                       NULL, NULL)
    BY <1>6 DEF EmployeeFromUser
  <2>2. ASSUME NEW e \in Employee \ Rows, NEW phone \in Phone,
               ChangeEmployee(w, "insert", e,
                   [user_id |-> u, email |-> u, terminated |-> FALSE, phone |-> phone],
                   NULL, NULL)
        PROVE  RequestsSound' /\ DOMAIN request' = Worker
    <3>1. PICK new : new = [user_id |-> u, email |-> u, terminated |-> FALSE, phone |-> phone]
      OBVIOUS
    <3>2. new \in EmployeeRow
      BY <1>2, <3>1 DEF EmployeeRow
    <3>3. employee[e] = NULL
      BY DEF Rows
    <3> QED
      BY <1>3, <2>2, <3>1, <3>2, <3>3, EmployeeLoadedSound
  <2> QED
    BY <1>4, <2>1, <2>2
<1>7. CASE UpdateEmployee(w)
  <2>1. PICK e \in Rows, user \in {NULL} \cup Existing, terminated \in BOOLEAN, phone \in Phone :
            ChangeEmployee(w, "update_employee", e,
                [employee[e] EXCEPT !.user_id = user, !.terminated = terminated, !.phone = phone],
                NULL,
                IF terminated /\ user # NULL /\ account[user].is_active THEN user ELSE NULL)
    BY <1>7, ZenonT(60) DEF UpdateEmployee
  <2>2. PICK new, disables :
            /\ new = [employee[e] EXCEPT !.user_id = user, !.terminated = terminated,
                                         !.phone = phone]
            /\ disables = IF terminated /\ user # NULL /\ account[user].is_active
                          THEN user ELSE NULL
    OBVIOUS
  <2>3. new \in EmployeeRow
    BY <1>1, <1>2, <2>2 DEF EmployeeRow
  <2>4. disables # NULL => disables \in User /\ account[disables] # NULL
    BY <1>2, <2>2
  <2> QED
    BY <1>1, <1>3, <2>1, <2>2, <2>3, <2>4, EmployeeLoadedSound
<1>8. CASE BulkCreateAccounts(w)
  <2>1. PICK e \in Rows, role \in Role :
            /\ employee[e].user_id = NULL
            /\ employee[e].email # NULL
            /\ ChangeEmployee(w, "bulk", e,
                   [employee[e] EXCEPT !.user_id = employee[e].email], role, NULL)
    BY <1>8 DEF BulkCreateAccounts
  <2>2. PICK new : new = [employee[e] EXCEPT !.user_id = employee[e].email]
    OBVIOUS
  <2>3. new \in EmployeeRow /\ new.user_id \in User
    BY <1>1, <2>1, <2>2 DEF EmployeeRow
  <2> QED
    BY <1>1, <1>3, <2>1, <2>2, <2>3, EmployeeLoadedSound
<1> QED
  BY <1>5, <1>6, <1>7, <1>8

\* The requests of recruitment and of salaries.
LEMMA ApplySound ==
    ASSUME IInv, [Next]_vars, NEW w \in Worker, NEW a \in Applicant, Apply(w, a),
           UNCHANGED assignment
    PROVE  RequestsSound' /\ DOMAIN request' = Worker
<1>1. PICK q : q = [op |-> "apply", applicant |-> a]
  OBVIOUS
<1>2. request' = [request EXCEPT ![w] = q]
  BY <1>1 DEF Apply
<1>3. Sound(q) /\ Held(q) /\ q.op # "assign"
  BY <1>1 DEF Sound, AccountRequest, EmployeeRequest, Held, AccountOps, EmployeeOps
<1>4. Held(q)'
  BY <1>3, HeldStays
<1> QED
  BY <1>2, <1>3, <1>4, RequestsStay

LEMMA CreateAssignmentSound ==
    ASSUME IInv, [Next]_vars, NEW w \in Worker, CreateAssignment(w)
    PROVE  RequestsSound' /\ DOMAIN request' = Worker
<1>1. PICK row \in SalaryAssignmentCreate :
          /\ Overlapping(row) = {}
          /\ request' = [request EXCEPT ![w] = [op |-> "assign", row |-> row, late |-> FALSE]]
  BY DEF CreateAssignment
<1>2. UNCHANGED assignment
  BY DEF CreateAssignment, salaryVars
<1>3. PICK q : q = [op |-> "assign", row |-> row, late |-> FALSE]
  OBVIOUS
<1>4. ASSUME NEW a \in Assignment, assignment[a] # NULL
      PROVE  ~ Clash(assignment[a], row)
  BY <1>1, <1>4 DEF Overlapping, Assigned, Clash
<1>5. Sound(q) /\ Held(q)
  BY <1>3, <1>4 DEF Sound, AccountRequest, EmployeeRequest, Held, AccountOps, EmployeeOps
<1>6. Held(q)'
  BY <1>2, <1>5, HeldStays
<1> QED
  BY <1>1, <1>2, <1>3, <1>5, <1>6, RequestsStay

\* Whoever looked for overlaps before an assignment came is late.
LEMMA CommitAssignmentSound ==
    ASSUME IInv, [Next]_vars, NEW w \in Worker, CommitAssignment(w)
    PROVE  RequestsSound' /\ DOMAIN request' = Worker
<1>1. request' = [v \in Worker |->
          IF v = w THEN Idle
          ELSE IF request[v].op = "assign" THEN [request[v] EXCEPT !.late = TRUE]
          ELSE request[v]]
  BY DEF CommitAssignment
<1>2. ASSUME NEW v \in Worker
      PROVE  Sound(request'[v]) /\ Held(request[v])'
  <2>1. PICK p, q : p = request[v] /\ q = request'[v]
    OBVIOUS
  <2>2. Sound(p) /\ Held(p)
    BY <2>1 DEF IInv, RequestsSound
  <2>3. CASE v = w
    BY <1>1, <2>3, IdleSound
  <2>4. CASE v # w /\ p.op = "assign"
    <3>1. q = [p EXCEPT !.late = TRUE]
      BY <1>1, <2>1, <2>4
    <3>2. q.op = "assign" /\ q.row = p.row
      BY <2>4, <3>1
    <3>3. q.late
      BY <1>1, <2>1, <2>4, <3>1
    <3>4. Sound(q)
      BY <2>2, <2>4, <3>2 DEF Sound, AccountRequest, EmployeeRequest, AccountOps, EmployeeOps
    <3>5. Held(q)'
      BY <3>2, <3>3 DEF Held, AccountOps, EmployeeOps
    <3> QED
      BY <2>1, <3>4, <3>5
  <2>5. CASE v # w /\ p.op # "assign"
    <3>1. q = p
      BY <1>1, <2>1, <2>5
    <3>2. Held(p)'
      BY <2>2, <2>5, HeldStays
    <3> QED
      BY <2>1, <2>2, <3>1, <3>2
  <2> QED
    BY <2>3, <2>4, <2>5
<1> QED
  BY <1>1, <1>2 DEF RequestsSound

\* A step that ends a request.
LEMMA FinishedSound ==
    ASSUME IInv, [Next]_vars, NEW w \in Worker, request' = Finished(w), UNCHANGED assignment
    PROVE  RequestsSound' /\ DOMAIN request' = Worker
  BY IdleSound, RequestsStay DEF Finished

LEMMA RequestsKept ==
    ASSUME IInv, [Next]_vars
    PROVE  RequestsSound' /\ DOMAIN request' = Worker
<1> DEFINE Goal == RequestsSound' /\ DOMAIN request' = Worker
<1>1. CASE UNCHANGED request /\ UNCHANGED assignment
  BY <1>1, RequestsUnchanged
<1>2. CASE SessionNext /\ UNCHANGED assignment
  <2>1. ASSUME NEW w \in Worker, IssueToken(w)
        PROVE  Goal
    BY <1>2, <2>1, FinishedSound DEF IssueToken
  <2>2. ASSUME NEW u \in User, Login(u) \/ AdminLogin(u)
        PROVE  UNCHANGED request
    BY <2>2 DEF Login, AdminLogin, SignIn
  <2> QED
    BY <1>1, <1>2, <2>1, <2>2, AdmitSound, ChangeRequestsSound, FlushRoleSound, CommitAccountSound
    DEF SessionNext
<1>3. CASE MenuNext /\ UNCHANGED assignment
  <2>1. ASSUME NEW w \in Worker, SaveMenus(w) \/ SeedMissing(w) \/ ResyncPermissions(w)
        PROVE  Goal
    BY <1>3, <2>1, FinishedSound DEF SaveMenus, SeedMissing, ResyncPermissions
  <2>2. ASSUME NEW u \in User, Login(u) \/ CreateUser(u)
        PROVE  UNCHANGED request
    BY <2>2 DEF Login, SignIn, CreateUser
  <2>3. ASSUME NEW m \in Menu, ToggleMenu(m)
        PROVE  UNCHANGED request
    BY <2>3 DEF ToggleMenu
  <2>4. ASSUME NEW w \in Worker, Admit(w) \/ UpdateUser(w) \/ FlushRole(w) \/ CommitAccount(w)
        PROVE  Goal
    BY <1>3, <2>4, AdmitSound, ChangeRequestsSound, FlushRoleSound, CommitAccountSound
  <2>5. ASSUME NEW w \in Worker, OpenMenus(w) \/ EnsureDefaultMenus(w) \/ OpenResync(w)
        PROVE  Goal
    BY <1>3, <2>5, MenuRequestsSound
  <2> QED
    BY <1>1, <1>3, <2>1, <2>2, <2>3, <2>4, <2>5 DEF MenuNext
<1>4. CASE (PeopleNext \/ DataNext) /\ UNCHANGED assignment
  <2>1. ASSUME NEW w \in Worker, CommitEmployee(w)
        PROVE  Goal
    BY <1>4, <2>1, FinishedSound DEF CommitEmployee
  <2>2. ASSUME NEW e \in Employee, CreateEmployee(e)
        PROVE  UNCHANGED request
    BY <2>2 DEF CreateEmployee
  <2>3. ASSUME NEW r \in ChangeRequest,
               SubmitDataChange(r) \/ ApproveDataChange(r) \/ RejectDataChange(r)
        PROVE  UNCHANGED request
    BY <2>3 DEF SubmitDataChange, ApproveDataChange, RejectDataChange
  <2> QED
    BY <1>1, <1>4, <2>1, <2>2, <2>3, EmployeeRequestsSound DEF PeopleNext, DataNext
<1>5. CASE RecruitmentNext /\ UNCHANGED assignment
  <2>1. ASSUME NEW w \in Worker, CommitApplicant(w)
        PROVE  Goal
    BY <1>5, <2>1, FinishedSound DEF CommitApplicant
  <2>2. ASSUME NEW w \in Worker, NEW a \in Applicant, Apply(w, a)
        PROVE  Goal
    BY <1>5, <2>2, ApplySound
  <2>3. CASE CreatePosting \/ UpdatePosting \/ \E i \in Interview : UpdateInterview(i)
    BY <1>1, <1>5, <2>3 DEF CreatePosting, UpdatePosting, UpdateInterview
  <2>4. ASSUME NEW a, \/ UpdateStage(a) \/ CompleteTask(a) \/ HireApplicant(a)
                      \/ \E i \in Interview : CreateInterview(a, i)
        PROVE  UNCHANGED request
    BY <2>4 DEF UpdateStage, CompleteTask, HireApplicant, CreateInterview
  <2> QED
    BY <1>1, <1>5, <2>1, <2>2, <2>3, <2>4 DEF RecruitmentNext
<1>6. CASE SalaryNext
  <2>1. ASSUME NEW a \in Assigned, DeleteAssignment(a)
        PROVE  Goal
    <3>1. UNCHANGED request
      BY <2>1 DEF DeleteAssignment
    <3>2. \A b \in Assignment : assignment'[b] # NULL => assignment'[b] = assignment[b]
      BY <2>1, DeleteAssignmentKept DEF IInv
    <3> QED
      BY <3>1, <3>2, RequestsUnchanged
  <2> QED
    BY <1>6, <2>1, CreateAssignmentSound, CommitAssignmentSound DEF SalaryNext
<1>7. CASE RollbackStep
  BY <1>7, FinishedSound DEF RollbackStep, Rollback, salaryVars
<1>8. CASE UNCHANGED vars
  BY <1>1, <1>8 DEF vars, salaryVars
<1> QED
  BY <1>2, <1>3, <1>4, <1>5, <1>6, <1>7, <1>8, Steps
  DEF AccountStep, PeopleStep, RecruitmentStep, SalaryStep, salaryVars

---------------------------------------------------------------------------
\* The invariant.

LEMMA AccountsBegin ==
    ASSUME Init
    PROVE  AccountsInv
<1>1. PICK roles \in Staffs :
          account = [u \in User |-> IF u \in DOMAIN roles THEN NewAccount(roles[u], FALSE)
                                    ELSE NULL]
  BY DEF Init, AccountInit
<1>2. ASSUME NEW role \in Role
      PROVE  /\ NewAccount(role, FALSE) \in AccountRow
             /\ NewAccount(role, FALSE) # NULL
             /\ NewAccount(role, FALSE).token_version = 0
             /\ NewAccount(role, FALSE).role = role
  <2>1. /\ NewAccount(role, FALSE) \in AccountRow
        /\ NewAccount(role, FALSE).token_version = 0
        /\ NewAccount(role, FALSE).role = role
    BY DEF NewAccount, AccountRow
  <2> QED
    BY <2>1, AccountRowAssumption
<1>3. \A u \in DOMAIN roles : roles[u] \in Role
  BY AccountAssumption
<1>4. \A u \in User : account[u] # NULL => /\ account[u] \in AccountRow
                                           /\ account[u].token_version = 0
  BY <1>1, <1>2, <1>3
<1>5. /\ account \in [User -> AccountRow \cup {NULL}]
      /\ access = [u \in User |-> IF account[u] = NULL \/ account[u].role = "SUPER_ADMIN" THEN NoRows
                                  ELSE [m \in Menu |-> IF m \in Preset[account[u].role]
                                                       THEN TRUE ELSE NULL]]
      /\ menu = Menu
      /\ token = [u \in User |-> IF account[u] = NULL THEN {} ELSE {[ver |-> 0, epoch |-> 0]}]
      /\ epoch = [u \in User |-> 0]
      /\ granted = [u \in User |-> {}]
  <2>1. \A u \in User : account[u] = NULL \/ account[u] \in AccountRow
    BY <1>4
  <2> QED
    BY <1>1, <2>1 DEF Init, AccountInit
<1>6. NoRows \in [Menu -> BOOLEAN \cup {NULL}]
  BY DEF NoRows
<1>7. AccountsTyped
  <2>1. \A role : [m \in Menu |-> IF m \in Preset[role] THEN TRUE ELSE NULL]
                      \in [Menu -> BOOLEAN \cup {NULL}]
    OBVIOUS
  <2>2. access \in [User -> [Menu -> BOOLEAN \cup {NULL}]]
    BY <1>5, <1>6, <2>1
  <2>3. [ver |-> 0, epoch |-> 0] \in [ver : Nat, epoch : Nat]
    OBVIOUS
  <2>4. token \in [User -> SUBSET [ver : Nat, epoch : Nat]]
    BY <1>5, <2>3
  <2> QED
    BY <1>5, <2>2, <2>4 DEF AccountsTyped
<1>8. TokensSound
  <2> SUFFICES ASSUME NEW u \in User, NEW t \in token[u]
               PROVE  Good(u, t.ver, t.epoch)
    BY DEF TokensSound
  <2>1. account[u] # NULL /\ t = [ver |-> 0, epoch |-> 0]
    BY <1>5
  <2> QED
    BY <1>4, <1>5, <2>1 DEF Good
<1>9. MenusEarned
  BY <1>5, AccountAssumption DEF MenusEarned, NoRows
<1> QED
  BY <1>7, <1>8, <1>9 DEF AccountsInv

LEMMA PersonnelBegins ==
    ASSUME Init
    PROVE  PersonnelInv
<1>1. PICK e \in Employee, user \in {NULL} \cup Existing :
          employee = [o \in Employee |->
              IF o = e THEN [user_id |-> user, email |-> user, terminated |-> FALSE,
                             phone |-> CHOOSE p \in Phone : TRUE]
              ELSE NULL]
  BY DEF Init, PersonnelInit
<1>2. (CHOOSE p \in Phone : TRUE) \in Phone
  BY PersonnelAssumption
<1>3. employee \in [Employee -> EmployeeRow \cup {NULL}]
  BY <1>1, <1>2 DEF EmployeeRow, Existing
<1>4. change = [r \in ChangeRequest |-> NULL]
  BY DEF Init, PersonnelInit
<1> QED
  BY <1>3, <1>4 DEF PersonnelInv, PersonnelTypeOK, ChangeSound

LEMMA InvariantBegins == Init => IInv
<1> SUFFICES ASSUME Init
             PROVE  IInv
  OBVIOUS
<1>1. RecruitmentInv
  BY DEF Init, RecruitmentInit, RecruitmentInv, RecruitmentTypeOK
<1>2. SalaryInv
  BY DEF Init, SalaryInit, SalaryInv, SalaryTypeOK
<1>3. RequestsSound /\ DOMAIN request = Worker
  BY IdleSound DEF Init, RequestsSound
<1> QED
  BY <1>1, <1>2, <1>3, AccountsBegin, PersonnelBegins DEF IInv, AccountsInv

\* IInv, the conjunction of what the rows, the tokens, the menus and the requests under
\* way satisfy, is an invariant.
THEOREM Inductive == Spec => []IInv
<1>1. IInv /\ [Next]_vars => IInv'
  BY AccountsKept, PersonnelKept, RecruitmentKept, SalaryKept, RequestsKept DEF IInv, AccountsInv
<1> QED
  BY <1>1, InvariantBegins, PTL DEF Spec

\* A session opened before its user's password, role or activity last changed is refused
\* (token_version, get_current_user of app/dependencies.py), for every number of overlapping
\* handlers.
THEOREM SessionsRevokedHolds == Spec => []SessionsRevoked
<1>1. IInv => SessionsRevoked
  BY DEF IInv, AccountsTyped, TokensSound, Good, Accepted, SessionsRevoked, AccountTypeOK
<1> QED
  BY <1>1, Inductive, PTL

\* The menus of a user are those of its role and those an administrator opened
\* (app/menu_permissions.py).
THEOREM MenusFollowRoleHolds == Spec => []MenusFollowRole
<1>1. IInv => MenusFollowRole
  BY DEF IInv, AccountsTyped, MenusEarned, MenusFollowRole, AllowedKeys
<1> QED
  BY <1>1, Inductive, PTL

\* An approved change replaced the value the employee saw, and no employee waits for two
\* changes of one field (app/routers/hris_self_service.py).
THEOREM ChangesReviewedHolds == Spec => []ChangesReviewed
<1>1. IInv => ChangesReviewed
  <2> SUFFICES ASSUME IInv
               PROVE  ChangesReviewed
    OBVIOUS
  <2>1. PersonnelTypeOK /\ \A r \in ChangeRequest : ChangeSound(r)
    BY DEF IInv, PersonnelInv
  <2>2. ASSUME NEW r \in ChangeRequest, change[r] # NULL, change[r].status = "PENDING"
        PROVE  Pending(change[r].employee) = {r}
    BY <2>1, <2>2 DEF ChangeSound, Pending
  <2> QED
    BY <2>1, <2>2 DEF ChangesReviewed, ChangeSound
<1> QED
  BY <1>1, Inductive, PTL

\* At most one of them: as a number.
LEMMA AtMostOneCounts ==
    ASSUME NEW ids, AtMostOne(ids)
    PROVE  Cardinality(ids) <= 1
<1>1. ids = {} \/ \E i \in ids : ids = {i}
  BY DEF AtMostOne
<1>2. Cardinality({}) = 0 /\ \A i \in ids : Cardinality({i}) = 1
  BY FS_EmptySet, FS_Singleton
<1> QED
  BY <1>1, <1>2

\* An offer rests on one passed interview, and exactly the hired have an employee of their
\* own and a checklist (app/routers/hris_recruitment.py).
THEOREM OfferEarnedHolds == Spec => []OfferEarned
<1>1. IInv => OfferEarned
  <2> SUFFICES ASSUME IInv
               PROVE  OfferEarned
    OBVIOUS
  <2>1. RecruitmentTypeOK
    BY DEF IInv, RecruitmentInv
  <2>2. ASSUME NEW a \in Applied
        PROVE  /\ ApplicantSound(a)
               /\ applicant[a].employee_id # NULL => applicant[a].employee_id \in Employee
    BY DEF IInv, RecruitmentInv, RecruitmentTypeOK, Applied, ApplicantRow
  <2>3. \A a \in Applied : Cardinality(Passed(a)) <= 1 /\ Cardinality(Waiting(a)) <= 1
    BY <2>2, AtMostOneCounts DEF ApplicantSound
  <2> QED
    BY <2>1, <2>2, <2>3 DEF OfferEarned, ApplicantSound, Applied, Rows
<1> QED
  BY <1>1, Inductive, PTL

\* On no day does a payroll find two assignments of one component for an employee, unless
\* one was created while another session created one (app/routers/hris_payroll.py).
THEOREM ComponentsPaidOnceHolds == Spec => []ComponentsPaidOnce
<1>1. IInv => ComponentsPaidOnce
  <2> SUFFICES ASSUME IInv, NEW e \in Rows, NEW day \in PayDay,
                      NEW a \in _load_salary_assignments(e, day) \ crossed,
                      NEW b \in _load_salary_assignments(e, day) \ crossed,
                      a # b, assignment[a].component = assignment[b].component
               PROVE  FALSE
    BY DEF ComponentsPaidOnce, IInv, SalaryInv
  <2>1. /\ a \in Assignment /\ assignment[a] # NULL
        /\ b \in Assignment /\ assignment[b] # NULL
    BY DEF _load_salary_assignments, Assigned
  <2>2. \A c \in {a, b} : /\ assignment[c].first \in PayDay
                          /\ assignment[c].last # NULL => assignment[c].last \in PayDay
    BY <2>1 DEF IInv, SalaryInv, SalaryTypeOK, SalaryAssignmentCreate, SalaryAssignment
  <2>3. Clash(assignment[a], assignment[b])
    BY <2>2, SalaryAssumption DEF _load_salary_assignments, Clash
  <2> QED
    BY <2>1, <2>3 DEF IInv, SalaryInv
<1> QED
  BY <1>1, Inductive, PTL

\* Only a commit takes an active Super Admin away.
LEMMA SuperAdminsStay ==
    ASSUME IInv, [Next]_vars, \A w \in Worker : ~ CommitAccount(w) /\ ~ CommitEmployee(w)
    PROVE  ActiveSuperAdmins \subseteq ActiveSuperAdmins'
<1>1. CASE UNCHANGED account
  BY <1>1 DEF ActiveSuperAdmins
<1>2. ASSUME NEW u \in User, account[u] = NULL, NEW row, account' = [account EXCEPT ![u] = row]
      PROVE  ActiveSuperAdmins \subseteq ActiveSuperAdmins'
  BY <1>2 DEF ActiveSuperAdmins, IInv, AccountsTyped
<1>3. CASE SessionNext
  <2>1. ASSUME NEW w \in Worker,
               \/ Admit(w) \/ ChangePassword(w) \/ IssueToken(w) \/ ResetPassword(w)
               \/ UpdateUser(w) \/ DeactivateUser(w) \/ FlushRole(w)
        PROVE  UNCHANGED account
    BY <2>1 DEF Admit, ChangePassword, ResetPassword, UpdateUser, DeactivateUser, FlushRole,
                ChangeAccount, IssueToken, accountVars
  <2>2. ASSUME NEW u \in User, Login(u) \/ AdminLogin(u)
        PROVE  UNCHANGED account
    BY <2>2 DEF Login, AdminLogin, SignIn
  <2> QED
    BY <1>1, <1>3, <2>1, <2>2 DEF SessionNext
<1>4. CASE MenuNext
  <2>1. ASSUME NEW u \in User, CreateUser(u)
        PROVE  ActiveSuperAdmins \subseteq ActiveSuperAdmins'
    BY <1>2, <2>1 DEF CreateUser
  <2>2. ASSUME NEW w \in Worker, \/ Admit(w) \/ UpdateUser(w) \/ FlushRole(w) \/ OpenMenus(w)
                                 \/ SaveMenus(w) \/ EnsureDefaultMenus(w) \/ SeedMissing(w)
                                 \/ OpenResync(w) \/ ResyncPermissions(w)
        PROVE  UNCHANGED account
    BY <2>2 DEF Admit, UpdateUser, FlushRole, ChangeAccount, OpenMenus, SaveMenus, EnsureDefaultMenus,
                SeedMissing, OpenResync, ResyncPermissions, accountVars
  <2>3. ASSUME (\E u \in User : Login(u)) \/ (\E m \in Menu : ToggleMenu(m))
        PROVE  UNCHANGED account
    BY <2>3 DEF Login, SignIn, ToggleMenu
  <2> QED
    BY <1>1, <1>4, <2>1, <2>2, <2>3 DEF MenuNext
<1>5. CASE PeopleNext \/ DataNext
  <2>1. ASSUME NEW w \in Worker, \/ LinkEmployeeUser(w) \/ EmployeeFromUser(w) \/ UpdateEmployee(w)
                                 \/ BulkCreateAccounts(w)
        PROVE  UNCHANGED account
    BY <2>1 DEF LinkEmployeeUser, EmployeeFromUser, UpdateEmployee, BulkCreateAccounts,
                ChangeEmployee, accountVars
  <2>2. ASSUME NEW e \in Employee, CreateEmployee(e)
        PROVE  UNCHANGED account
    BY <2>2 DEF CreateEmployee, accountVars
  <2>3. ASSUME NEW r \in ChangeRequest,
               SubmitDataChange(r) \/ ApproveDataChange(r) \/ RejectDataChange(r)
        PROVE  UNCHANGED account
    BY <2>3 DEF SubmitDataChange, ApproveDataChange, RejectDataChange, accountVars
  <2> QED
    BY <1>1, <1>5, <2>1, <2>2, <2>3 DEF PeopleNext, DataNext
<1>6. CASE RecruitmentNext
  <2>1. ASSUME NEW a \in Applied, HireApplicant(a)
        PROVE  ActiveSuperAdmins \subseteq ActiveSuperAdmins'
    <3>1. applicant[a].email \in User \cup {NULL}
      BY DEF IInv, RecruitmentInv, RecruitmentTypeOK, Applied, ApplicantRow
    <3>2. \/ UNCHANGED account
          \/ /\ applicant[a].email # NULL
             /\ account[applicant[a].email] = NULL
             /\ account' = [account EXCEPT ![applicant[a].email] = NewAccount("STAFF", TRUE)]
      BY <2>1 DEF HireApplicant
    <3> QED
      BY <1>1, <1>2, <3>1, <3>2
  <2>2. CASE CreatePosting \/ UpdatePosting \/ \E i \in Interview : UpdateInterview(i)
    BY <1>1, <2>2 DEF CreatePosting, UpdatePosting, UpdateInterview, accountVars
  <2>3. ASSUME NEW w \in Worker, (\E a \in Applicant : Apply(w, a)) \/ CommitApplicant(w)
        PROVE  UNCHANGED account
    BY <2>3 DEF Apply, CommitApplicant, accountVars
  <2>4. ASSUME NEW a, \/ UpdateStage(a) \/ CompleteTask(a)
                      \/ \E i \in Interview : CreateInterview(a, i)
        PROVE  UNCHANGED account
    BY <2>4 DEF UpdateStage, CompleteTask, CreateInterview, accountVars
  <2> QED
    BY <1>1, <1>6, <2>1, <2>2, <2>3, <2>4 DEF RecruitmentNext
<1>7. CASE SalaryNext \/ (\E w \in Worker : Rollback(w)) \/ UNCHANGED vars
  <2>1. UNCHANGED account
    BY <1>7 DEF SalaryNext, CreateAssignment, CommitAssignment, DeleteAssignment, Rollback, vars,
                accountVars
  <2> QED
    BY <1>1, <2>1
<1> QED
  BY <1>3, <1>4, <1>5, <1>6, <1>7, Steps
  DEF AccountStep, PeopleStep, RecruitmentStep, SalaryStep, RollbackStep

\* The commit of a handler that counted the present Super Admins leaves one.
LEMMA CommitLeavesOne ==
    ASSUME IInv, NEW w \in Worker, CommitAccount(w), ActiveSuperAdmins # {},
           \/ request[w].op \notin {"update_user", "deactivate_user"}
           \/ request[w].admins = ActiveSuperAdmins
    PROVE  ActiveSuperAdmins' # {}
<1>0. PICK q, u : q = request[w] /\ u = q.target
  OBVIOUS
<1>1. /\ Sound(q)
      /\ Held(q)
      /\ q.op \in AccountOps
  BY <1>0 DEF IInv, RequestsSound, CommitAccount, AccountOps
<1>2. /\ u \in User
      /\ q.read \in AccountRow
      /\ q.new \in AccountRow
      /\ account[u] # NULL
      /\ account[u] \in AccountRow
      /\ Removes(q) => /\ q.op \in {"update_user", "deactivate_user"}
                       /\ u \notin q.admins \/ \E v \in q.admins : v # u
  BY <1>0, <1>1 DEF Sound, AccountRequest, Held, IInv, AccountsTyped
<1>3. PICK row : row = Merged(account[u], q.read, q.new)
  OBVIOUS
<1>4. /\ row \in AccountRow
      /\ row.role = IF q.new.role # q.read.role THEN q.new.role ELSE account[u].role
      /\ row.is_active = IF q.new.is_active # q.read.is_active THEN q.new.is_active
                         ELSE account[u].is_active
  BY <1>2, <1>3, MergedAccount
<1>5. /\ account'[u] = row
      /\ row # NULL
      /\ \A v \in User \ {u} : account'[v] = account[v]
  BY <1>0, <1>2, <1>3, <1>4, AccountRowAssumption DEF CommitAccount, IInv, AccountsTyped
<1>6. \A v \in User \ {u} : v \in ActiveSuperAdmins => v \in ActiveSuperAdmins'
  BY <1>5 DEF ActiveSuperAdmins
<1>7. ActiveSuperAdmins \subseteq User
  BY DEF ActiveSuperAdmins
<1>8. CASE Removes(q)
  <2>1. q.admins = ActiveSuperAdmins
    BY <1>0, <1>2, <1>8
  <2>2. \E v \in ActiveSuperAdmins : v # u
    BY <1>2, <1>8, <2>1
  <2> QED
    BY <1>6, <1>7, <2>2
<1>9. CASE ~ Removes(q)
  <2>1. u \in ActiveSuperAdmins => u \in ActiveSuperAdmins'
    <3>1. /\ q.new.role = q.read.role \/ q.new.role = "SUPER_ADMIN"
          /\ q.read.is_active => q.new.is_active
          /\ q.new.is_active \in BOOLEAN
          /\ q.read.is_active \in BOOLEAN
      BY <1>2, <1>9 DEF Removes, AccountRow
    <3> QED
      BY <1>2, <1>4, <1>5, <3>1 DEF ActiveSuperAdmins
  <2> QED
    BY <1>6, <1>7, <2>1
<1> QED
  BY <1>8, <1>9

\* The last active Super Admin is not demoted or deactivated by users.py, unless the handler
\* counted one who has gone since, or the employment of the last one ends
\* (_assert_not_last_active_super_admin).
THEOREM LastSuperAdminKeptHolds == Spec => LastSuperAdminKept
<1> DEFINE Excused(w) ==
        /\ request'[w] = Idle
        /\ \/ request[w].op = "update_employee"
           \/ /\ request[w].op \in {"update_user", "deactivate_user"}
              /\ request[w].admins # ActiveSuperAdmins
<1>1. ASSUME IInv, [Next]_vars, ActiveSuperAdmins' = {}, ActiveSuperAdmins # {}
      PROVE  \E w \in Worker : Excused(w)
  <2>1. PICK w \in Worker : CommitAccount(w) \/ CommitEmployee(w)
    BY <1>1, SuperAdminsStay
  <2>2. CASE CommitAccount(w)
    <3>1. request[w].op \in {"update_user", "deactivate_user"} /\ request[w].admins # ActiveSuperAdmins
      BY <1>1, <2>2, CommitLeavesOne
    <3>2. request' = [request EXCEPT ![w] = Idle]
      BY <2>2, <3>1 DEF CommitAccount, Finished
    <3> QED
      BY <1>1, <3>1, <3>2 DEF IInv
  <2>3. CASE CommitEmployee(w)
    <3>1. request' = [request EXCEPT ![w] = Idle] /\ request[w].op \in EmployeeOps
      BY <2>3 DEF CommitEmployee, Finished, EmployeeOps
    <3>2. request[w].disables = NULL \/ request[w].op = "update_employee"
      BY <1>1, <3>1 DEF IInv, RequestsSound, Sound, EmployeeRequest
    <3>3. CASE request[w].op = "update_employee"
      BY <1>1, <3>1, <3>3 DEF IInv
    <3>4. CASE request[w].disables = NULL
      <4>1. PICK u \in User \cup {NULL} :
                \/ UNCHANGED account
                \/ /\ u \in User
                   /\ account[u] = NULL
                   /\ account' = [account EXCEPT ![u] = NewAccount(request[w].opens, FALSE)]
        <5>1. PICK q, e, row : /\ q = request[w]
                               /\ e = q.employee
                               /\ row = Written(employee[e], q.read, q.new)
          OBVIOUS
        <5>2. Sound(q) /\ Held(q)
          BY <1>1, <5>1 DEF IInv, RequestsSound
        <5>3. q.opens # NULL => row.user_id = q.new.user_id /\ q.new.user_id \in User
          <6> SUFFICES ASSUME q.opens # NULL
                       PROVE  row.user_id = q.new.user_id /\ q.new.user_id \in User
            OBVIOUS
          <6>1. /\ q.op = "bulk"
                /\ e \in Employee
                /\ q.read \in EmployeeRow
                /\ q.read # NULL
                /\ q.new \in EmployeeRow
                /\ q.new.user_id # q.read.user_id
                /\ q.new.user_id \in User
            BY <3>1, <5>1, <5>2, AccountAssumption DEF Sound, EmployeeRequest
          <6>2. employee[e] # NULL /\ employee[e] \in EmployeeRow \cup {NULL}
            BY <1>1, <3>1, <5>1, <5>2, <6>1 DEF Held, IInv, PersonnelInv, PersonnelTypeOK
          <6> QED
            BY <5>1, <6>1, <6>2, WrittenEmployee
        <5>4. CASE q.opens = NULL
          BY <2>3, <3>4, <5>1, <5>4 DEF CommitEmployee
        <5>5. CASE q.opens # NULL
          <6>1. account[q.new.user_id] = NULL
            BY <2>3, <5>1, <5>5 DEF CommitEmployee
          <6>2. account' = [account EXCEPT ![row.user_id] = NewAccount(q.opens, FALSE)]
            BY <2>3, <3>4, <5>1, <5>5 DEF CommitEmployee
          <6> QED
            BY <5>1, <5>3, <5>5, <6>1, <6>2
        <5> QED
          BY <5>4, <5>5
      <4>2. ActiveSuperAdmins \subseteq ActiveSuperAdmins'
        BY <1>1, <4>1 DEF ActiveSuperAdmins, IInv, AccountsTyped
      <4> QED
        BY <1>1, <4>2
    <3> QED
      BY <3>2, <3>3, <3>4
  <2> QED
    BY <2>1, <2>2, <2>3
<1>2. IInv /\ [Next]_vars => [ActiveSuperAdmins' = {}
          => \/ ActiveSuperAdmins = {}
             \/ \E w \in Worker : Excused(w)]_<<account, request>>
  BY <1>1
<1> QED
  BY <1>2, Inductive, PTL DEF LastSuperAdminKept, Spec
===============================================================================
