------------------------------ MODULE Staffing ------------------------------
(***************************************************************************)
(* EmployeeService (app/services/employee_service.py): the employees table *)
(* and the copy of it in users.role and users.org_id that every guard of   *)
(* the routers reads.  Each operation reads a row of employees, reads the  *)
(* row of users, and commits both; nothing locks them in between, and no   *)
(* constraint ties the two tables.                                         *)
(***************************************************************************)
EXTENDS Access, FiniteSets

EmployeeStatus == {"ACTIVE", "ON_LEAVE", "SUSPENDED", "INACTIVE"}

CONSTANTS
  Users,        \* users
  Hired,        \* users that administrators hire
  Founder,      \* the super admin there is at the start
  Orgs,         \* organisations
  Rows,         \* employees rows that may be inserted
  StaffRoles,   \* roles given: role_must_be_staff refuses CLIENT
  StatusesGiven,\* statuses that a PATCH sets
  StaffRequests \* requests that may be in flight together

\* What the constants must satisfy.
StaffingConstants ==
  /\ Hired \subseteq Users /\ Founder \in Users \ Hired
  /\ StaffRoles \subseteq UserRole \ {"CLIENT"}
  /\ StatusesGiven \subseteq EmployeeStatus
  /\ NoOrg \notin Orgs

VARIABLES
  users,      \* role and org_id of each user
  employees,  \* rows of employees, NoRow before they exist
  sreq,       \* the requests in flight
  disturbed   \* history: users whose two copies an operation no rule orders wrote

staffVars == <<users, employees, sreq, disturbed>>

-----------------------------------------------------------------------------
User == [role : UserRole, org : Orgs \cup {NoOrg}]
Employee == [user : Hired, org : Orgs, role : StaffRoles, status : EmployeeStatus]
NoRow == [user |-> Founder]
Client == [role |-> "CLIENT", org |-> NoOrg]

\* What a request does to a row; Unset is a field the body leaves out.
Unset == "unset"
Change == [role : StaffRoles \cup {Unset}, status : EmployeeStatus \cup {Unset}]
NoChange == [role |-> Unset, status |-> Unset]
Patches == [role : StaffRoles \cup {Unset}, status : StatusesGiven \cup {Unset}] \ {NoChange}

Idle == [pc |-> "idle", op |-> "none", user |-> Founder, org |-> NoOrg, row |-> NoRow,
         change |-> NoChange, read |-> Client, seen |-> NoRow, stale |-> FALSE]

Request == [ pc     : {"idle", "readUser", "commit"},
             op     : {"none", "create", "update", "deactivate"},
             user   : Users,
             org    : Orgs \cup {NoOrg},
             row    : Rows \cup {NoRow},
             change : Change,
             read   : User,
             seen   : Employee \cup {NoRow},
             stale  : BOOLEAN ]

TypeOK ==
  /\ users \in [Users -> User]
  /\ employees \in [Rows -> Employee \cup {NoRow}]
  /\ sreq \in [StaffRequests -> Request]
  /\ disturbed \in SUBSET Users

Init ==
  /\ users = [u \in Users |-> IF u = Founder THEN [role |-> "SUPER_ADMIN", org |-> NoOrg]
                              ELSE Client]
  /\ employees = [e \in Rows |-> NoRow]
  /\ sreq = [r \in StaffRequests |-> Idle]
  /\ disturbed = {}

-----------------------------------------------------------------------------
At(r, pc) == sreq[r].pc = pc
Exists(e) == employees[e] # NoRow

\* A row counts as employment until it is INACTIVE.
Employed(e, u, o) ==
  /\ Exists(e)
  /\ employees[e].user = u /\ employees[e].org = o /\ employees[e].status # "INACTIVE"

\* list: what an organisation's administrators see.
ListEmployees(o) == {e \in Rows : \E u \in Hired : Employed(e, u, o)}

MayManage(o) == \E c \in Users : EmployeesRoute(users[c], o)

Begin(r, record) == At(r, "idle") /\ sreq' = [sreq EXCEPT ![r] = record]

\* Mutant: the check for an existing employment is dropped.
CreateAnyway(r, u, o, role) ==
  /\ MayManage(o)
  /\ Begin(r, [Idle EXCEPT !.pc = "readUser", !.op = "create", !.user = u, !.org = o,
                           !.change = [role |-> role, status |-> "ACTIVE"]])
  /\ UNCHANGED <<users, employees, disturbed>>

\* create, when no employment of the user is found in the organisation.
Create(r, u, o, role) ==
  /\ MayManage(o)
  /\ ~\E e \in Rows : Employed(e, u, o)
  /\ Begin(r, [Idle EXCEPT !.pc = "readUser", !.op = "create", !.user = u, !.org = o,
                           !.change = [role |-> role, status |-> "ACTIVE"]])
  /\ UNCHANGED <<users, employees, disturbed>>

\* update: any row of the organisation, INACTIVE ones included; users is read
\* only when the body has a role.
Update(r, e, change) ==
  LET row == employees[e]
  IN  /\ Exists(e) /\ MayManage(row.org)
      /\ Begin(r, [Idle EXCEPT !.pc = IF change.role = Unset THEN "commit" ELSE "readUser",
                               !.op = "update", !.user = row.user, !.org = row.org,
                               !.row = e, !.seen = row, !.change = change])
      /\ UNCHANGED <<users, employees, disturbed>>

\* deactivate: also of a row that is INACTIVE already.
Deactivate(r, e) ==
  LET row == employees[e]
  IN  /\ Exists(e) /\ MayManage(row.org)
      /\ Begin(r, [Idle EXCEPT !.pc = "readUser", !.op = "deactivate", !.user = row.user,
                               !.org = row.org, !.row = e, !.seen = row,
                               !.change = [role |-> Unset, status |-> "INACTIVE"]])
      /\ UNCHANGED <<users, employees, disturbed>>

ReadUser(r) ==
  /\ At(r, "readUser")
  /\ sreq' = [sreq EXCEPT ![r].pc = "commit", ![r].read = users[sreq[r].user]]
  /\ UNCHANGED <<users, employees, disturbed>>

-----------------------------------------------------------------------------
(* Commits.                                                                *)

\* Mutant: model_dump without exclude_unset, the fields left out are written.
ApplyWholeBody(row, change) == [row EXCEPT !.role = change.role, !.status = change.status]

Apply(row, change) ==
  [row EXCEPT !.role = IF change.role = Unset THEN @ ELSE change.role,
              !.status = IF change.status = Unset THEN @ ELSE change.status]

\* The users row a request has in its session when it commits.
UserAsWritten(q) ==
  CASE q.op = "create"     -> [role |-> q.change.role, org |-> q.org]
    [] q.op = "update"     -> IF q.change.role = Unset THEN q.read
                              ELSE [q.read EXCEPT !.role = q.change.role]
    [] q.op = "deactivate" -> Client

\* History: what makes the two copies part.  A request that commits over
\* another's commit, a status set by PATCH, a row touched when it is INACTIVE.
Disturbs(q) ==
  \/ q.stale
  \/ q.op = "update" /\ q.change.status # Unset
  \/ q.op # "create" /\ q.seen.status = "INACTIVE"

\* The commit ends this request and overtakes the others on the same user.
Done(r) ==
  sreq' = [q \in StaffRequests |->
             IF q = r THEN Idle
             ELSE IF ~At(q, "idle") /\ sreq[q].user = sreq[r].user
                  THEN [sreq[q] EXCEPT !.stale = TRUE]
                  ELSE sreq[q]]

\* Mutant: deactivate forgets the users row.
CommitRowOnly(r) ==
  LET q == sreq[r]
  IN  /\ At(r, "commit")
      /\ IF q.op = "create"
         THEN \E e \in Rows :
                /\ ~Exists(e)
                /\ employees' = [employees EXCEPT ![e] =
                     [user |-> q.user, org |-> q.org, role |-> q.change.role, status |-> "ACTIVE"]]
         ELSE employees' = [employees EXCEPT ![q.row] = Flush(@, q.seen, Apply(q.seen, q.change))]
      /\ users' = IF q.op = "deactivate" THEN users
                  ELSE [users EXCEPT ![q.user] = Flush(@, q.read, UserAsWritten(q))]
      /\ disturbed' = IF Disturbs(q) THEN disturbed \cup {q.user} ELSE disturbed
      /\ Done(r)

\* Mutant: create sets the role and leaves users.org_id.
CommitRoleOnly(r) ==
  LET q == sreq[r]
  IN  /\ At(r, "commit")
      /\ IF q.op = "create"
         THEN \E e \in Rows :
                /\ ~Exists(e)
                /\ employees' = [employees EXCEPT ![e] =
                     [user |-> q.user, org |-> q.org, role |-> q.change.role, status |-> "ACTIVE"]]
         ELSE employees' = [employees EXCEPT ![q.row] = Flush(@, q.seen, Apply(q.seen, q.change))]
      /\ users' = [users EXCEPT ![q.user].role = UserAsWritten(q).role]
      /\ disturbed' = IF Disturbs(q) THEN disturbed \cup {q.user} ELSE disturbed
      /\ Done(r)

\* One commit for the employees row and the users row.
Commit(r) ==
  LET q == sreq[r]
  IN  /\ At(r, "commit")
      /\ IF q.op = "create"
         THEN \E e \in Rows :
                /\ ~Exists(e)
                /\ employees' = [employees EXCEPT ![e] =
                     [user |-> q.user, org |-> q.org, role |-> q.change.role, status |-> "ACTIVE"]]
         ELSE employees' = [employees EXCEPT ![q.row] = Flush(@, q.seen, Apply(q.seen, q.change))]
      /\ users' = [users EXCEPT ![q.user] = Flush(@, q.read, UserAsWritten(q))]
      /\ disturbed' = IF Disturbs(q) THEN disturbed \cup {q.user} ELSE disturbed
      /\ Done(r)

Next ==
  \/ \E r \in StaffRequests, u \in Hired, o \in Orgs, role \in StaffRoles : Create(r, u, o, role)
  \/ \E r \in StaffRequests, e \in Rows, change \in Patches : Update(r, e, change)
  \/ \E r \in StaffRequests, e \in Rows : Deactivate(r, e)
  \/ \E r \in StaffRequests : ReadUser(r) \/ Commit(r)

Spec == Init /\ [][Next]_staffVars

-----------------------------------------------------------------------------
(* Properties.                                                             *)

\* A user hired by two organisations has one users row for two employments.
Consultant(u) ==
  \E e, f \in Rows : /\ Exists(e) /\ Exists(f)
                     /\ employees[e].user = u /\ employees[f].user = u
                     /\ employees[e].org # employees[f].org

Ordered(u) == u \notin disturbed /\ ~Consultant(u)

\* employee.py "Copie du UserRole": the role and organisation that the guards
\* read are those of the user's employment, and a user with no employment is a
\* client again, unless an unordered operation touched the user.
UserCopiesEmployment ==
  \A u \in Hired :
    Ordered(u) =>
      /\ \A o \in Orgs, e \in Rows :
           Employed(e, u, o) => users[u] = [role |-> employees[e].role, org |-> o]
      /\ (\A o \in Orgs, e \in Rows : ~Employed(e, u, o)) => users[u] = Client

\* create refuses a second employment in an organisation: its list shows a
\* user once, unless two creations overlapped or a PATCH revived a row.
ListedOnce ==
  \A o \in Orgs : \A e, f \in ListEmployees(o) :
    employees[e].user = employees[f].user => e = f \/ employees[e].user \in disturbed

\* "Accès refusé à cette organisation": no route of another organisation is
\* open to staff.  All compare org_id but analytics.py lets a NULL one through,
\* so this rests on staff having one (user.py "rempli pour agents").
StaffKeepToOwnOrg ==
  \A u \in Hired, o \in Orgs :
    MayReach(users[u], o) /\ users[u].role # "SUPER_ADMIN" /\ Ordered(u)
    => users[u].org = o

=============================================================================
