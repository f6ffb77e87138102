--------------------------- MODULE StaffingProofs ---------------------------
(***************************************************************************)
(* Theorems about Staffing, for every set of users, organisations, rows    *)
(* and requests.  The two tables agree because a request that no other has *)
(* overtaken commits over what it read: its employees row (RowSound), the  *)
(* absence of one (CreateSound) and its users row (ReadSound).             *)
(***************************************************************************)
EXTENDS Staffing, TLAPS

\* A row keeps its user and its organisation; as read it is what an update or a
\* deactivation that nobody overtook still finds.
RowSound(q) ==
  q.op \in {"update", "deactivate"} =>
    /\ q.row \in Rows /\ q.seen \in Employee /\ employees[q.row] \in Employee
    /\ q.seen.user = q.user /\ q.seen.org = q.org
    /\ employees[q.row].user = q.user /\ employees[q.row].org = q.org
    /\ ~q.stale => employees[q.row] = q.seen
    /\ q.op = "deactivate" => q.change = [role |-> Unset, status |-> "INACTIVE"]

\* A creation that nobody overtook still finds the user without an employment in
\* the organisation.
CreateSound(q) ==
  q.op = "create" =>
    /\ q.user \in Hired /\ q.org \in Orgs /\ q.change.role \in StaffRoles
    /\ ~q.stale => \A e \in Rows : ~Employed(e, q.user, q.org)

KeepsRole(q) == q.op = "update" /\ q.change.role = Unset

\* The users row is read before the commit, but for a PATCH that sets no role.
ReadSound(q) ==
  /\ q.pc # "idle" <=> q.op # "none"
  /\ q.pc = "commit" /\ ~q.stale => KeepsRole(q) \/ q.read = users[q.user]

RequestSound ==
  \A r \in StaffRequests :
    RowSound(sreq[r]) /\ CreateSound(sreq[r]) /\ ReadSound(sreq[r])

SInv == TypeOK /\ RequestSound /\ ListedOnce /\ UserCopiesEmployment

-----------------------------------------------------------------------------
LEMMA NoRowIsNone ==
  ASSUME StaffingConstants
  PROVE  /\ NoRow \notin Employee /\ "CLIENT" \in UserRole /\ "SUPER_ADMIN" \in UserRole
         /\ StaffRoles \subseteq UserRole /\ Hired \subseteq Users /\ Founder \in Users \ Hired
<1>1. NoRow.user = Founder /\ Founder \notin Hired
  BY DEF NoRow, StaffingConstants
<1>2. "CLIENT" \in UserRole /\ "SUPER_ADMIN" \in UserRole
  BY DEF UserRole, ROLE_HIERARCHY
<1> QED
  BY <1>1, <1>2 DEF StaffingConstants, Employee

LEMMA IdleIsRequest ==
  ASSUME StaffingConstants
  PROVE  Idle \in Request /\ Idle.pc = "idle" /\ Idle.op = "none"
<1>1. Founder \in Users /\ "CLIENT" \in UserRole
  BY NoRowIsNone
<1> QED
  BY <1>1 DEF Idle, Request, NoChange, Change, Client, User, NoRow

LEMMA IdleIsSound ==
  ASSUME StaffingConstants
  PROVE  RowSound(Idle) /\ CreateSound(Idle) /\ ReadSound(Idle)
BY IdleIsRequest DEF RowSound, CreateSound, ReadSound

LEMMA StaffingInit == StaffingConstants /\ Init => SInv
<1> SUFFICES ASSUME StaffingConstants, Init PROVE SInv
  OBVIOUS
<1>1. Client \in User /\ [role |-> "SUPER_ADMIN", org |-> NoOrg] \in User
  BY NoRowIsNone DEF Client, User
<1>2. TypeOK
  BY <1>1, IdleIsRequest DEF Init, TypeOK
<1>3. RequestSound
  BY IdleIsSound DEF Init, RequestSound
<1>4. \A e \in Rows, u \in Hired, o \in Orgs : ~Employed(e, u, o)
  BY DEF Init, Employed, Exists
<1>5. ListedOnce
  BY <1>4 DEF ListedOnce, ListEmployees
<1>6. UserCopiesEmployment
  BY <1>4, NoRowIsNone DEF Init, UserCopiesEmployment
<1> QED
  BY <1>2, <1>3, <1>5, <1>6 DEF SInv

-----------------------------------------------------------------------------
(* Steps that write no row.                                                *)

LEMMA ReadStep ==
  ASSUME SInv, NEW r \in StaffRequests, NEW record \in Request,
         RowSound(record), CreateSound(record), ReadSound(record),
         sreq' = [sreq EXCEPT ![r] = record],
         UNCHANGED <<users, employees, disturbed>>
  PROVE  SInv'
<1>1. TypeOK'
  BY DEF SInv, TypeOK
<1>2. ListedOnce' /\ UserCopiesEmployment'
  BY DEF SInv, ListedOnce, ListEmployees, UserCopiesEmployment, Ordered, Consultant, Employed,
         Exists
<1>3. \A q \in Request : /\ RowSound(q) => RowSound(q)'
                         /\ CreateSound(q) => CreateSound(q)'
                         /\ ReadSound(q) => ReadSound(q)'
  BY DEF RowSound, CreateSound, ReadSound, Employed, Exists, KeepsRole
<1>4. ASSUME NEW q \in StaffRequests
      PROVE  sreq'[q] \in Request /\ RowSound(sreq'[q]) /\ CreateSound(sreq'[q])
             /\ ReadSound(sreq'[q])
  BY DEF SInv, TypeOK, RequestSound
<1>5. RequestSound'
  BY <1>3, <1>4 DEF RequestSound, RowSound, CreateSound, ReadSound, Employed, Exists, KeepsRole
<1> QED
  BY <1>1, <1>2, <1>5 DEF SInv

LEMMA CreateStep ==
  ASSUME StaffingConstants, SInv, NEW r \in StaffRequests, NEW u \in Hired, NEW o \in Orgs,
         NEW role \in StaffRoles, Create(r, u, o, role)
  PROVE  SInv'
<1> DEFINE change == [role |-> role, status |-> "ACTIVE"]
           record == [Idle EXCEPT !.pc = "readUser", !.op = "create", !.user = u, !.org = o,
                                  !.change = change]
<1>1. change \in Change /\ change.role = role
  BY DEF Change, EmployeeStatus
<1> HIDE DEF change
<1>2. /\ record \in Request /\ record.pc = "readUser" /\ record.op = "create"
      /\ record.user = u /\ record.org = o /\ record.change = change
  BY <1>1, IdleIsRequest, NoRowIsNone DEF Request
<1>3. \A e \in Rows : ~Employed(e, u, o)
  BY DEF Create
<1>4. sreq' = [sreq EXCEPT ![r] = record] /\ UNCHANGED <<users, employees, disturbed>>
  BY DEF Create, Begin, change
<1> HIDE DEF record
<1>5. RowSound(record) /\ CreateSound(record) /\ ReadSound(record)
  BY <1>1, <1>2, <1>3 DEF RowSound, CreateSound, ReadSound
<1> QED
  BY <1>2, <1>4, <1>5, ReadStep

LEMMA UpdateStep ==
  ASSUME StaffingConstants, SInv, NEW r \in StaffRequests, NEW e \in Rows,
         NEW change \in Patches, Update(r, e, change)
  PROVE  SInv'
<1> DEFINE row == employees[e]
           pc == IF change.role = Unset THEN "commit" ELSE "readUser"
           record == [Idle EXCEPT !.pc = pc, !.op = "update", !.user = row.user,
                                  !.org = row.org, !.row = e, !.seen = row, !.change = change]
<1>1. row \in Employee /\ row.user \in Users /\ row.org \in Orgs
  BY NoRowIsNone DEF SInv, TypeOK, Update, Exists, Employee
<1>2. change \in Change
  BY DEF Patches, Change, StaffingConstants
<1>3. sreq' = [sreq EXCEPT ![r] = record] /\ UNCHANGED <<users, employees, disturbed>>
  BY DEF Update, Begin
<1>4. pc \in {"readUser", "commit"} /\ (pc = "commit" => change.role = Unset)
  OBVIOUS
<1> HIDE DEF row, pc
<1>5. /\ record \in Request /\ record.pc = pc /\ record.op = "update" /\ record.user = row.user
      /\ record.org = row.org /\ record.row = e /\ record.seen = row /\ record.change = change
  BY <1>1, <1>2, <1>4, IdleIsRequest DEF Request
<1> HIDE DEF record
<1>6. RowSound(record)
  BY <1>1, <1>5 DEF RowSound, row
<1>7. CreateSound(record) /\ ReadSound(record)
  BY <1>4, <1>5 DEF CreateSound, ReadSound, KeepsRole
<1> QED
  BY <1>3, <1>5, <1>6, <1>7, ReadStep

LEMMA DeactivateStep ==
  ASSUME StaffingConstants, SInv, NEW r \in StaffRequests, NEW e \in Rows, Deactivate(r, e)
  PROVE  SInv'
<1> DEFINE row == employees[e]
           change == [role |-> Unset, status |-> "INACTIVE"]
           record == [Idle EXCEPT !.pc = "readUser", !.op = "deactivate", !.user = row.user,
                                  !.org = row.org, !.row = e, !.seen = row, !.change = change]
<1>1. row \in Employee /\ row.user \in Users /\ row.org \in Orgs
  BY NoRowIsNone DEF SInv, TypeOK, Deactivate, Exists, Employee
<1>2. change \in Change
  BY DEF Change, EmployeeStatus
<1>3. sreq' = [sreq EXCEPT ![r] = record] /\ UNCHANGED <<users, employees, disturbed>>
  BY DEF Deactivate, Begin
<1> HIDE DEF row, change
<1>4. /\ record \in Request /\ record.pc = "readUser" /\ record.op = "deactivate"
      /\ record.user = row.user /\ record.org = row.org /\ record.row = e /\ record.seen = row
      /\ record.change = change
  BY <1>1, <1>2, IdleIsRequest DEF Request
<1> HIDE DEF record
<1>5. RowSound(record)
  BY <1>1, <1>4 DEF RowSound, row, change
<1>6. CreateSound(record) /\ ReadSound(record)
  BY <1>4 DEF CreateSound, ReadSound
<1> QED
  BY <1>3, <1>4, <1>5, <1>6, ReadStep

LEMMA ReadUserStep ==
  ASSUME SInv, NEW r \in StaffRequests, ReadUser(r)
  PROVE  SInv'
<1> DEFINE q == sreq[r]
           record == [q EXCEPT !.pc = "commit", !.read = users[q.user]]
<1>1. /\ sreq \in [StaffRequests -> Request] /\ q \in Request
      /\ RowSound(q) /\ CreateSound(q) /\ ReadSound(q) /\ q.pc = "readUser"
  BY DEF SInv, TypeOK, RequestSound, ReadUser, At
<1>2. users[q.user] \in User
  BY <1>1 DEF SInv, TypeOK, Request
<1>3. sreq' = [sreq EXCEPT ![r] = record] /\ UNCHANGED <<users, employees, disturbed>>
  BY <1>1 DEF ReadUser, Request
<1> HIDE DEF q
<1>4. /\ record \in Request /\ record.pc = "commit" /\ record.read = users[q.user]
      /\ record.op = q.op /\ record.user = q.user /\ record.org = q.org /\ record.row = q.row
      /\ record.seen = q.seen /\ record.change = q.change /\ record.stale = q.stale
  BY <1>1, <1>2 DEF Request
<1> HIDE DEF record
<1>5. RowSound(record)
  BY <1>1, <1>4 DEF RowSound
<1>6. CreateSound(record) /\ ReadSound(record)
  BY <1>1, <1>4 DEF CreateSound, ReadSound
<1> QED
  BY <1>3, <1>4, <1>5, <1>6, ReadStep

-----------------------------------------------------------------------------
(* Commits.                                                                *)

LEMMA FlushUser ==
  ASSUME NEW row \in User, NEW read \in User, NEW new \in User
  PROVE  /\ Flush(row, read, new) \in User
         /\ row = read => Flush(row, read, new) = new
         /\ read = new => Flush(row, read, new) = row
<1>1. DOMAIN row = {"role", "org"}
  BY DEF User
<1>2. Flush(row, read, new) =
        [role |-> IF new.role # read.role THEN new.role ELSE row.role,
         org |-> IF new.org # read.org THEN new.org ELSE row.org]
  BY <1>1 DEF Flush
<1> QED
  BY <1>2 DEF User

LEMMA EmployeeShape ==
  ASSUME NEW row \in Employee
  PROVE  row.user \in Hired /\ row.org \in Orgs /\ row.role \in StaffRoles
         /\ row.status \in EmployeeStatus
BY DEF Employee

LEMMA FlushEmployee ==
  ASSUME NEW row \in Employee, NEW read \in Employee, NEW new \in Employee,
         new.user = read.user, new.org = read.org
  PROVE  /\ Flush(row, read, new) \in Employee
         /\ Flush(row, read, new).user = row.user /\ Flush(row, read, new).org = row.org
         /\ row = read => Flush(row, read, new) = new
<1>1. DOMAIN row = {"user", "org", "role", "status"}
  BY DEF Employee
<1>2. Flush(row, read, new) =
        [user |-> IF new.user # read.user THEN new.user ELSE row.user,
         org |-> IF new.org # read.org THEN new.org ELSE row.org,
         role |-> IF new.role # read.role THEN new.role ELSE row.role,
         status |-> IF new.status # read.status THEN new.status ELSE row.status]
  BY <1>1 DEF Flush
<1>3. Flush(row, read, new) \in Employee
  BY <1>2, EmployeeShape DEF Employee
<1>4. ASSUME row = read PROVE Flush(row, read, new) = new
  BY <1>2, <1>4 DEF Employee
<1> QED
  BY <1>2, <1>3, <1>4

LEMMA ApplyEmployee ==
  ASSUME NEW row \in Employee, NEW change \in Change
  PROVE  /\ Apply(row, change) \in Employee
         /\ Apply(row, change).user = row.user /\ Apply(row, change).org = row.org
         /\ Apply(row, change).role = IF change.role = Unset THEN row.role ELSE change.role
         /\ Apply(row, change).status =
              IF change.status = Unset THEN row.status ELSE change.status
<1> DEFINE role == IF change.role = Unset THEN row.role ELSE change.role
           status == IF change.status = Unset THEN row.status ELSE change.status
<1>1. role \in StaffRoles /\ status \in EmployeeStatus
  BY EmployeeShape DEF Change
<1>2. Apply(row, change) = [row EXCEPT !.role = role, !.status = status]
  BY DEF Apply
<1> HIDE DEF role, status
<1>3. /\ [row EXCEPT !.role = role, !.status = status] \in Employee
      /\ [row EXCEPT !.role = role, !.status = status].user = row.user
      /\ [row EXCEPT !.role = role, !.status = status].org = row.org
      /\ [row EXCEPT !.role = role, !.status = status].role = role
      /\ [row EXCEPT !.role = role, !.status = status].status = status
  BY <1>1 DEF Employee
<1> QED
  BY <1>2, <1>3 DEF role, status

LEMMA WrittenUser ==
  ASSUME StaffingConstants, NEW q \in Request, q.op # "none", CreateSound(q)
  PROVE  UserAsWritten(q) \in User
<1>1. /\ q.op \in {"create", "update", "deactivate"} /\ q.read \in User
      /\ q.change.role \in StaffRoles \cup {Unset}
  BY DEF Request, Change
<1>2. CASE q.op = "create"
  <2>1. q.change.role \in UserRole /\ q.org \in Orgs
    BY <1>2, NoRowIsNone DEF CreateSound
  <2> QED
    BY <1>2, <2>1 DEF UserAsWritten, User
<1>3. CASE q.op = "update" /\ q.change.role = Unset
  BY <1>1, <1>3 DEF UserAsWritten
<1>4. CASE q.op = "update" /\ q.change.role # Unset
  <2>1. q.change.role \in UserRole
    BY <1>1, <1>4, NoRowIsNone
  <2>2. [q.read EXCEPT !.role = q.change.role] \in User
    BY <1>1, <2>1 DEF User
  <2> QED
    BY <1>4, <2>2 DEF UserAsWritten
<1>5. CASE q.op = "deactivate"
  BY <1>5, NoRowIsNone DEF UserAsWritten, Client, User
<1> QED
  BY <1>1, <1>2, <1>3, <1>4, <1>5

\* A commit writes one row of employees and one of users, of the same user.
LEMMA CommitEffect ==
  ASSUME StaffingConstants, SInv, NEW r \in StaffRequests, Commit(r), NEW q, q = sreq[r]
  PROVE  /\ q \in Request /\ q.op \in {"create", "update", "deactivate"} /\ q.user \in Hired
         /\ RowSound(q) /\ CreateSound(q) /\ ReadSound(q) /\ q.pc = "commit"
         /\ users' \in [Users -> User]
         /\ users'[q.user] = Flush(users[q.user], q.read, UserAsWritten(q))
         /\ \A u \in Users \ {q.user} : users'[u] = users[u]
         /\ employees' \in [Rows -> Employee \cup {NoRow}]
         /\ \E e \in Rows :
              /\ \A f \in Rows \ {e} : employees'[f] = employees[f]
              /\ employees'[e] \in Employee
              /\ employees'[e].user = q.user /\ employees'[e].org = q.org
              /\ \/ /\ q.op = "create" /\ employees[e] = NoRow
                    /\ employees'[e].role = q.change.role /\ employees'[e].status = "ACTIVE"
                 \/ /\ q.op # "create" /\ q.row = e /\ employees[e] \in Employee
                    /\ employees[e].user = q.user /\ employees[e].org = q.org
                    /\ ~q.stale => employees[e] = q.seen
                                   /\ employees'[e] = Apply(q.seen, q.change)
         /\ disturbed' = IF Disturbs(q) THEN disturbed \cup {q.user} ELSE disturbed
<1>1. /\ users \in [Users -> User] /\ employees \in [Rows -> Employee \cup {NoRow}]
      /\ q \in Request /\ RowSound(q) /\ CreateSound(q) /\ ReadSound(q) /\ q.pc = "commit"
  BY DEF SInv, TypeOK, RequestSound, Commit, At
<1>2. q.op # "none" /\ q.op \in {"create", "update", "deactivate"} /\ q.change \in Change
      /\ q.user \in Users /\ q.read \in User
  BY <1>1 DEF ReadSound, Request
<1>3. q.user \in Hired
  BY <1>1, <1>2, EmployeeShape DEF RowSound, CreateSound
<1>4. users' = [users EXCEPT ![q.user] = Flush(@, q.read, UserAsWritten(q))]
      /\ disturbed' = IF Disturbs(q) THEN disturbed \cup {q.user} ELSE disturbed
  BY DEF Commit
<1>5. Flush(users[q.user], q.read, UserAsWritten(q)) \in User
  BY <1>1, <1>2, WrittenUser, FlushUser
<1>6. ASSUME q.op = "create"
      PROVE  \E e \in Rows :
               /\ employees' \in [Rows -> Employee \cup {NoRow}]
               /\ \A f \in Rows \ {e} : employees'[f] = employees[f]
               /\ employees'[e] \in Employee
               /\ employees'[e].user = q.user /\ employees'[e].org = q.org
               /\ employees[e] = NoRow
               /\ employees'[e].role = q.change.role /\ employees'[e].status = "ACTIVE"
  <2> DEFINE row == [user |-> q.user, org |-> q.org, role |-> q.change.role, status |-> "ACTIVE"]
  <2>1. PICK e \in Rows : ~Exists(e) /\ employees' = [employees EXCEPT ![e] = row]
    BY <1>6 DEF Commit
  <2>2. /\ row \in Employee /\ row.user = q.user /\ row.org = q.org
        /\ row.role = q.change.role /\ row.status = "ACTIVE"
    BY <1>1, <1>6 DEF CreateSound, Employee, EmployeeStatus
  <2> HIDE DEF row
  <2> QED
    BY <1>1, <2>1, <2>2 DEF Exists
<1>7. ASSUME q.op # "create"
      PROVE  /\ q.row \in Rows
             /\ employees' \in [Rows -> Employee \cup {NoRow}]
             /\ \A f \in Rows \ {q.row} : employees'[f] = employees[f]
             /\ employees'[q.row] \in Employee
             /\ employees'[q.row].user = q.user /\ employees'[q.row].org = q.org
             /\ employees[q.row] \in Employee
             /\ employees[q.row].user = q.user /\ employees[q.row].org = q.org
             /\ ~q.stale => employees[q.row] = q.seen
                            /\ employees'[q.row] = Apply(q.seen, q.change)
  <2> DEFINE new == Apply(q.seen, q.change)
             row == Flush(employees[q.row], q.seen, new)
  <2>1. employees' = [employees EXCEPT ![q.row] = row]
    BY <1>7 DEF Commit
  <2>2. /\ q.row \in Rows /\ q.seen \in Employee /\ employees[q.row] \in Employee
        /\ employees[q.row].user = q.user /\ employees[q.row].org = q.org
        /\ ~q.stale => employees[q.row] = q.seen
    BY <1>1, <1>2, <1>7 DEF RowSound
  <2>3. new \in Employee /\ new.user = q.seen.user /\ new.org = q.seen.org
    BY <1>2, <2>2, ApplyEmployee
  <2> HIDE DEF new
  <2>4. /\ row \in Employee /\ row.user = q.user /\ row.org = q.org
        /\ ~q.stale => row = new
    BY <2>2, <2>3, FlushEmployee
  <2> HIDE DEF row
  <2> QED
    BY <1>1, <2>1, <2>2, <2>4 DEF new
<1>8. /\ users' \in [Users -> User]
      /\ users'[q.user] = Flush(users[q.user], q.read, UserAsWritten(q))
      /\ \A u \in Users \ {q.user} : users'[u] = users[u]
  BY <1>1, <1>2, <1>4, <1>5
<1>9. CASE q.op = "create"
  BY <1>1, <1>2, <1>3, <1>4, <1>6, <1>8, <1>9
<1>10. CASE q.op # "create"
  BY <1>1, <1>2, <1>3, <1>4, <1>7, <1>8, <1>10
<1> QED
  BY <1>9, <1>10

\* The other requests go on; those on the same user know they were overtaken.
LEMMA DoneEffect ==
  ASSUME StaffingConstants, SInv, NEW r \in StaffRequests, Done(r), NEW o \in StaffRequests
  PROVE  /\ sreq'[o] \in Request
         /\ \/ sreq'[o] = Idle
            \/ /\ o # r /\ sreq'[o] = sreq[o]
               /\ sreq[o].pc = "idle" \/ sreq[o].user # sreq[r].user
            \/ /\ o # r /\ sreq'[o] = [sreq[o] EXCEPT !.stale = TRUE]
               /\ sreq[o].pc # "idle"
<1>1. sreq[o] \in Request
  BY DEF SInv, TypeOK
<1>2. [sreq[o] EXCEPT !.stale = TRUE] \in Request
  BY <1>1 DEF Request
<1> QED
  BY <1>1, <1>2, IdleIsRequest DEF Done, At

LEMMA RowsStay ==
  ASSUME StaffingConstants, SInv, NEW r \in StaffRequests, Commit(r), NEW f \in Rows
  PROVE  /\ employees[f] \in Employee =>
              /\ employees'[f] \in Employee
              /\ employees'[f].user = employees[f].user /\ employees'[f].org = employees[f].org
         /\ employees'[f] # employees[f] => employees'[f].user = sreq[r].user
         /\ employees[f] \in Employee /\ employees[f].user # sreq[r].user
            => employees'[f] = employees[f]
BY CommitEffect, NoRowIsNone DEF SInv, TypeOK

LEMMA CommitRequests ==
  ASSUME StaffingConstants, SInv, NEW r \in StaffRequests, Commit(r)
  PROVE  RequestSound'
<1> DEFINE u == sreq[r].user
<1>1. Done(r)
  BY DEF Commit
<1>2. /\ \A w \in Users \ {u} : users'[w] = users[w]
      /\ employees' \in [Rows -> Employee \cup {NoRow}]
  BY CommitEffect
<1>3. ASSUME NEW o \in StaffRequests, NEW q, q = sreq'[o]
      PROVE  /\ q.op \in {"update", "deactivate"} =>
                  /\ q.row \in Rows /\ q.seen \in Employee /\ employees'[q.row] \in Employee
                  /\ q.seen.user = q.user /\ q.seen.org = q.org
                  /\ employees'[q.row].user = q.user /\ employees'[q.row].org = q.org
                  /\ ~q.stale => employees'[q.row] = q.seen
                  /\ q.op = "deactivate" => q.change = [role |-> Unset, status |-> "INACTIVE"]
             /\ q.op = "create" =>
                  /\ q.user \in Hired /\ q.org \in Orgs /\ q.change.role \in StaffRoles
                  /\ ~q.stale => \A e \in Rows : ~Employed(e, q.user, q.org)'
             /\ q.pc # "idle" <=> q.op # "none"
             /\ q.pc = "commit" /\ ~q.stale => KeepsRole(q) \/ q.read = users'[q.user]
  <2>1. sreq[o] \in Request /\ RowSound(sreq[o]) /\ CreateSound(sreq[o]) /\ ReadSound(sreq[o])
    BY DEF SInv, TypeOK, RequestSound
  <2>2. CASE q = Idle
    BY <2>2, IdleIsRequest DEF ReadSound
  <2>3. CASE q = sreq[o] /\ q.pc = "idle"
    BY <2>1, <2>3 DEF ReadSound
  <2>4. CASE q = sreq[o] /\ q.pc # "idle" /\ q.user # u
    <3>1. q.user \in Users
      BY <2>1, <2>4 DEF Request
    <3>2. \A e \in Rows : Employed(e, q.user, q.org)' => Employed(e, q.user, q.org)
      <4>1. SUFFICES ASSUME NEW e \in Rows, Employed(e, q.user, q.org)'
                     PROVE  employees'[e] = employees[e]
        BY DEF Employed, Exists
      <4>2. employees'[e].user = q.user
        BY <4>1 DEF Employed
      <4> QED
        BY <2>4, <4>2, RowsStay
    <3> QED
      BY <1>2, <2>1, <2>4, <3>1, <3>2, RowsStay DEF RowSound, CreateSound, ReadSound
  <2>5. CASE q = [sreq[o] EXCEPT !.stale = TRUE]
    <3>1. /\ q.op = sreq[o].op /\ q.pc = sreq[o].pc /\ q.user = sreq[o].user
          /\ q.org = sreq[o].org /\ q.row = sreq[o].row /\ q.seen = sreq[o].seen
          /\ q.change = sreq[o].change /\ q.stale
      BY <2>1, <2>5 DEF Request
    <3> QED
      BY <2>1, <3>1, RowsStay DEF RowSound, CreateSound, ReadSound
  <2> QED
    BY <1>1, <1>3, <2>2, <2>3, <2>4, <2>5, DoneEffect
<1> QED
  BY <1>3 DEF RequestSound, RowSound, CreateSound, ReadSound, KeepsRole

LEMMA CommitTypes ==
  ASSUME StaffingConstants, SInv, NEW r \in StaffRequests, Commit(r)
  PROVE  TypeOK'
<1>1. /\ users' \in [Users -> User] /\ employees' \in [Rows -> Employee \cup {NoRow}]
      /\ sreq[r].user \in Hired
      /\ disturbed' = disturbed \/ disturbed' = disturbed \cup {sreq[r].user}
  BY CommitEffect
<1>2. sreq' \in [StaffRequests -> Request]
  <2>1. Done(r)
    BY DEF Commit
  <2> QED
    BY <2>1, DoneEffect DEF Done
<1> QED
  BY <1>1, <1>2, NoRowIsNone DEF SInv, TypeOK

\* The two rules, user by user.
ListedFor(u) ==
  \A o \in Orgs, e, f \in Rows :
    Employed(e, u, o) /\ Employed(f, u, o) => e = f \/ u \in disturbed

CopiesFor(u) ==
  Ordered(u) =>
    /\ \A o \in Orgs, e \in Rows :
         Employed(e, u, o) => users[u] = [role |-> employees[e].role, org |-> o]
    /\ (\A o \in Orgs, e \in Rows : ~Employed(e, u, o)) => users[u] = Client

LEMMA ByUser ==
  ASSUME SInv, NEW u \in Hired
  PROVE  ListedFor(u) /\ CopiesFor(u)
<1>1. ASSUME NEW o \in Orgs, NEW e \in Rows, NEW f \in Rows, Employed(e, u, o), Employed(f, u, o)
      PROVE  e = f \/ u \in disturbed
  <2>1. e \in ListEmployees(o) /\ f \in ListEmployees(o)
        /\ employees[e].user = u /\ employees[f].user = u
    BY <1>1 DEF ListEmployees, Employed
  <2> QED
    BY <2>1 DEF SInv, ListedOnce
<1>2. CopiesFor(u)
  BY DEF SInv, UserCopiesEmployment, CopiesFor
<1> QED
  BY <1>1, <1>2 DEF ListedFor

\* Rows are not deleted, and keep their user and organisation: a consultant stays one.
LEMMA OrderedBefore ==
  ASSUME StaffingConstants, SInv, NEW r \in StaffRequests, Commit(r), NEW u \in Hired,
         Ordered(u)'
  PROVE  Ordered(u)
<1>1. u \notin disturbed
  BY CommitEffect DEF Ordered
<1>2. ASSUME Consultant(u) PROVE Consultant(u)'
  <2>1. PICK e \in Rows, f \in Rows :
          /\ Exists(e) /\ Exists(f) /\ employees[e].user = u /\ employees[f].user = u
          /\ employees[e].org # employees[f].org
    BY <1>2 DEF Consultant
  <2>2. employees[e] \in Employee /\ employees[f] \in Employee
    BY <2>1 DEF SInv, TypeOK, Exists
  <2>3. /\ employees'[e] \in Employee /\ employees'[f] \in Employee
        /\ employees'[e].user = u /\ employees'[f].user = u
        /\ employees'[e].org # employees'[f].org
    BY <2>1, <2>2, RowsStay
  <2> QED
    BY <2>3, NoRowIsNone DEF Consultant, Exists
<1> QED
  BY <1>1, <1>2 DEF Ordered

\* A user the commit is not about.
LEMMA CommitElsewhere ==
  ASSUME StaffingConstants, SInv, NEW r \in StaffRequests, Commit(r), NEW u \in Hired,
         u # sreq[r].user
  PROVE  ListedFor(u)' /\ CopiesFor(u)'
<1>1. ASSUME NEW e \in Rows, employees'[e] # employees[e]
      PROVE  employees'[e].user # u /\ ~(employees[e] \in Employee /\ employees[e].user = u)
  BY <1>1, RowsStay
<1>2. \A e \in Rows, o \in Orgs :
        /\ Employed(e, u, o)' <=> Employed(e, u, o)
        /\ Employed(e, u, o) => employees'[e] = employees[e]
  BY <1>1 DEF Employed, Exists, SInv, TypeOK
<1>3. users'[u] = users[u] /\ (u \in disturbed' <=> u \in disturbed)
  BY CommitEffect, NoRowIsNone
<1>4. ListedFor(u)'
  BY <1>2, <1>3, ByUser DEF ListedFor
<1>5. CopiesFor(u)'
  <2>1. SUFFICES ASSUME Ordered(u)'
                 PROVE  /\ \A o \in Orgs, e \in Rows : Employed(e, u, o)'
                             => users'[u] = [role |-> employees'[e].role, org |-> o]
                        /\ (\A o \in Orgs, e \in Rows : ~Employed(e, u, o)') => users'[u] = Client
    BY DEF CopiesFor
  <2>2. Ordered(u)
    BY <2>1, OrderedBefore
  <2> QED
    BY <1>2, <1>3, <2>2, ByUser DEF CopiesFor
<1> QED
  BY <1>4, <1>5

LEMMA CommitListed ==
  ASSUME StaffingConstants, SInv, NEW r \in StaffRequests, Commit(r), NEW u, u = sreq[r].user
  PROVE  ListedFor(u)'
<1> DEFINE q == sreq[r]
<1>1. u \in Hired /\ q \in Request /\ CreateSound(q) /\ RowSound(q)
      /\ q.op \in {"create", "update", "deactivate"}
  BY CommitEffect
<1>2. CASE Disturbs(q)
  <2>1. u \in disturbed'
    BY <1>2, CommitEffect
  <2> QED
    BY <2>1 DEF ListedFor
<1>3. CASE ~Disturbs(q)
  <2>1. disturbed' = disturbed /\ ~q.stale
    BY <1>3, CommitEffect DEF Disturbs
  <2>2. PICK c \in Rows :
          /\ \A f \in Rows \ {c} : employees'[f] = employees[f]
          /\ employees'[c].org = q.org
          /\ \/ q.op = "create" /\ employees[c] = NoRow
             \/ /\ q.op # "create" /\ q.row = c
                /\ employees[c] \in Employee
                /\ employees[c].user = u /\ employees[c].org = q.org
                /\ employees[c] = q.seen /\ employees'[c] = Apply(q.seen, q.change)
    BY <2>1, CommitEffect
  <2>3. CASE q.op = "create"
    <3>1. \A e \in Rows : ~Employed(e, u, q.org)
      BY <2>1, <2>3, <1>1 DEF CreateSound
    <3>2. \A e \in Rows \ {c}, o \in Orgs : Employed(e, u, o)' <=> Employed(e, u, o)
      BY <2>2 DEF Employed, Exists
    <3>3. \A o \in Orgs : Employed(c, u, o)' => o = q.org
      BY <2>2 DEF Employed
    <3> QED
      BY <1>1, <2>1, <3>1, <3>2, <3>3, ByUser DEF ListedFor
  <2>4. CASE q.op # "create"
    <3>1. employees[c].status # "INACTIVE"
      BY <1>3, <2>2, <2>4 DEF Disturbs
    <3>2. \A o \in Orgs : Employed(c, u, o)' => Employed(c, u, o)
      BY <2>2, <2>4, <3>1, NoRowIsNone DEF Employed, Exists
    <3>3. \A e \in Rows \ {c}, o \in Orgs : Employed(e, u, o)' <=> Employed(e, u, o)
      BY <2>2 DEF Employed, Exists
    <3> QED
      BY <1>1, <2>1, <3>2, <3>3, ByUser DEF ListedFor
  <2> QED
    BY <2>3, <2>4
<1> QED
  BY <1>2, <1>3

\* In a commit that leaves the user ordered nobody was overtaken, the row was not
\* INACTIVE, and every row of the user is of the organisation of the commit.
LEMMA OrderedCommit ==
  ASSUME StaffingConstants, SInv, NEW r \in StaffRequests, Commit(r), NEW u, u = sreq[r].user,
         NEW q, q = sreq[r], Ordered(u)'
  PROVE  \E c \in Rows :
           /\ employees'[c] \in Employee /\ employees'[c].user = u /\ employees'[c].org = q.org
           /\ \A f \in Rows \ {c}, o \in Orgs :
                Employed(f, u, o)' => Employed(f, u, o) /\ o = q.org
           /\ \/ /\ q.op = "create" /\ employees[c] = NoRow
                 /\ employees'[c].role = q.change.role /\ employees'[c].status = "ACTIVE"
              \/ /\ q.op \in {"update", "deactivate"} /\ Employed(c, u, q.org)
                 /\ employees[c] = q.seen /\ q.seen \in Employee
                 /\ employees'[c] = Apply(q.seen, q.change)
                 /\ q.op = "update" => q.change.status = Unset
           /\ ~q.stale /\ Ordered(u)
<1>1. u \in Hired /\ u \notin disturbed' /\ ~Consultant(u)'
  BY CommitEffect DEF Ordered
<1>2. ~Disturbs(q)
  BY <1>1, CommitEffect
<1>3. ~q.stale
  BY <1>2 DEF Disturbs
<1>4. PICK c \in Rows :
        /\ \A f \in Rows \ {c} : employees'[f] = employees[f]
        /\ employees'[c] \in Employee
        /\ employees'[c].user = u /\ employees'[c].org = q.org
        /\ \/ /\ q.op = "create" /\ employees[c] = NoRow
              /\ employees'[c].role = q.change.role /\ employees'[c].status = "ACTIVE"
           \/ /\ q.op # "create" /\ q.row = c /\ employees[c] \in Employee
              /\ employees[c].user = u /\ employees[c].org = q.org
              /\ employees[c] = q.seen /\ employees'[c] = Apply(q.seen, q.change)
  BY <1>3, CommitEffect
<1>5. ASSUME NEW f \in Rows \ {c}, NEW o \in Orgs, Employed(f, u, o)'
      PROVE  Employed(f, u, o) /\ o = q.org
  <2>1. Employed(f, u, o) /\ employees'[f] # NoRow /\ employees'[f].user = u
        /\ employees'[f].org = o
    BY <1>4, <1>5 DEF Employed, Exists
  <2>2. employees'[c] # NoRow
    BY <1>4, NoRowIsNone
  <2> QED
    BY <1>1, <1>4, <2>1, <2>2 DEF Consultant, Exists
<1>6. ASSUME q.op # "create" PROVE Employed(c, u, q.org)
  <2>1. q.seen.status # "INACTIVE"
    BY <1>2, <1>6 DEF Disturbs
  <2> QED
    BY <1>4, <1>6, <2>1, NoRowIsNone DEF Employed, Exists
<1>7. q.op = "update" => q.change.status = Unset
  BY <1>2 DEF Disturbs
<1>8. q.op \in {"create", "update", "deactivate"} /\ Ordered(u)
  BY <1>1, CommitEffect, OrderedBefore
<1> QED
  BY <1>3, <1>4, <1>5, <1>6, <1>7, <1>8

LEMMA CommitCopies ==
  ASSUME StaffingConstants, SInv, NEW r \in StaffRequests, Commit(r), NEW u, u = sreq[r].user
  PROVE  CopiesFor(u)'
<1> SUFFICES ASSUME Ordered(u)'
             PROVE  /\ \A o \in Orgs, e \in Rows : Employed(e, u, o)'
                         => users'[u] = [role |-> employees'[e].role, org |-> o]
                    /\ (\A o \in Orgs, e \in Rows : ~Employed(e, u, o)') => users'[u] = Client
  BY DEF CopiesFor
<1> DEFINE q == sreq[r]
<1>1. PICK c \in Rows :
        /\ employees'[c] \in Employee /\ employees'[c].user = u /\ employees'[c].org = q.org
        /\ \A f \in Rows \ {c}, o \in Orgs :
             Employed(f, u, o)' => Employed(f, u, o) /\ o = q.org
        /\ \/ /\ q.op = "create" /\ employees[c] = NoRow
              /\ employees'[c].role = q.change.role /\ employees'[c].status = "ACTIVE"
           \/ /\ q.op \in {"update", "deactivate"} /\ Employed(c, u, q.org)
              /\ employees[c] = q.seen /\ q.seen \in Employee
              /\ employees'[c] = Apply(q.seen, q.change)
              /\ q.op = "update" => q.change.status = Unset
        /\ ~q.stale /\ Ordered(u)
  BY OrderedCommit
<1>2. /\ u \in Hired /\ q \in Request /\ q.change \in Change /\ q.read \in User
      /\ RowSound(q) /\ CreateSound(q) /\ ReadSound(q) /\ q.pc = "commit"
      /\ users[u] \in User /\ q.op # "none"
  BY CommitEffect, NoRowIsNone DEF Request, SInv, TypeOK
<1>3. users'[u] = Flush(users[u], q.read, UserAsWritten(q)) /\ UserAsWritten(q) \in User
  BY <1>2, CommitEffect, WrittenUser
<1>4. ListedFor(u) /\ CopiesFor(u) /\ u \notin disturbed
  BY <1>1, <1>2, ByUser DEF Ordered
<1>5. KeepsRole(q) \/ q.read = users[u]
  BY <1>1, <1>2 DEF ReadSound
<1>6. ASSUME NEW o \in Orgs PROVE Employed(c, u, o)' => o = q.org
  BY <1>1, <1>6 DEF Employed
<1>7. q.org \in Orgs
  BY <1>1, EmployeeShape
<1>8. CASE q.op = "create"
  <2>1. users'[u] = [role |-> q.change.role, org |-> q.org]
    <3>1. q.read = users[u]
      BY <1>5, <1>8 DEF KeepsRole
    <3>2. UserAsWritten(q) = [role |-> q.change.role, org |-> q.org]
      BY <1>8 DEF UserAsWritten
    <3> QED
      BY <1>2, <1>3, <3>1, <3>2, FlushUser
  <2>2. \A f \in Rows \ {c}, o \in Orgs : ~Employed(f, u, o)'
    BY <1>1, <1>2, <1>8 DEF CreateSound
  <2>3. employees'[c].role = q.change.role /\ \A o \in Orgs : o = q.org => Employed(c, u, o)'
    BY <1>1, <1>8, NoRowIsNone DEF Employed, Exists
  <2> QED
    BY <1>6, <1>7, <2>1, <2>2, <2>3
<1>9. ASSUME q.op \in {"update", "deactivate"}
      PROVE  \A f \in Rows \ {c}, o \in Orgs : ~Employed(f, u, o)'
  BY <1>1, <1>4, <1>9 DEF ListedFor
<1>10. CASE q.op = "update"
  <2>1. users[u] = [role |-> employees[c].role, org |-> q.org]
    BY <1>1, <1>4, <1>7, <1>10 DEF CopiesFor
  <2>2. /\ employees'[c].role =
             IF q.change.role = Unset THEN employees[c].role ELSE q.change.role
        /\ employees'[c].status = employees[c].status
    BY <1>1, <1>2, <1>10, ApplyEmployee
  <2>3. users'[u] = [role |-> employees'[c].role, org |-> q.org]
    <3>1. CASE q.change.role = Unset
      <4>1. UserAsWritten(q) = q.read
        BY <1>10, <3>1 DEF UserAsWritten
      <4> QED
        BY <1>2, <1>3, <2>1, <2>2, <3>1, <4>1, FlushUser
    <3>2. CASE q.change.role # Unset
      <4>1. q.read = users[u]
        BY <1>5, <3>2 DEF KeepsRole
      <4>2. UserAsWritten(q) = [users[u] EXCEPT !.role = q.change.role]
        BY <1>10, <3>2, <4>1 DEF UserAsWritten
      <4>3. UserAsWritten(q) = [role |-> q.change.role, org |-> q.org]
        BY <2>1, <4>2
      <4> QED
        BY <1>2, <1>3, <2>2, <3>2, <4>1, <4>3, FlushUser
    <3> QED
      BY <3>1, <3>2
  <2>4. \A o \in Orgs : o = q.org => Employed(c, u, o)'
    BY <1>1, <1>10, <2>2, NoRowIsNone DEF Employed, Exists
  <2> QED
    BY <1>6, <1>7, <1>9, <1>10, <2>3, <2>4
<1>11. CASE q.op = "deactivate"
  <2>1. q.change = [role |-> Unset, status |-> "INACTIVE"]
    BY <1>2, <1>11 DEF RowSound
  <2>2. employees'[c].status = "INACTIVE"
    BY <1>1, <1>2, <1>11, <2>1, ApplyEmployee DEF Unset
  <2>3. users'[u] = Client
    <3>1. q.read = users[u] /\ UserAsWritten(q) = Client
      BY <1>5, <1>11 DEF KeepsRole, UserAsWritten
    <3> QED
      BY <1>2, <1>3, <3>1, FlushUser
  <2>4. \A o \in Orgs : ~Employed(c, u, o)'
    BY <2>2 DEF Employed
  <2> QED
    BY <1>9, <1>11, <2>3, <2>4
<1> QED
  BY <1>1, <1>8, <1>10, <1>11

LEMMA CommitStep ==
  ASSUME StaffingConstants, SInv, NEW r \in StaffRequests, Commit(r)
  PROVE  SInv'
<1>1. TypeOK' /\ RequestSound'
  BY CommitTypes, CommitRequests
<1>2. \A u \in Hired : ListedFor(u)' /\ CopiesFor(u)'
  BY CommitElsewhere, CommitListed, CommitCopies
<1>3. ListedOnce'
  <2>1. SUFFICES ASSUME NEW o \in Orgs, NEW e \in ListEmployees(o)', NEW f \in ListEmployees(o)',
                        employees'[e].user = employees'[f].user
                 PROVE  e = f \/ employees'[e].user \in disturbed'
    BY DEF ListedOnce
  <2>2. PICK u \in Hired : e \in Rows /\ Employed(e, u, o)'
    BY DEF ListEmployees
  <2>3. PICK w \in Hired : f \in Rows /\ Employed(f, w, o)'
    BY DEF ListEmployees
  <2>4. u = employees'[e].user /\ w = employees'[f].user
    BY <2>2, <2>3 DEF Employed
  <2> QED
    BY <1>2, <2>1, <2>2, <2>3, <2>4 DEF ListedFor
<1>4. UserCopiesEmployment'
  BY <1>2 DEF UserCopiesEmployment, CopiesFor
<1> QED
  BY <1>1, <1>3, <1>4 DEF SInv

LEMMA StaffingNext ==
  ASSUME StaffingConstants, SInv, [Next]_staffVars
  PROVE  SInv'
<1>1. CASE UNCHANGED staffVars
  <2>1. UNCHANGED <<users, employees, sreq, disturbed>>
    BY <1>1 DEF staffVars
  <2>2. TypeOK' /\ RequestSound'
    BY <2>1 DEF SInv, TypeOK, RequestSound, RowSound, CreateSound, ReadSound, KeepsRole,
                Employed, Exists
  <2>3. ListedOnce' /\ UserCopiesEmployment'
    BY <2>1 DEF SInv, ListedOnce, ListEmployees, UserCopiesEmployment, Ordered, Consultant,
                Employed, Exists
  <2> QED
    BY <2>2, <2>3 DEF SInv
<1>2. ASSUME NEW r \in StaffRequests, NEW u \in Hired, NEW o \in Orgs, NEW role \in StaffRoles,
             Create(r, u, o, role)
      PROVE  SInv'
  BY <1>2, CreateStep
<1>3. ASSUME NEW r \in StaffRequests, NEW e \in Rows, NEW change \in Patches, Update(r, e, change)
      PROVE  SInv'
  BY <1>3, UpdateStep
<1>4. ASSUME NEW r \in StaffRequests, NEW e \in Rows, Deactivate(r, e)
      PROVE  SInv'
  BY <1>4, DeactivateStep
<1>5. ASSUME NEW r \in StaffRequests, ReadUser(r) \/ Commit(r)
      PROVE  SInv'
  BY <1>5, ReadUserStep, CommitStep
<1> QED
  BY <1>1, <1>2, <1>3, <1>4, <1>5 DEF Next

LEMMA StaffingInvariant == StaffingConstants /\ Spec => []SInv
<1> SUFFICES ASSUME StaffingConstants PROVE Spec => []SInv
  OBVIOUS
<1>1. Init => SInv
  BY StaffingInit
<1>2. SInv /\ [Next]_staffVars => SInv'
  BY StaffingNext
<1> QED
  BY <1>1, <1>2, PTL DEF Spec

\* The types of the tables and of the requests.
THEOREM StaffingTypeCorrect == StaffingConstants /\ Spec => []TypeOK
BY StaffingInvariant, PTL DEF SInv

\* The role and organisation in users are those of the user's one employment, and a user
\* without one is a client, for any number of administrators at work: unless a request
\* committed over another's commit, or a status was set by PATCH.
THEOREM UserAlwaysCopiesEmployment == StaffingConstants /\ Spec => []UserCopiesEmployment
BY StaffingInvariant, PTL DEF SInv

\* An organisation lists a user once, unless one of those touched the user.
THEOREM AlwaysListedOnce == StaffingConstants /\ Spec => []ListedOnce
BY StaffingInvariant, PTL DEF SInv

-----------------------------------------------------------------------------
(* What the guards make of the copy.                                       *)

\* No route is open to a client.
LEMMA ClientReachesNothing ==
  ASSUME NEW org
  PROVE  ~MayReach(Client, org)
<1>1. Client.role = "CLIENT"
  BY DEF Client
<1>2. ASSUME NEW minimum, AtLeast("CLIENT", minimum) PROVE minimum = "CLIENT"
  BY <1>2 DEF AtLeast, ROLE_HIERARCHY
<1> QED
  BY <1>1, <1>2 DEF MayReach, EmployeesRoute, CountersRoute, ServicesRoute, BranchesRoute,
                    OrganizationsRoute, AnalyticsRoute, Admins

\* Whoever has an organisation reaches no other, but for a super admin.
LEMMA ReachesOwnOrg ==
  ASSUME NEW caller, NEW org, caller.role # "SUPER_ADMIN", caller.org # NoOrg,
         MayReach(caller, org)
  PROVE  caller.org = org
BY DEF MayReach, EmployeesRoute, CountersRoute, ServicesRoute, BranchesRoute,
       OrganizationsRoute, AnalyticsRoute, OwnOrg

LEMMA CopiesKeepStaffIn ==
  ASSUME StaffingConstants, UserCopiesEmployment
  PROVE  StaffKeepToOwnOrg
<1> SUFFICES ASSUME NEW u \in Hired, NEW o \in Orgs, MayReach(users[u], o),
                    users[u].role # "SUPER_ADMIN", Ordered(u)
             PROVE  users[u].org = o
  BY DEF StaffKeepToOwnOrg
<1>1. users[u] # Client
  BY ClientReachesNothing
<1>2. PICK e \in Rows, p \in Orgs : Employed(e, u, p)
  BY <1>1 DEF UserCopiesEmployment
<1>3. users[u].org = p
  <2>1. users[u] = [role |-> employees[e].role, org |-> p]
    BY <1>2 DEF UserCopiesEmployment
  <2> QED
    BY <2>1
<1>4. p # NoOrg
  BY DEF StaffingConstants
<1> QED
  BY <1>3, <1>4, ReachesOwnOrg

\* No route of another organisation is open to staff: the one guard that lets a caller
\* without an organisation through never meets one, as long as the copies agree.
THEOREM StaffAlwaysKeepToOwnOrg == StaffingConstants /\ Spec => []StaffKeepToOwnOrg
<1> SUFFICES ASSUME StaffingConstants PROVE Spec => []StaffKeepToOwnOrg
  OBVIOUS
<1>1. SInv => StaffKeepToOwnOrg
  BY CopiesKeepStaffIn DEF SInv
<1> QED
  BY <1>1, StaffingInvariant, PTL

=============================================================================
