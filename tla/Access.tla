------------------------------- MODULE Access -------------------------------
(***************************************************************************)
(* Who may call what: the role hierarchy and the guards of the routers     *)
(* (app/core/deps.py, app/routers).  A caller is the users row that        *)
(* get_current_user loads when the request begins: [role, org].  Every     *)
(* guard is evaluated once, on that row.  Also the one rule of SQLAlchemy  *)
(* that the services rely on without saying so: Flush.                     *)
(***************************************************************************)
EXTENDS Naturals, Sequences

CONSTANT NoOrg   \* a NULL org_id

ROLE_HIERARCHY ==
  <<"CLIENT", "AGENT", "SUPERVISOR", "ADMIN_AGENCY", "ADMIN_ORG", "SUPER_ADMIN">>

UserRole == {ROLE_HIERARCHY[i] : i \in DOMAIN ROLE_HIERARCHY}

\* _require_role: the caller's role is not below the minimum.
AtLeast(role, minimum) ==
  \E i, j \in DOMAIN ROLE_HIERARCHY :
    ROLE_HIERARCHY[i] = minimum /\ ROLE_HIERARCHY[j] = role /\ i <= j

Admins == {"ADMIN_AGENCY", "ADMIN_ORG", "SUPER_ADMIN"}

\* _get_effective_org_id of the employees and counters routers, and
\* _check_org_access of the services router.
OwnOrg(caller, org) == caller.role = "SUPER_ADMIN" \/ caller.org = org

\* routers/employees.py: every route asks for an administrator.
EmployeesRoute(caller, org) == AtLeast(caller.role, "ADMIN_AGENCY") /\ OwnOrg(caller, org)

\* routers/counters.py: every route is open to agents.
CountersRoute(caller, org) == AtLeast(caller.role, "AGENT") /\ OwnOrg(caller, org)

\* routers/services.py, all but the public list.
ServicesRoute(caller, org) == caller.role \in Admins /\ OwnOrg(caller, org)

\* routers/branches.py; BranchService then holds a caller who has an org_id,
\* a super admin too, to the branches of that organisation.
BranchesRoute(caller, org) ==
  /\ caller.role \in Admins
  /\ OwnOrg(caller, org)
  /\ caller.org \in {NoOrg, org}

\* routers/organizations.py: get, update, generate_invitation_code.
OrganizationsRoute(caller, org) ==
  caller.role \in {"ADMIN_ORG", "SUPER_ADMIN"} /\ OwnOrg(caller, org)

\* routers/analytics.py: a caller without an organisation is let through.
AnalyticsRoute(caller, org) ==
  /\ AtLeast(caller.role, "SUPERVISOR")
  /\ caller.role = "SUPER_ADMIN" \/ caller.org \in {NoOrg, org}

\* Some route under /organizations/{org} is open to the caller.
MayReach(caller, org) ==
  \/ EmployeesRoute(caller, org) \/ CountersRoute(caller, org)
  \/ ServicesRoute(caller, org) \/ BranchesRoute(caller, org)
  \/ OrganizationsRoute(caller, org) \/ AnalyticsRoute(caller, org)

\* SQLAlchemy's UPDATE names the columns whose new value differs from the
\* value read: the others keep what other requests have committed since.
Flush(row, read, new) ==
  [f \in DOMAIN row |-> IF new[f] # read[f] THEN new[f] ELSE row[f]]

=============================================================================
