---------------------------- MODULE Organisations ----------------------------
(***************************************************************************)
(* OrganizationService (app/services/organization_service.py): the         *)
(* organizations table with its invitation codes, and the memberships of   *)
(* user_organization.  Every operation reads, decides and commits; the     *)
(* decision of a join is about two rows that two other requests may write  *)
(* before it commits.                                                      *)
(***************************************************************************)
EXTENDS Access

CONSTANTS
  Clients,      \* users who join and leave
  Orgs,         \* organizations rows that may be inserted
  Slugs,        \* slugs asked for
  Invitations,  \* invitation codes, each drawn once (32^8 of them)
  OrgRequests,  \* requests that may be in flight together
  NoCode

\* What the constants must satisfy.
OrganisationsConstants == NoCode \notin Invitations \cup Slugs

VARIABLES
  orgs,     \* rows of organizations
  used,     \* invitation codes drawn until now
  replaced, \* history: codes that another code has replaced
  members,  \* user_organization.status, "none" before the row exists
  oreq      \* the requests in flight

orgVars == <<orgs, used, replaced, members, oreq>>

-----------------------------------------------------------------------------
\* A row: active is is_active; expired says that invitation_expires_at is past.
Organization == [ slug    : Slugs,
                  active  : BOOLEAN,
                  code    : Invitations \cup {NoCode},
                  usable  : BOOLEAN,       \* invitation_code_active
                  expired : BOOLEAN ]
NoOrganization == [slug |-> NoCode, active |-> FALSE, code |-> NoCode,
                   usable |-> FALSE, expired |-> FALSE]

Idle == [pc |-> "idle", user |-> NoCode, org |-> NoOrg, slug |-> NoCode,
         seen |-> NoOrganization, to |-> NoOrganization, member |-> "none", stale |-> FALSE]

Request == [ pc     : {"idle", "insert", "patch", "draw", "readMember", "enter", "leave"},
             user   : Clients \cup {NoCode},
             org    : Orgs \cup {NoOrg},
             slug   : Slugs \cup {NoCode},
             seen   : Organization \cup {NoOrganization},
             to     : Organization \cup {NoOrganization},
             member : {"none", "active", "inactive"},
             stale  : BOOLEAN ]

TypeOK ==
  /\ orgs \in [Orgs -> Organization \cup {NoOrganization}]
  /\ used \in SUBSET Invitations
  /\ replaced \in SUBSET Invitations
  /\ members \in [Clients -> [Orgs -> {"none", "active", "inactive"}]]
  /\ oreq \in [OrgRequests -> Request]

Init ==
  /\ orgs = [o \in Orgs |-> NoOrganization]
  /\ used = {} /\ replaced = {}
  /\ members = [u \in Clients |-> [o \in Orgs |-> "none"]]
  /\ oreq = [r \in OrgRequests |-> Idle]

-----------------------------------------------------------------------------
At(r, pc) == oreq[r].pc = pc
Exists(o) == orgs[o].slug # NoCode

Begin(r, record) == At(r, "idle") /\ oreq' = [oreq EXCEPT ![r] = record]

\* The commit of r ends it and overtakes whoever is at work on the same rows:
\* all requests on the organisation, or those of the same user on it.
Overtakes(r, q, whose) ==
  /\ ~At(q, "idle") /\ oreq[q].org = oreq[r].org /\ oreq[q].user \in whose

Done(r, whose) ==
  oreq' = [q \in OrgRequests |->
             IF q = r THEN Idle
             ELSE IF Overtakes(r, q, whose) THEN [oreq[q] EXCEPT !.stale = TRUE]
                  ELSE oreq[q]]

Anyone == Clients \cup {NoCode}

\* create, by a super admin: the slug is looked up, then inserted under a
\* unique constraint.
Create(r, slug) ==
  /\ \A o \in Orgs : orgs[o].slug # slug
  /\ Begin(r, [Idle EXCEPT !.pc = "insert", !.slug = slug])
  /\ UNCHANGED <<orgs, used, replaced, members>>

Insert(r) ==
  /\ At(r, "insert")
  /\ \/ /\ \E o \in Orgs : orgs[o].slug = oreq[r].slug
        /\ UNCHANGED orgs
     \/ /\ \A o \in Orgs : orgs[o].slug # oreq[r].slug
        /\ \E o \in Orgs : /\ ~Exists(o)
                           /\ orgs' = [orgs EXCEPT ![o] =
                                [NoOrganization EXCEPT !.slug = oreq[r].slug, !.active = TRUE]]
  /\ oreq' = [oreq EXCEPT ![r] = Idle]
  /\ UNCHANGED <<used, replaced, members>>

\* update of is_active (no other field is part of a rule), and delete, which
\* is the update to FALSE.
Update(r, o, active) ==
  /\ Exists(o)
  /\ Begin(r, [Idle EXCEPT !.pc = "patch", !.org = o, !.seen = orgs[o],
                           !.to = [orgs[o] EXCEPT !.active = active]])
  /\ UNCHANGED <<orgs, used, replaced, members>>

Delete(r, o) == Update(r, o, FALSE)

\* generate_invitation_code, of an active organisation: the row, then the
\* look-up of the code that was drawn, then the commit.
Generate(r, o) ==
  /\ Exists(o) /\ orgs[o].active
  /\ Begin(r, [Idle EXCEPT !.pc = "draw", !.org = o, !.seen = orgs[o]])
  /\ UNCHANGED <<orgs, used, replaced, members>>

Draw(r) ==
  /\ At(r, "draw")
  /\ \E code \in Invitations \ used :
       /\ used' = used \cup {code}
       /\ oreq' = [oreq EXCEPT ![r].pc = "patch",
                     ![r].to = [oreq[r].seen EXCEPT !.code = code, !.usable = TRUE,
                                                    !.expired = FALSE]]
  /\ UNCHANGED <<orgs, replaced, members>>

\* History: the code that the row holds now gives way to another.
Retire(o) ==
  replaced' = IF orgs'[o].code # orgs[o].code /\ orgs[o].code # NoCode
              THEN replaced \cup {orgs[o].code} ELSE replaced

\* The row that such a commit leaves.  invitation_expires_at is a new date at
\* each generation, so it is written even when the row was not past its date.
Written(row, q) ==
  [Flush(row, q.seen, q.to) EXCEPT !.expired = IF q.to.code # q.seen.code THEN FALSE ELSE @]

\* Mutant: the UPDATE names every column.
PatchWholeRow(r) ==
  LET q == oreq[r]
  IN  /\ At(r, "patch")
      /\ orgs' = [orgs EXCEPT ![q.org] = q.to]
      /\ Retire(q.org)
      /\ Done(r, Anyone)
      /\ UNCHANGED <<used, members>>

\* The commit of update, delete and generate_invitation_code.
Patch(r) ==
  LET q == oreq[r]
  IN  /\ At(r, "patch")
      /\ orgs' = [orgs EXCEPT ![q.org] = Written(@, q)]
      /\ Retire(q.org)
      /\ Done(r, Anyone)
      /\ UNCHANGED <<used, members>>

\* The date passes.
Expire(o) ==
  /\ orgs[o].usable /\ ~orgs[o].expired
  /\ orgs' = [orgs EXCEPT ![o].expired = TRUE]
  /\ oreq' = [q \in OrgRequests |-> IF oreq[q].org = o /\ ~At(q, "idle")
                                    THEN [oreq[q] EXCEPT !.stale = TRUE] ELSE oreq[q]]
  /\ UNCHANGED <<used, replaced, members>>

-----------------------------------------------------------------------------
(* Joining and leaving.                                                    *)

\* The organisation an invitation opens: one SELECT and the comparison of dates.
Opens(code, o) ==
  orgs[o].code = code /\ orgs[o].usable /\ orgs[o].active /\ ~orgs[o].expired

\* Mutant: is_active is not part of the SELECT.
JoinAny(r, u, code) ==
  \E o \in Orgs :
    /\ orgs[o].code = code /\ orgs[o].usable /\ ~orgs[o].expired
    /\ Begin(r, [Idle EXCEPT !.pc = "readMember", !.user = u, !.org = o, !.seen = orgs[o]])
    /\ UNCHANGED <<orgs, used, replaced, members>>

\* join_by_code.
Join(r, u, code) ==
  \E o \in Orgs :
    /\ Opens(code, o)
    /\ Begin(r, [Idle EXCEPT !.pc = "readMember", !.user = u, !.org = o, !.seen = orgs[o]])
    /\ UNCHANGED <<orgs, used, replaced, members>>

\* The membership: an active one is a conflict (409).
ReadMember(r) ==
  LET q == oreq[r]
  IN  /\ At(r, "readMember")
      /\ oreq' = [oreq EXCEPT ![r] = IF members[q.user][q.org] = "active" THEN Idle
                                     ELSE [q EXCEPT !.pc = "enter", !.member = members[q.user][q.org]]]
      /\ UNCHANGED <<orgs, used, replaced, members>>

\* The commit: an UPDATE of the row that was found, or an INSERT that
\* uq_user_organization refuses when the row exists by now.
Enter(r) ==
  LET q == oreq[r]
      refused == q.member = "none" /\ members[q.user][q.org] # "none"
  IN  /\ At(r, "enter")
      /\ IF refused
         THEN UNCHANGED members /\ oreq' = [oreq EXCEPT ![r] = Idle]
         ELSE members' = [members EXCEPT ![q.user][q.org] = "active"] /\ Done(r, {q.user})
      /\ UNCHANGED <<orgs, used, replaced>>

\* leave_organization.
Leave(r, u, o) ==
  /\ members[u][o] = "active"
  /\ Begin(r, [Idle EXCEPT !.pc = "leave", !.user = u, !.org = o, !.member = "active"])
  /\ UNCHANGED <<orgs, used, replaced, members>>

CommitLeave(r) ==
  LET q == oreq[r]
  IN  /\ At(r, "leave")
      /\ members' = [members EXCEPT ![q.user][q.org] = "inactive"]
      /\ Done(r, {q.user})
      /\ UNCHANGED <<orgs, used, replaced>>

\* get_user_organizations.
GetUserOrganizations(u) == {o \in Orgs : members[u][o] = "active" /\ orgs[o].active}

Next ==
  \/ \E r \in OrgRequests, slug \in Slugs : Create(r, slug)
  \/ \E r \in OrgRequests, o \in Orgs :
       Update(r, o, TRUE) \/ Delete(r, o) \/ Generate(r, o)
  \/ \E r \in OrgRequests, u \in Clients, code \in Invitations : Join(r, u, code)
  \/ \E r \in OrgRequests, u \in Clients, o \in Orgs : Leave(r, u, o)
  \/ \E r \in OrgRequests :
       \/ Insert(r) \/ Draw(r) \/ Patch(r)
       \/ ReadMember(r) \/ Enter(r) \/ CommitLeave(r)
  \/ \E o \in Orgs : Expire(o)

Spec == Init /\ [][Next]_orgVars

-----------------------------------------------------------------------------
(* Properties.                                                             *)

\* join_by_code "Code existant et actif, non expiré, organisation active": a
\* membership becomes active only by a join whose invitation still opens the
\* organisation when it commits, unless a commit has overtaken the join (the
\* organisation deleted, its code replaced or past its date, in between).
InvitationOpensAtCommit ==
  [][\A u \in Clients, o \in Orgs :
       members[u][o] # "active" /\ members'[u][o] = "active" =>
         \E r \in OrgRequests :
           /\ At(r, "enter") /\ oreq[r].user = u /\ oreq[r].org = o
           /\ oreq[r].stale \/ Opens(oreq[r].seen.code, o)]_orgVars

\* generate_invitation_code "l'ancien est invalidé": a code that was replaced
\* never opens an organisation again, also when an update that read the row
\* before the replacement commits after it.
ReplacedCodeStaysDead ==
  \A o \in Orgs, code \in replaced : orgs[o].code # code

=============================================================================
