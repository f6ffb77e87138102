------------------------------ MODULE MCTenancy ------------------------------
(***************************************************************************)
(* TLC's instance of the three administration components: Organisations,   *)
(* which it extends, Staffing and Catalogue.  They share no row that two   *)
(* of them write, so their interleavings add nothing: the desk that is     *)
(* worked at is drawn at the start and the others rest.                    *)
(***************************************************************************)
EXTENDS Organisations, TLC

CONSTANTS
  Users, Hired, Founder, Rows, StaffRoles, StatusesGiven,
  Branches, BranchSlugs, Services, Counters, Labels, NoLabel

VARIABLES
  users, employees, sreq, disturbed,
  orgActive, branches, items, creq, excused,
  desk   \* which component is at work

Staff == INSTANCE Staffing WITH StaffRequests <- OrgRequests
Cat == INSTANCE Catalogue WITH Slugs <- BranchSlugs, CatRequests <- OrgRequests

ASSUME TenancyAssumption ==
  OrganisationsConstants /\ Staff!StaffingConstants /\ Cat!CatalogueConstants

staffVars == <<users, employees, sreq, disturbed>>
catVars == <<orgActive, branches, items, creq, excused>>

MCInit ==
  /\ Init /\ Staff!Init /\ Cat!Init
  /\ desk \in {"staff", "organisations", "service", "counter"}

MCNext ==
  /\ UNCHANGED desk
  /\ \/ desk = "staff" /\ Staff!Next /\ UNCHANGED <<orgVars, catVars>>
     \/ desk = "organisations" /\ Next /\ UNCHANGED <<staffVars, catVars>>
     \/ /\ desk \in {"service", "counter"}
        /\ Cat!BranchNext \/ Cat!ItemNext(desk)
        /\ UNCHANGED <<staffVars, orgVars>>

MCSpec == MCInit /\ [][MCNext]_<<staffVars, orgVars, catVars, desk>>

\* No further step is taken once the properties of Staffing excuse its one
\* user, or are sure to when the requests in flight commit, nor once those of
\* Catalogue excuse an item.
Followed ==
  /\ disturbed = {} /\ \A r \in OrgRequests : ~sreq[r].stale
  /\ excused = {}

Symmetric == Permutations(Rows) \cup Permutations(Orgs) \cup Permutations(OrgRequests)

\* The types of the three components.
TypesOK == TypeOK /\ Staff!TypeOK /\ Cat!TypeOK

\* The properties of Staffing and Catalogue; each is stated in its module.
UserCopiesEmployment == Staff!UserCopiesEmployment
ListedOnce == Staff!ListedOnce
StaffKeepToOwnOrg == Staff!StaffKeepToOwnOrg
ActiveLabelsDistinct == Cat!ActiveLabelsDistinct
OpenCounterIsActive == Cat!OpenCounterIsActive

=============================================================================
