------------------------------ MODULE Catalogue ------------------------------
(***************************************************************************)
(* What an organisation's administrators set up: its branches, their       *)
(* services and their counters (app/services/branch_service.py,            *)
(* service_service.py, counter_service.py).  A service is told from the    *)
(* others of its branch by ticket_prefix, a counter by name; create checks *)
(* that among the active rows, and no constraint of the tables does.       *)
(***************************************************************************)
EXTENDS Access, FiniteSets

CONSTANTS
  Branches,     \* branches rows that may be inserted
  Slugs,        \* slugs asked for: unique by constraint
  Services, Counters, \* rows that may be inserted
  Labels,       \* prefixes of services, names of counters
  CatRequests,  \* requests that may be in flight together
  NoLabel

\* What the constants must satisfy.
CatalogueConstants ==
  /\ Services \cap Counters = {}
  /\ NoLabel \notin Labels \cup Slugs \cup Branches

VARIABLES
  orgActive, \* is_active of the organisation
  branches,  \* rows of branches
  items,     \* rows of services and of counters
  creq,      \* the requests in flight
  excused    \* history: items an operation that no check orders wrote

catVars == <<orgActive, branches, items, creq, excused>>

-----------------------------------------------------------------------------
Items == Services \cup Counters
OfKind(kind) == IF kind = "service" THEN Services ELSE Counters

Branch == [slug : Slugs, active : BOOLEAN, open : BOOLEAN]
NoBranch == [slug |-> NoLabel, active |-> FALSE, open |-> FALSE]

\* A service has no is_open: its open stays FALSE.
Item == [branch : Branches, label : Labels, active : BOOLEAN, open : BOOLEAN]
NoItem == [branch |-> NoLabel, label |-> NoLabel, active |-> FALSE, open |-> FALSE]

Idle == [pc |-> "idle", op |-> "create", kind |-> "service", row |-> NoLabel, branch |-> NoLabel,
         label |-> NoLabel, active |-> TRUE, seen |-> NoItem, to |-> NoItem, stale |-> FALSE]

Request == [ pc     : {"idle", "checkSlug", "insertBranch", "checkLabel", "insert",
                       "writeBranch", "write"},
             op     : {"create", "update", "delete", "open", "close"},
             kind   : {"service", "counter"},
             row    : Branches \cup Items \cup {NoLabel},
             branch : Branches \cup {NoLabel},
             label  : Labels \cup Slugs \cup {NoLabel},
             active : BOOLEAN,
             seen   : Branch \cup Item \cup {NoItem},
             to     : Branch \cup Item \cup {NoItem},
             stale  : BOOLEAN ]

TypeOK ==
  /\ orgActive \in BOOLEAN
  /\ branches \in [Branches -> Branch \cup {NoBranch}]
  /\ items \in [Items -> Item \cup {NoItem}]
  /\ creq \in [CatRequests -> Request]
  /\ excused \in SUBSET Items

Init ==
  /\ orgActive = TRUE
  /\ branches = [b \in Branches |-> NoBranch]
  /\ items = [i \in Items |-> NoItem]
  /\ creq = [r \in CatRequests |-> Idle]
  /\ excused = {}

-----------------------------------------------------------------------------
At(r, pc) == creq[r].pc = pc

Begin(r, record) == At(r, "idle") /\ creq' = [creq EXCEPT ![r] = record]

Finish(r) == creq' = [creq EXCEPT ![r] = Idle]

\* Commits of r that q has not seen: on the row q read, or, for a row to be
\* inserted, on the items it was checked against.
Overtaken(q, row) ==
  \/ q.pc = "write" /\ q.row = row
  \/ q.pc = "insert" /\ items'[row].branch = q.branch /\ items'[row].label = q.label

CommitOn(r, row) ==
  creq' = [q \in CatRequests |->
             IF q = r THEN Idle
             ELSE IF Overtaken(creq[q], row) THEN [creq[q] EXCEPT !.stale = TRUE] ELSE creq[q]]

-----------------------------------------------------------------------------
(* Branches.                                                               *)

\* create: the organisation is active, the slug is free, then the insert under
\* its unique constraint.
CreateBranch(r, slug) ==
  /\ orgActive
  /\ Begin(r, [Idle EXCEPT !.pc = "checkSlug", !.label = slug])
  /\ UNCHANGED <<orgActive, branches, items, excused>>

CheckSlug(r) ==
  /\ At(r, "checkSlug")
  /\ IF \E b \in Branches : branches[b].slug = creq[r].label
     THEN Finish(r)
     ELSE creq' = [creq EXCEPT ![r].pc = "insertBranch"]
  /\ UNCHANGED <<orgActive, branches, items, excused>>

InsertBranch(r) ==
  /\ At(r, "insertBranch")
  /\ \/ /\ \E b \in Branches : branches[b].slug = creq[r].label
        /\ UNCHANGED branches
     \/ /\ \A b \in Branches : branches[b].slug # creq[r].label
        /\ \E b \in Branches :
             /\ branches[b] = NoBranch
             /\ branches' = [branches EXCEPT ![b] =
                               [slug |-> creq[r].label, active |-> TRUE, open |-> FALSE]]
  /\ Finish(r)
  /\ UNCHANGED <<orgActive, items, excused>>

\* update, delete (is_active to FALSE) and update_config (which writes neither).
UpdateBranch(r, b, active, open) ==
  /\ branches[b] # NoBranch
  /\ Begin(r, [Idle EXCEPT !.pc = "writeBranch", !.row = b, !.seen = branches[b],
                           !.to = [branches[b] EXCEPT !.active = active, !.open = open]])
  /\ UNCHANGED <<orgActive, branches, items, excused>>

WriteBranch(r) ==
  LET q == creq[r]
  IN  /\ At(r, "writeBranch")
      /\ branches' = [branches EXCEPT ![q.row] = Flush(@, q.seen, q.to)]
      /\ Finish(r)
      /\ UNCHANGED <<orgActive, items, excused>>

\* OrganizationService.delete: the branches keep their own is_active.
DeactivateOrg ==
  /\ orgActive /\ orgActive' = FALSE
  /\ UNCHANGED <<branches, items, creq, excused>>

-----------------------------------------------------------------------------
(* Services and counters.                                                  *)

\* The look-up of create: an active item of the kind has the label.
Taken(kind, b, label) ==
  \E i \in OfKind(kind) : items[i].branch = b /\ items[i].label = label /\ items[i].active

\* create, in an active branch.  The body of a service may say is_active.
CreateItem(r, kind, b, label, active) ==
  /\ branches[b].active
  /\ kind = "counter" => active
  /\ Begin(r, [Idle EXCEPT !.pc = "checkLabel", !.kind = kind, !.branch = b,
                           !.label = label, !.active = active])
  /\ UNCHANGED <<orgActive, branches, items, excused>>

\* Mutant: the look-up is dropped.
CheckNothing(r) ==
  /\ At(r, "checkLabel")
  /\ creq' = [creq EXCEPT ![r].pc = "insert"]
  /\ UNCHANGED <<orgActive, branches, items, excused>>

CheckLabel(r) ==
  LET q == creq[r]
  IN  /\ At(r, "checkLabel")
      /\ IF Taken(q.kind, q.branch, q.label)
         THEN Finish(r)
         ELSE creq' = [creq EXCEPT ![r].pc = "insert"]
      /\ UNCHANGED <<orgActive, branches, items, excused>>

Insert(r) ==
  LET q == creq[r]
  IN  /\ At(r, "insert")
      /\ \E i \in OfKind(q.kind) :
           /\ items[i] = NoItem
           /\ items' = [items EXCEPT ![i] = [branch |-> q.branch, label |-> q.label,
                                             active |-> q.active, open |-> FALSE]]
           /\ excused' = IF q.stale THEN excused \cup {i} ELSE excused
           /\ CommitOn(r, i)
      /\ UNCHANGED <<orgActive, branches>>

\* The rows an operation reads, and what it will write.
BeginWrite(r, i, op, to) ==
  /\ items[i] # NoItem
  /\ Begin(r, [Idle EXCEPT !.pc = "write", !.op = op, !.row = i, !.seen = items[i], !.to = to])
  /\ UNCHANGED <<orgActive, branches, items, excused>>

\* update: a service's prefix is not one of its allowed_fields.
Update(r, i, active, label) ==
  /\ i \in Services => label = items[i].label
  /\ BeginWrite(r, i, "update", [items[i] EXCEPT !.active = active, !.label = label])

\* Mutant: deleting a counter leaves it open.
DeleteOpen(r, i) == BeginWrite(r, i, "delete", [items[i] EXCEPT !.active = FALSE])

\* delete: a counter is closed with it.
Delete(r, i) == BeginWrite(r, i, "delete", [items[i] EXCEPT !.active = FALSE, !.open = FALSE])

\* open, of an active counter that is closed; close, of one that is open.
Open(r, c) ==
  /\ items[c].active /\ ~items[c].open
  /\ BeginWrite(r, c, "open", [items[c] EXCEPT !.open = TRUE])
Close(r, c) ==
  /\ items[c].open
  /\ BeginWrite(r, c, "close", [items[c] EXCEPT !.open = FALSE])

\* History: a commit over another's, a row made active again or renamed with no
\* look-up, an open counter made inactive by PATCH, which does not close it.
Excuses(q) ==
  \/ q.stale
  \/ /\ q.op = "update"
     /\ \/ ~q.seen.active /\ q.to.active
        \/ q.seen.label # q.to.label
        \/ q.to.open /\ ~q.to.active

Write(r) ==
  LET q == creq[r]
  IN  /\ At(r, "write")
      /\ items' = [items EXCEPT ![q.row] = Flush(@, q.seen, q.to)]
      /\ excused' = IF Excuses(q) THEN excused \cup {q.row} ELSE excused
      /\ CommitOn(r, q.row)
      /\ UNCHANGED <<orgActive, branches>>

BranchNext ==
  \/ \E r \in CatRequests, slug \in Slugs : CreateBranch(r, slug)
  \/ \E r \in CatRequests, b \in Branches, active, open \in BOOLEAN : UpdateBranch(r, b, active, open)
  \/ \E r \in CatRequests : CheckSlug(r) \/ InsertBranch(r) \/ WriteBranch(r)
  \/ DeactivateOrg

ItemNext(kind) ==
  \/ \E r \in CatRequests, b \in Branches, label \in Labels, active \in BOOLEAN :
       CreateItem(r, kind, b, label, active)
  \/ \E r \in CatRequests, i \in OfKind(kind), active \in BOOLEAN, label \in Labels :
       Update(r, i, active, label)
  \/ \E r \in CatRequests, i \in OfKind(kind) : Delete(r, i)
  \/ \E r \in CatRequests, c \in OfKind(kind) \cap Counters : Open(r, c) \/ Close(r, c)
  \/ \E r \in CatRequests : CheckLabel(r) \/ Insert(r) \/ Write(r)

Next == BranchNext \/ ItemNext("service") \/ ItemNext("counter")

Spec == Init /\ [][Next]_catVars

-----------------------------------------------------------------------------
(* Properties.                                                             *)

\* What the mobile lists: the active services of a branch.
ListServices(b) == {i \in Services : items[i].branch = b /\ items[i].active}
ListCounters(b) == {c \in Counters : items[c].branch = b /\ items[c].active}

\* "Le préfixe est déjà utilisé par un service actif", "Un guichet nommé ...
\* existe déjà": among the active services of a branch no two have a prefix
\* (their tickets would share one sequence), among its counters no two a name,
\* unless creations overlapped or an update revived or renamed one unchecked.
ActiveLabelsDistinct ==
  \A b \in Branches : \A i, j \in ListServices(b) \cup ListCounters(b) :
    items[i].label = items[j].label /\ (i \in Services <=> j \in Services)
    => i = j \/ {i, j} \cap excused # {}

\* A counter that is open is in service: delete closes it.  An open and a
\* delete that overlap leave it open and inactive, whichever commits last,
\* because each UPDATE names only the columns it changed.
OpenCounterIsActive ==
  \A c \in Counters : items[c].open => items[c].active \/ c \in excused

=============================================================================
