---------------------------- MODULE TenancyProofs ----------------------------
(***************************************************************************)
(* Theorems about Organisations, for every set of clients, organisations,  *)
(* invitations and requests, and about the three administration components *)
(* that MCTenancy puts side by side.  A code is drawn once, so what is     *)
(* drawn and not yet committed is in no row (DrawSound): it is why a       *)
(* replaced code cannot come back.  A join that nobody overtook still      *)
(* finds its invitation open (JoinSound).                                  *)
(***************************************************************************)
EXTENDS MCTenancy, TLAPS

\* The request carries a code that it has drawn.
Draws(q) == q.pc = "patch" /\ q.to.code # q.seen.code

RowsSound(q) ==
  /\ q.pc = "insert" => q.slug \in Slugs
  /\ q.pc \in {"draw", "patch"} =>
       q.org \in Orgs /\ orgs[q.org] \in Organization /\ q.seen \in Organization
  /\ q.pc = "patch" => q.to \in Organization

DrawSound(q) ==
  Draws(q) => q.to.code \in used \ replaced /\ \A o \in Orgs : orgs[o].code # q.to.code

JoinSound(q) ==
  /\ q.pc \in {"readMember", "enter", "leave"} => q.user \in Clients /\ q.org \in Orgs
  /\ q.pc \in {"readMember", "enter"} =>
       orgs[q.org] \in Organization /\ (~q.stale => Opens(q.seen.code, q.org))

RequestSound ==
  \A r \in OrgRequests : RowsSound(oreq[r]) /\ DrawSound(oreq[r]) /\ JoinSound(oreq[r])

DrawsDistinct ==
  \A r1, r2 \in OrgRequests :
    r1 # r2 /\ Draws(oreq[r1]) /\ Draws(oreq[r2]) => oreq[r1].to.code # oreq[r2].to.code

CodesSound ==
  /\ replaced \subseteq used
  /\ \A o \in Orgs : orgs[o].code \in used \cup {NoCode}
  /\ \A o1, o2 \in Orgs :
       o1 # o2 /\ orgs[o1].code # NoCode => orgs[o1].code # orgs[o2].code

OInv ==
  TypeOK /\ RequestSound /\ DrawsDistinct /\ CodesSound /\ ReplacedCodeStaysDead

-----------------------------------------------------------------------------
LEMMA IdleIsRequest == Idle \in Request /\ Idle.pc = "idle" /\ ~Idle.stale
BY DEF Idle, Request

LEMMA IdleIsSound ==
  RowsSound(Idle) /\ DrawSound(Idle) /\ JoinSound(Idle) /\ ~Draws(Idle)
BY DEF Idle, RowsSound, DrawSound, JoinSound, Draws

LEMMA OrganizationShape ==
  ASSUME NEW row \in Organization
  PROVE  /\ row.slug \in Slugs /\ row.active \in BOOLEAN
         /\ row.code \in Invitations \cup {NoCode}
         /\ row.usable \in BOOLEAN /\ row.expired \in BOOLEAN
BY DEF Organization

LEMMA NoOrganizationIsNone ==
  OrganisationsConstants =>
    /\ NoOrganization \notin Organization
    /\ \A row \in Organization \cup {NoOrganization} : row.slug = NoCode <=> row = NoOrganization
<1> SUFFICES ASSUME OrganisationsConstants
             PROVE  /\ NoOrganization \notin Organization
                    /\ \A row \in Organization \cup {NoOrganization} :
                         row.slug = NoCode <=> row = NoOrganization
  OBVIOUS
<1>1. NoOrganization.slug = NoCode /\ NoCode \notin Slugs
  BY DEF NoOrganization, OrganisationsConstants
<1> QED
  BY <1>1, OrganizationShape

\* What the commit of update, delete and generate_invitation_code writes.
LEMMA WrittenRow ==
  ASSUME NEW row \in Organization, NEW q, q.seen \in Organization, q.to \in Organization
  PROVE  /\ Written(row, q) \in Organization
         /\ Written(row, q).code = IF q.to.code # q.seen.code THEN q.to.code ELSE row.code
<1> DEFINE read == q.seen
           new == q.to
           flushed == Flush(row, read, new)
           expired == IF new.code # read.code THEN FALSE ELSE flushed.expired
<1>1. DOMAIN row = {"slug", "active", "code", "usable", "expired"}
  BY DEF Organization
<1>2. flushed =
        [slug |-> IF new.slug # read.slug THEN new.slug ELSE row.slug,
         active |-> IF new.active # read.active THEN new.active ELSE row.active,
         code |-> IF new.code # read.code THEN new.code ELSE row.code,
         usable |-> IF new.usable # read.usable THEN new.usable ELSE row.usable,
         expired |-> IF new.expired # read.expired THEN new.expired ELSE row.expired]
  BY <1>1 DEF Flush
<1>3. flushed \in Organization
  <2> HIDE DEF read, new
  <2>1. read \in Organization /\ new \in Organization
    BY DEF read, new
  <2> QED
    BY <1>2, <2>1, OrganizationShape DEF Organization
<1>4. flushed.code = IF new.code # read.code THEN new.code ELSE row.code
  BY <1>2
<1>5. Written(row, q) = [flushed EXCEPT !.expired = expired]
  BY DEF Written
<1> HIDE DEF flushed
<1>6. ASSUME NEW b \in BOOLEAN
      PROVE  /\ [flushed EXCEPT !.expired = b] \in Organization
             /\ [flushed EXCEPT !.expired = b].code = flushed.code
  BY <1>3 DEF Organization
<1>7. expired \in BOOLEAN
  BY <1>3, OrganizationShape
<1> HIDE DEF expired
<1> QED
  BY <1>4, <1>5, <1>6, <1>7

LEMMA OrganisationsInit == Init => OInv
<1> SUFFICES ASSUME Init PROVE OInv
  OBVIOUS
<1>1. TypeOK
  BY IdleIsRequest DEF Init, TypeOK
<1>2. RequestSound /\ DrawsDistinct
  BY IdleIsSound DEF Init, RequestSound, DrawsDistinct
<1>3. CodesSound /\ ReplacedCodeStaysDead
  BY DEF Init, CodesSound, ReplacedCodeStaysDead, NoOrganization
<1> QED
  BY <1>1, <1>2, <1>3 DEF OInv

-----------------------------------------------------------------------------
(* Steps that leave the rows of organizations alone.                       *)

\* A request that reads, or ends, and carries no code.
LEMMA ReadStep ==
  ASSUME OInv, NEW r \in OrgRequests, NEW record \in Request,
         RowsSound(record), JoinSound(record), ~Draws(record),
         oreq' = [oreq EXCEPT ![r] = record],
         UNCHANGED <<orgs, used, replaced, members>>
  PROVE  OInv'
<1>1. TypeOK'
  BY DEF OInv, TypeOK
<1>2. ASSUME NEW q \in OrgRequests
      PROVE  /\ RowsSound(oreq'[q]) /\ DrawSound(oreq'[q]) /\ JoinSound(oreq'[q])
             /\ q # r => oreq'[q] = oreq[q]
             /\ q = r => ~Draws(oreq'[q])
  BY DEF OInv, TypeOK, RequestSound, DrawSound
<1>3. RequestSound'
  BY <1>2 DEF RequestSound, RowsSound, DrawSound, JoinSound, Opens, Draws
<1>4. DrawsDistinct'
  BY <1>2 DEF OInv, DrawsDistinct, Draws
<1>5. CodesSound' /\ ReplacedCodeStaysDead'
  BY DEF OInv, CodesSound, ReplacedCodeStaysDead
<1> QED
  BY <1>1, <1>3, <1>4, <1>5 DEF OInv

LEMMA EndStep ==
  ASSUME OInv, NEW r \in OrgRequests, oreq' = [oreq EXCEPT ![r] = Idle],
         UNCHANGED <<orgs, used, replaced, members>>
  PROVE  OInv'
BY ReadStep, IdleIsRequest, IdleIsSound

LEMMA CreateStep ==
  ASSUME OInv, NEW r \in OrgRequests, NEW slug \in Slugs, Create(r, slug)
  PROVE  OInv'
<1> DEFINE record == [Idle EXCEPT !.pc = "insert", !.slug = slug]
<1>1. record \in Request /\ record.pc = "insert" /\ record.slug = slug
  BY DEF Idle, Request
<1>2. oreq' = [oreq EXCEPT ![r] = record] /\ UNCHANGED <<orgs, used, replaced, members>>
  BY DEF Create, Begin
<1> HIDE DEF record
<1>3. RowsSound(record) /\ JoinSound(record) /\ ~Draws(record)
  BY <1>1 DEF RowsSound, JoinSound, Draws
<1> QED
  BY <1>1, <1>2, <1>3, ReadStep

LEMMA UpdateStep ==
  ASSUME OrganisationsConstants, OInv, NEW r \in OrgRequests, NEW o \in Orgs,
         NEW active \in BOOLEAN, Update(r, o, active)
  PROVE  OInv'
<1> DEFINE to == [orgs[o] EXCEPT !.active = active]
           record == [Idle EXCEPT !.pc = "patch", !.org = o, !.seen = orgs[o], !.to = to]
<1>1. orgs[o] \in Organization
  BY NoOrganizationIsNone DEF OInv, TypeOK, Update, Exists
<1>2. to \in Organization /\ to.code = orgs[o].code
  BY <1>1 DEF Organization
<1> HIDE DEF to
<1>3. /\ record \in Request /\ record.pc = "patch" /\ record.org = o
      /\ record.seen = orgs[o] /\ record.to = to
  BY <1>1, <1>2 DEF Idle, Request
<1>4. oreq' = [oreq EXCEPT ![r] = record] /\ UNCHANGED <<orgs, used, replaced, members>>
  BY DEF Update, Begin, to
<1> HIDE DEF record
<1>5. RowsSound(record) /\ JoinSound(record) /\ ~Draws(record)
  BY <1>1, <1>2, <1>3 DEF RowsSound, JoinSound, Draws
<1> QED
  BY <1>3, <1>4, <1>5, ReadStep

LEMMA GenerateStep ==
  ASSUME OrganisationsConstants, OInv, NEW r \in OrgRequests, NEW o \in Orgs, Generate(r, o)
  PROVE  OInv'
<1> DEFINE record == [Idle EXCEPT !.pc = "draw", !.org = o, !.seen = orgs[o]]
<1>1. orgs[o] \in Organization
  BY NoOrganizationIsNone DEF OInv, TypeOK, Generate, Exists
<1>2. record \in Request /\ record.pc = "draw" /\ record.org = o /\ record.seen = orgs[o]
  BY <1>1 DEF Idle, Request
<1>3. oreq' = [oreq EXCEPT ![r] = record] /\ UNCHANGED <<orgs, used, replaced, members>>
  BY DEF Generate, Begin
<1> HIDE DEF record
<1>4. RowsSound(record) /\ JoinSound(record) /\ ~Draws(record)
  BY <1>1, <1>2 DEF RowsSound, JoinSound, Draws
<1> QED
  BY <1>2, <1>3, <1>4, ReadStep

LEMMA JoinStep ==
  ASSUME OrganisationsConstants, OInv, NEW r \in OrgRequests, NEW u \in Clients,
         NEW code \in Invitations, Join(r, u, code)
  PROVE  OInv'
<1>1. PICK o \in Orgs :
        /\ Opens(code, o)
        /\ Begin(r, [Idle EXCEPT !.pc = "readMember", !.user = u, !.org = o, !.seen = orgs[o]])
        /\ UNCHANGED <<orgs, used, replaced, members>>
  BY DEF Join
<1> DEFINE record == [Idle EXCEPT !.pc = "readMember", !.user = u, !.org = o, !.seen = orgs[o]]
<1>2. orgs[o] \in Organization /\ orgs[o].code = code
  <2>1. NoOrganization.active = FALSE
    BY DEF NoOrganization
  <2> QED
    BY <1>1, <2>1 DEF OInv, TypeOK, Opens
<1>3. /\ record \in Request /\ record.pc = "readMember" /\ record.user = u /\ record.org = o
      /\ record.seen = orgs[o]
  BY <1>2 DEF Idle, Request
<1>4. oreq' = [oreq EXCEPT ![r] = record]
  BY <1>1 DEF Begin
<1> HIDE DEF record
<1>5. RowsSound(record) /\ JoinSound(record) /\ ~Draws(record)
  BY <1>1, <1>2, <1>3 DEF RowsSound, JoinSound, Draws
<1> QED
  BY <1>1, <1>3, <1>4, <1>5, ReadStep

LEMMA ReadMemberStep ==
  ASSUME OInv, NEW r \in OrgRequests, ReadMember(r)
  PROVE  OInv'
<1> DEFINE q == oreq[r]
           m == members[q.user][q.org]
           record == [q EXCEPT !.pc = "enter", !.member = m]
<1>1. q \in Request /\ q.pc = "readMember" /\ JoinSound(q)
  BY DEF OInv, TypeOK, RequestSound, ReadMember, At
<1>2. m \in {"none", "active", "inactive"}
  BY <1>1 DEF OInv, TypeOK, JoinSound
<1>3. /\ oreq' = [oreq EXCEPT ![r] = Idle] \/ oreq' = [oreq EXCEPT ![r] = record]
      /\ UNCHANGED <<orgs, used, replaced, members>>
  BY DEF ReadMember
<1> HIDE DEF m, q
<1>4. /\ record \in Request /\ record.pc = "enter" /\ record.user = q.user
      /\ record.org = q.org /\ record.seen = q.seen /\ record.stale = q.stale
  BY <1>1, <1>2 DEF Request
<1> HIDE DEF record
<1>5. RowsSound(record) /\ JoinSound(record) /\ ~Draws(record)
  BY <1>1, <1>4 DEF RowsSound, JoinSound, Draws
<1> QED
  BY <1>3, <1>4, <1>5, ReadStep, EndStep

LEMMA LeaveStep ==
  ASSUME OInv, NEW r \in OrgRequests, NEW u \in Clients, NEW o \in Orgs, Leave(r, u, o)
  PROVE  OInv'
<1> DEFINE record == [Idle EXCEPT !.pc = "leave", !.user = u, !.org = o, !.member = "active"]
<1>1. record \in Request /\ record.pc = "leave" /\ record.user = u /\ record.org = o
  BY DEF Idle, Request
<1>2. oreq' = [oreq EXCEPT ![r] = record] /\ UNCHANGED <<orgs, used, replaced, members>>
  BY DEF Leave, Begin
<1> HIDE DEF record
<1>3. RowsSound(record) /\ JoinSound(record) /\ ~Draws(record)
  BY <1>1 DEF RowsSound, JoinSound, Draws
<1> QED
  BY <1>1, <1>2, <1>3, ReadStep

\* A code is drawn: no row, no other request and no history has it.
LEMMA DrawStep ==
  ASSUME OrganisationsConstants, OInv, NEW r \in OrgRequests, Draw(r)
  PROVE  OInv'
<1> DEFINE q == oreq[r]
<1>1. PICK code \in Invitations \ used :
        /\ used' = used \cup {code}
        /\ oreq' = [oreq EXCEPT ![r].pc = "patch",
                      ![r].to = [oreq[r].seen EXCEPT !.code = code, !.usable = TRUE,
                                                     !.expired = FALSE]]
        /\ UNCHANGED <<orgs, replaced, members>>
  BY DEF Draw
<1> DEFINE to == [q.seen EXCEPT !.code = code, !.usable = TRUE, !.expired = FALSE]
           record == [q EXCEPT !.pc = "patch", !.to = to]
<1>2. q \in Request /\ q.pc = "draw" /\ RowsSound(q) /\ oreq \in [OrgRequests -> Request]
  BY DEF OInv, TypeOK, RequestSound, Draw, At
<1>3. oreq' = [oreq EXCEPT ![r] = record]
  BY <1>1, <1>2 DEF Request
<1> HIDE DEF q
<1>4. to \in Organization /\ to.code = code
  BY <1>2 DEF RowsSound, Organization
<1> HIDE DEF to
<1>5. /\ record \in Request /\ record.pc = "patch" /\ record.org = q.org
      /\ record.seen = q.seen /\ record.to = to
  BY <1>2, <1>4 DEF Request
<1> HIDE DEF record
<1>6. code # NoCode /\ code \notin replaced /\ \A o \in Orgs : orgs[o].code # code
  BY DEF OInv, CodesSound, OrganisationsConstants
<1>7. TypeOK'
  BY <1>1, <1>2, <1>3, <1>5 DEF OInv, TypeOK
<1>8. ASSUME NEW p \in OrgRequests
      PROVE  /\ p = r => oreq'[p] = record
             /\ p # r => oreq'[p] = oreq[p]
             /\ RowsSound(oreq[p]) /\ DrawSound(oreq[p]) /\ JoinSound(oreq[p])
  BY <1>2, <1>3 DEF OInv, RequestSound
<1>9. ASSUME NEW p \in OrgRequests
      PROVE  RowsSound(oreq[p])' /\ DrawSound(oreq[p])' /\ JoinSound(oreq[p])'
  <2>1. CASE p = r
    <3>1. RowsSound(oreq[p])' /\ JoinSound(oreq[p])'
      BY <1>1, <1>2, <1>4, <1>5, <1>8, <2>1 DEF RowsSound, JoinSound
    <3>2. /\ oreq'[p].to.code = code /\ code \in used' \ replaced'
          /\ \A o \in Orgs : orgs'[o].code # code
      BY <1>1, <1>4, <1>5, <1>6, <1>8, <2>1
    <3>3. DrawSound(oreq[p])'
      BY <3>2 DEF DrawSound
    <3> QED
      BY <3>1, <3>3
  <2>2. CASE p # r
    <3>1. oreq'[p] = oreq[p] /\ orgs' = orgs /\ used \subseteq used' /\ replaced' = replaced
      BY <1>1, <1>8, <2>2
    <3>2. RowsSound(oreq[p])' /\ JoinSound(oreq[p])'
      BY <1>8, <3>1 DEF RowsSound, JoinSound, Opens
    <3>3. DrawSound(oreq[p])'
      BY <1>8, <3>1 DEF DrawSound, Draws
    <3> QED
      BY <3>2, <3>3
  <2> QED
    BY <2>1, <2>2
<1>10. DrawsDistinct'
  <2>1. ASSUME NEW p \in OrgRequests, p # r, Draws(oreq'[p])
        PROVE  oreq'[p].to.code \in used
    BY <1>8, <2>1 DEF DrawSound
  <2> QED
    BY <1>4, <1>5, <1>8, <2>1 DEF OInv, DrawsDistinct, Draws
<1>11. CodesSound' /\ ReplacedCodeStaysDead'
  BY <1>1 DEF OInv, CodesSound, ReplacedCodeStaysDead
<1> QED
  BY <1>7, <1>9, <1>10, <1>11 DEF OInv, RequestSound

-----------------------------------------------------------------------------
(* Commits.                                                                *)

\* What a commit does to the requests in flight: r ends, those it overtakes are
\* stale, and nothing else of them changes.
SameButStale(q, s) ==
  /\ s \in Request
  /\ s.pc = q.pc /\ s.user = q.user /\ s.org = q.org /\ s.slug = q.slug
  /\ s.seen = q.seen /\ s.to = q.to /\ s.member = q.member
  /\ q.stale => s.stale

LEMMA StaleRecord ==
  ASSUME NEW q \in Request
  PROVE  SameButStale(q, q) /\ SameButStale(q, [q EXCEPT !.stale = TRUE])
         /\ [q EXCEPT !.stale = TRUE].stale
BY DEF SameButStale, Request

LEMMA DoneEffect ==
  ASSUME OInv, NEW r \in OrgRequests, NEW whose, Done(r, whose)
  PROVE  /\ oreq' \in [OrgRequests -> Request]
         /\ oreq'[r] = Idle
         /\ \A p \in OrgRequests \ {r} :
              /\ SameButStale(oreq[p], oreq'[p])
              /\ Overtakes(r, p, whose) => oreq'[p].stale
<1>1. ASSUME NEW p \in OrgRequests
      PROVE  /\ oreq'[p] \in Request
             /\ p = r => oreq'[p] = Idle
             /\ p # r => /\ SameButStale(oreq[p], oreq'[p])
                         /\ Overtakes(r, p, whose) => oreq'[p].stale
  <2>1. oreq[p] \in Request
    BY DEF OInv, TypeOK
  <2>2. oreq'[p] = IF p = r THEN Idle
                   ELSE IF Overtakes(r, p, whose) THEN [oreq[p] EXCEPT !.stale = TRUE]
                        ELSE oreq[p]
    BY DEF Done
  <2>3. CASE p = r
    BY <2>2, <2>3, IdleIsRequest
  <2>4. CASE p # r /\ Overtakes(r, p, whose)
    BY <2>1, <2>2, <2>4, StaleRecord DEF SameButStale
  <2>5. CASE p # r /\ ~Overtakes(r, p, whose)
    BY <2>1, <2>2, <2>5, StaleRecord DEF SameButStale
  <2> QED
    BY <2>3, <2>4, <2>5
<1>2. DOMAIN oreq' = OrgRequests /\ oreq' = [p \in OrgRequests |-> oreq'[p]]
  BY DEF Done
<1> QED
  BY <1>1, <1>2

\* A commit that writes the memberships of a user.
LEMMA MemberStep ==
  ASSUME OInv, NEW r \in OrgRequests, NEW whose, Done(r, whose),
         members' \in [Clients -> [Orgs -> {"none", "active", "inactive"}]],
         UNCHANGED <<orgs, used, replaced>>
  PROVE  OInv'
<1>1. TypeOK'
  BY DoneEffect DEF OInv, TypeOK
<1>2. ASSUME NEW p \in OrgRequests
      PROVE  RowsSound(oreq[p])' /\ DrawSound(oreq[p])' /\ JoinSound(oreq[p])'
  <2>1. RowsSound(oreq[p]) /\ DrawSound(oreq[p]) /\ JoinSound(oreq[p])
    BY DEF OInv, RequestSound
  <2>2. CASE p = r
    <3>1. oreq'[p] = Idle
      BY <2>2, DoneEffect
    <3> QED
      BY <3>1, IdleIsRequest DEF RowsSound, DrawSound, JoinSound, Draws
  <2>3. CASE p # r
    <3>1. SameButStale(oreq[p], oreq'[p])
      BY <2>3, DoneEffect
    <3> QED
      BY <2>1, <3>1 DEF SameButStale, RowsSound, DrawSound, JoinSound, Draws, Opens
  <2> QED
    BY <2>2, <2>3
<1>3. DrawsDistinct'
  <2>1. \A p \in OrgRequests : Draws(oreq'[p]) =>
          p # r /\ Draws(oreq[p]) /\ oreq'[p].to = oreq[p].to
    BY DoneEffect, IdleIsRequest DEF SameButStale, Draws
  <2> QED
    BY <2>1 DEF OInv, DrawsDistinct, Draws
<1>4. CodesSound' /\ ReplacedCodeStaysDead'
  BY DEF OInv, CodesSound, ReplacedCodeStaysDead
<1> QED
  BY <1>1, <1>2, <1>3, <1>4 DEF OInv, RequestSound

LEMMA EnterStep ==
  ASSUME OInv, NEW r \in OrgRequests, Enter(r) \/ CommitLeave(r)
  PROVE  OInv'
<1> DEFINE u == oreq[r].user
           o == oreq[r].org
<1>1. u \in Clients /\ o \in Orgs
  BY DEF OInv, RequestSound, JoinSound, Enter, CommitLeave, At
<1>2. members \in [Clients -> [Orgs -> {"none", "active", "inactive"}]]
  BY DEF OInv, TypeOK
<1>3. UNCHANGED <<orgs, used, replaced>>
  BY DEF Enter, CommitLeave
<1>4. \/ UNCHANGED members /\ oreq' = [oreq EXCEPT ![r] = Idle]
      \/ members' = [members EXCEPT ![u][o] = "active"] /\ Done(r, {u})
      \/ members' = [members EXCEPT ![u][o] = "inactive"] /\ Done(r, {u})
  BY DEF Enter, CommitLeave
<1> HIDE DEF u, o
<1>5. ASSUME NEW m \in {"active", "inactive"}, members' = [members EXCEPT ![u][o] = m]
      PROVE  members' \in [Clients -> [Orgs -> {"none", "active", "inactive"}]]
  BY <1>1, <1>2, <1>5
<1> QED
  BY <1>3, <1>4, <1>5, MemberStep, EndStep

LEMMA InsertStep ==
  ASSUME OrganisationsConstants, OInv, NEW r \in OrgRequests, Insert(r)
  PROVE  OInv'
<1> DEFINE row == [NoOrganization EXCEPT !.slug = oreq[r].slug, !.active = TRUE]
<1>1. oreq[r].slug \in Slugs
  BY DEF OInv, RequestSound, RowsSound, Insert, At
<1>2. row \in Organization /\ row.code = NoCode
  BY <1>1 DEF NoOrganization, Organization
<1> HIDE DEF row
<1>3. oreq' = [oreq EXCEPT ![r] = Idle] /\ UNCHANGED <<used, replaced, members>>
  BY DEF Insert
<1>4. CASE UNCHANGED orgs
  BY <1>3, <1>4, EndStep
<1>5. ASSUME NEW o \in Orgs, ~Exists(o), orgs' = [orgs EXCEPT ![o] = row]
      PROVE  OInv'
  <2>1. /\ orgs[o] = NoOrganization /\ orgs[o] \notin Organization
        /\ orgs \in [Orgs -> Organization \cup {NoOrganization}]
    BY <1>5, NoOrganizationIsNone DEF OInv, TypeOK, Exists
  <2>2. \A x \in Orgs : orgs'[x].code = orgs[x].code
    BY <1>2, <1>5, <2>1 DEF NoOrganization
  <2>3. \A x \in Orgs : orgs[x] \in Organization => orgs'[x] = orgs[x]
    BY <1>5, <2>1
  <2>4. TypeOK'
    BY <1>2, <1>3, <1>5, <2>1, IdleIsRequest DEF OInv, TypeOK
  <2>5. ASSUME NEW p \in OrgRequests
        PROVE  RowsSound(oreq[p])' /\ DrawSound(oreq[p])' /\ JoinSound(oreq[p])'
    <3>1. RowsSound(oreq[p]) /\ DrawSound(oreq[p]) /\ JoinSound(oreq[p])
      BY DEF OInv, RequestSound
    <3>2. oreq'[p] = oreq[p] \/ oreq'[p] = Idle
      BY <1>3 DEF OInv, TypeOK
    <3>3. CASE oreq'[p] = Idle
      BY <3>3, IdleIsRequest DEF RowsSound, DrawSound, JoinSound, Draws
    <3>4. CASE oreq'[p] = oreq[p]
      <4>1. RowsSound(oreq[p])' /\ JoinSound(oreq[p])'
        BY <2>3, <3>1, <3>4 DEF RowsSound, JoinSound, Opens
      <4>2. DrawSound(oreq[p])'
        BY <1>3, <2>2, <3>1, <3>4 DEF DrawSound, Draws
      <4> QED
        BY <4>1, <4>2
    <3> QED
      BY <3>2, <3>3, <3>4
  <2>6. DrawsDistinct'
    <3>1. \A p \in OrgRequests : Draws(oreq'[p]) => oreq'[p] = oreq[p]
      BY <1>3, IdleIsSound DEF OInv, TypeOK
    <3> QED
      BY <3>1 DEF OInv, DrawsDistinct, Draws
  <2>7. CodesSound' /\ ReplacedCodeStaysDead'
    BY <1>3, <2>2 DEF OInv, CodesSound, ReplacedCodeStaysDead
  <2> QED
    BY <2>4, <2>5, <2>6, <2>7 DEF OInv, RequestSound
<1> QED
  BY <1>4, <1>5 DEF Insert, row

\* The commit of an update, a delete or a generation.
LEMMA PatchStep ==
  ASSUME OrganisationsConstants, OInv, NEW r \in OrgRequests, Patch(r)
  PROVE  OInv'
<1> DEFINE q == oreq[r]
           o == q.org
           drawn == q.to.code # q.seen.code
           row == Written(orgs[o], q)
           old == orgs[o].code
<1>1. /\ q.pc = "patch" /\ o \in Orgs /\ orgs[o] \in Organization
      /\ q.seen \in Organization /\ q.to \in Organization /\ DrawSound(q)
  BY DEF OInv, RequestSound, RowsSound, Patch, At
<1>2. row \in Organization /\ row.code = IF drawn THEN q.to.code ELSE old
  BY <1>1, WrittenRow
<1>3. /\ orgs' = [orgs EXCEPT ![o] = row]
      /\ Retire(o) /\ Done(r, Anyone) /\ UNCHANGED <<used, members>>
  BY DEF Patch
<1>4. drawn => /\ q.to.code \in used \ replaced
               /\ \A x \in Orgs : orgs[x].code # q.to.code
  BY <1>1 DEF DrawSound, Draws
<1>5. \A p \in OrgRequests \ {r} : Draws(oreq[p]) /\ drawn => oreq[p].to.code # q.to.code
  BY <1>1 DEF OInv, DrawsDistinct, Draws
<1>6. /\ orgs \in [Orgs -> Organization \cup {NoOrganization}]
      /\ old \in used \cup {NoCode}
      /\ replaced \subseteq used /\ used \subseteq Invitations
  BY <1>1 DEF OInv, TypeOK, CodesSound
<1> HIDE DEF row, drawn
<1>7. orgs'[o] = row /\ \A x \in Orgs \ {o} : orgs'[x] = orgs[x]
  BY <1>1, <1>3, <1>6
\* What the commit does to the history: only a code that a new one replaces.
<1>8. /\ replaced' = IF row.code # old /\ old # NoCode THEN replaced \cup {old} ELSE replaced
      /\ replaced' \subseteq used
  BY <1>3, <1>6, <1>7 DEF Retire
<1> HIDE DEF q, o, old
<1>9. TypeOK'
  <2>1. orgs' \in [Orgs -> Organization \cup {NoOrganization}]
    BY <1>1, <1>2, <1>3, <1>6
  <2>2. replaced' \in SUBSET Invitations
    BY <1>6, <1>8
  <2> QED
    BY <1>3, <2>1, <2>2, DoneEffect DEF OInv, TypeOK
<1>10. CodesSound' /\ ReplacedCodeStaysDead'
  <2>1. \A x \in Orgs : orgs'[x].code \in used \cup {NoCode}
    BY <1>2, <1>4, <1>6, <1>7 DEF OInv, CodesSound
  <2>2. ASSUME NEW x \in Orgs, x # o, orgs[x].code # NoCode
        PROVE  orgs[x].code # row.code /\ orgs[x].code # old
    BY <1>1, <1>2, <1>4, <2>2 DEF OInv, CodesSound, old
  <2>3. CodesSound'
    BY <1>3, <1>7, <1>8, <2>1, <2>2 DEF OInv, CodesSound
  <2>4. NoCode \notin replaced' /\ row.code \notin replaced'
    <3>1. NoCode \notin Invitations
      BY DEF OrganisationsConstants
    <3>2. row.code \notin replaced
      BY <1>1, <1>2, <1>4 DEF OInv, ReplacedCodeStaysDead, old
    <3> QED
      BY <1>6, <1>8, <3>1, <3>2
  <2>5. \A x \in Orgs \ {o} : orgs[x].code \notin replaced'
    BY <1>8, <2>2, <2>4 DEF OInv, ReplacedCodeStaysDead
  <2> QED
    BY <1>7, <2>3, <2>4, <2>5 DEF ReplacedCodeStaysDead
<1>11. ASSUME NEW p \in OrgRequests
       PROVE  RowsSound(oreq[p])' /\ DrawSound(oreq[p])' /\ JoinSound(oreq[p])'
  <2>1. RowsSound(oreq[p]) /\ DrawSound(oreq[p]) /\ JoinSound(oreq[p]) /\ oreq[p] \in Request
    BY DEF OInv, RequestSound, TypeOK
  <2>2. CASE p = r
    <3>1. oreq'[p] = Idle
      BY <1>3, <2>2, DoneEffect
    <3> QED
      BY <3>1, IdleIsRequest DEF RowsSound, DrawSound, JoinSound, Draws
  <2>3. CASE p # r
    <3>1. SameButStale(oreq[p], oreq'[p])
      BY <1>3, <2>3, DoneEffect
    <3>2. RowsSound(oreq[p])'
      BY <1>2, <1>7, <2>1, <3>1 DEF SameButStale, RowsSound
    <3>3. DrawSound(oreq[p])'
      <4>1. SUFFICES ASSUME Draws(oreq'[p])
                     PROVE  /\ oreq'[p].to.code \in used' \ replaced'
                            /\ \A x \in Orgs : orgs'[x].code # oreq'[p].to.code
        BY DEF DrawSound
      <4>2. /\ Draws(oreq[p]) /\ oreq'[p].to = oreq[p].to
            /\ oreq[p].to.code \in used \ replaced
            /\ \A x \in Orgs : orgs[x].code # oreq[p].to.code
        BY <2>1, <3>1, <4>1 DEF SameButStale, Draws, DrawSound
      <4>3. row.code # oreq[p].to.code /\ old # oreq[p].to.code
        BY <1>1, <1>2, <1>5, <2>3, <4>2 DEF old
      <4> QED
        BY <1>3, <1>7, <1>8, <4>2, <4>3
    <3>4. JoinSound(oreq[p])'
      <4>1. oreq[p].pc \in {"readMember", "enter"} /\ oreq[p].org = o => oreq'[p].stale
        <5>1. oreq[p].user \in Anyone
          BY <2>1 DEF Request, Anyone
        <5>2. oreq[p].pc # "idle" /\ oreq[p].org = o => Overtakes(r, p, Anyone)
          BY <5>1 DEF Overtakes, At, o, q
        <5> QED
          BY <1>3, <2>3, <5>2, DoneEffect
      <4> QED
        BY <1>2, <1>7, <2>1, <3>1, <4>1 DEF SameButStale, JoinSound, Opens
    <3> QED
      BY <3>2, <3>3, <3>4
  <2> QED
    BY <2>2, <2>3
<1>12. DrawsDistinct'
  <2>1. \A p \in OrgRequests : Draws(oreq'[p]) =>
          p # r /\ Draws(oreq[p]) /\ oreq'[p].to = oreq[p].to
    BY <1>3, DoneEffect, IdleIsRequest DEF SameButStale, Draws
  <2> QED
    BY <2>1 DEF OInv, DrawsDistinct, Draws
<1> QED
  BY <1>9, <1>10, <1>11, <1>12 DEF OInv, RequestSound

LEMMA ExpireStep ==
  ASSUME OInv, NEW o \in Orgs, Expire(o)
  PROVE  OInv'
<1> DEFINE row == [orgs[o] EXCEPT !.expired = TRUE]
<1>1. /\ orgs \in [Orgs -> Organization \cup {NoOrganization}]
      /\ oreq \in [OrgRequests -> Request]
  BY DEF OInv, TypeOK
<1>2. orgs[o] \in Organization
  BY <1>1 DEF Expire, NoOrganization
<1>3. row \in Organization /\ row.code = orgs[o].code
  BY <1>2 DEF Organization
<1>4. orgs' = [orgs EXCEPT ![o] = row] /\ UNCHANGED <<used, replaced, members>>
  BY DEF Expire
<1> HIDE DEF row
<1>5. /\ orgs'[o] = row /\ \A x \in Orgs \ {o} : orgs'[x] = orgs[x]
      /\ \A x \in Orgs : orgs'[x].code = orgs[x].code
  BY <1>1, <1>3, <1>4
<1>6. ASSUME NEW p \in OrgRequests
      PROVE  /\ SameButStale(oreq[p], oreq'[p])
             /\ oreq[p].pc # "idle" /\ oreq[p].org = o => oreq'[p].stale
  <2>1. oreq'[p] = IF oreq[p].org = o /\ oreq[p].pc # "idle"
                   THEN [oreq[p] EXCEPT !.stale = TRUE] ELSE oreq[p]
    BY DEF Expire, At
  <2> QED
    BY <1>1, <2>1, StaleRecord
<1>7. TypeOK'
  <2>1. oreq' \in [OrgRequests -> Request]
    BY <1>6 DEF SameButStale, Expire
  <2> QED
    BY <1>1, <1>3, <1>4, <2>1 DEF OInv, TypeOK
<1>8. ASSUME NEW p \in OrgRequests
      PROVE  RowsSound(oreq[p])' /\ DrawSound(oreq[p])' /\ JoinSound(oreq[p])'
  <2>1. RowsSound(oreq[p]) /\ DrawSound(oreq[p]) /\ JoinSound(oreq[p])
    BY DEF OInv, RequestSound
  <2>2. RowsSound(oreq[p])'
    BY <1>3, <1>5, <1>6, <2>1 DEF SameButStale, RowsSound
  <2>3. DrawSound(oreq[p])'
    BY <1>4, <1>5, <1>6, <2>1 DEF SameButStale, DrawSound, Draws
  <2>4. JoinSound(oreq[p])'
    BY <1>3, <1>5, <1>6, <2>1 DEF SameButStale, JoinSound, Opens
  <2> QED
    BY <2>2, <2>3, <2>4
<1>9. DrawsDistinct'
  <2>1. \A p \in OrgRequests : Draws(oreq'[p]) => Draws(oreq[p]) /\ oreq'[p].to = oreq[p].to
    BY <1>6 DEF SameButStale, Draws
  <2> QED
    BY <2>1 DEF OInv, DrawsDistinct, Draws
<1>10. CodesSound' /\ ReplacedCodeStaysDead'
  BY <1>4, <1>5 DEF OInv, CodesSound, ReplacedCodeStaysDead
<1> QED
  BY <1>7, <1>8, <1>9, <1>10 DEF OInv, RequestSound

-----------------------------------------------------------------------------
LEMMA OrganisationsNext ==
  ASSUME OrganisationsConstants, OInv, [Next]_orgVars
  PROVE  OInv'
<1>1. CASE UNCHANGED orgVars
  <2>1. UNCHANGED <<orgs, used, replaced, members, oreq>>
    BY <1>1 DEF orgVars
  <2>2. TypeOK' /\ DrawsDistinct' /\ CodesSound' /\ ReplacedCodeStaysDead'
    BY <2>1 DEF OInv, TypeOK, DrawsDistinct, Draws, CodesSound, ReplacedCodeStaysDead
  <2>3. RequestSound'
    BY <2>1 DEF OInv, RequestSound, RowsSound, DrawSound, JoinSound, Draws, Opens
  <2> QED
    BY <2>2, <2>3 DEF OInv
<1> QED
  BY <1>1, CreateStep, UpdateStep, GenerateStep, JoinStep, LeaveStep, InsertStep, DrawStep,
     PatchStep, ReadMemberStep, EnterStep, ExpireStep DEF Next, Delete

LEMMA OrganisationsInvariant == OrganisationsConstants /\ Spec => []OInv
<1> SUFFICES ASSUME OrganisationsConstants PROVE Spec => []OInv
  OBVIOUS
<1>1. OInv /\ [Next]_orgVars => OInv'
  BY OrganisationsNext
<1> QED
  BY <1>1, OrganisationsInit, PTL DEF Spec

\* Every row and every request keeps its type.
THEOREM OrganisationsTypeCorrect == OrganisationsConstants /\ Spec => []TypeOK
BY OrganisationsInvariant, PTL DEF OInv

\* An invitation code that another has replaced opens no organisation again,
\* however many updates and generations overlap.
THEOREM ReplacedCodeAlwaysDead == OrganisationsConstants /\ Spec => []ReplacedCodeStaysDead
BY OrganisationsInvariant, PTL DEF OInv

-----------------------------------------------------------------------------
(* A membership becomes active.                                            *)

Membership ==
  \A u \in Clients, o \in Orgs :
    members[u][o] # "active" /\ members'[u][o] = "active" =>
      \E r \in OrgRequests :
        /\ At(r, "enter") /\ oreq[r].user = u /\ oreq[r].org = o
        /\ oreq[r].stale \/ Opens(oreq[r].seen.code, o)

LEMMA MembershipStep ==
  ASSUME OInv, [Next]_orgVars
  PROVE  Membership
<1> SUFFICES ASSUME NEW u \in Clients, NEW o \in Orgs,
                    members[u][o] # "active", members'[u][o] = "active"
             PROVE  \E r \in OrgRequests :
                      /\ At(r, "enter") /\ oreq[r].user = u /\ oreq[r].org = o
                      /\ oreq[r].stale \/ Opens(oreq[r].seen.code, o)
  BY DEF Membership
<1>1. members \in [Clients -> [Orgs -> {"none", "active", "inactive"}]]
  BY DEF OInv, TypeOK
<1>2. PICK r \in OrgRequests : Enter(r) \/ CommitLeave(r)
  BY DEF orgVars, Next, Create, Update, Delete, Generate, Join, Leave, Insert, Draw, Patch,
         ReadMember, Expire
<1>3. ~CommitLeave(r)
  BY <1>1 DEF CommitLeave
<1>4. At(r, "enter") /\ members' = [members EXCEPT ![oreq[r].user][oreq[r].org] = "active"]
  BY <1>2, <1>3 DEF Enter
<1>5. oreq[r].user = u /\ oreq[r].org = o
  BY <1>1, <1>4
<1>6. oreq[r].stale \/ Opens(oreq[r].seen.code, o)
  BY <1>4, <1>5 DEF OInv, RequestSound, JoinSound, At
<1> QED
  BY <1>4, <1>5, <1>6

\* A client enters an organisation by an invitation that still opens it when the
\* join commits, unless a commit overtook the join.
THEOREM InvitationAlwaysOpens == OrganisationsConstants /\ Spec => InvitationOpensAtCommit
<1> SUFFICES ASSUME OrganisationsConstants PROVE Spec => InvitationOpensAtCommit
  OBVIOUS
<1>1. OInv /\ [Next]_orgVars => [Membership]_orgVars
  BY MembershipStep
<1> QED
  BY <1>1, OrganisationsInvariant, PTL DEF Spec, InvitationOpensAtCommit, Membership

-----------------------------------------------------------------------------
(* The three components together.  StaffingProofs and CatalogueProofs are   *)
(* about the same definitions as Staff and Cat, under another name.         *)

StaffP == INSTANCE StaffingProofs WITH StaffRequests <- OrgRequests
CatP == INSTANCE CatalogueProofs WITH Slugs <- BranchSlugs, CatRequests <- OrgRequests

LEMMA SameStaffing ==
  /\ Staff!StaffingConstants => StaffP!StaffingConstants
  /\ Staff!Init => StaffP!Init
  /\ Staff!Next => StaffP!Next
<1> USE DEF Staff!Idle, StaffP!Idle, Staff!NoRow, StaffP!NoRow, Staff!NoChange, StaffP!NoChange,
            Staff!Client, StaffP!Client, Staff!Unset, StaffP!Unset
<1>1. Staff!StaffingConstants => StaffP!StaffingConstants
  BY DEF Staff!StaffingConstants, StaffP!StaffingConstants, Staff!UserRole, StaffP!UserRole,
         Staff!ROLE_HIERARCHY, StaffP!ROLE_HIERARCHY, Staff!EmployeeStatus,
         StaffP!EmployeeStatus
<1>2. Staff!Init => StaffP!Init
  BY DEF Staff!Init, StaffP!Init
<1> USE DEF Staff!At, StaffP!At, Staff!Exists, StaffP!Exists
<1>3. \A o : Staff!MayManage(o) => StaffP!MayManage(o)
  BY DEF Staff!MayManage, StaffP!MayManage, Staff!EmployeesRoute, StaffP!EmployeesRoute,
         Staff!AtLeast, StaffP!AtLeast, Staff!OwnOrg, StaffP!OwnOrg, Staff!ROLE_HIERARCHY,
         StaffP!ROLE_HIERARCHY
<1>4. ASSUME NEW r \in OrgRequests, NEW u \in Hired, NEW o \in Orgs, NEW role \in StaffRoles,
             Staff!Create(r, u, o, role)
      PROVE  StaffP!Create(r, u, o, role)
  BY <1>3, <1>4 DEF Staff!Create, StaffP!Create, Staff!Begin, StaffP!Begin, Staff!Employed,
                    StaffP!Employed
<1>5. ASSUME NEW r \in OrgRequests, NEW e \in Rows, NEW change, Staff!Update(r, e, change)
      PROVE  StaffP!Update(r, e, change)
  BY <1>3, <1>5 DEF Staff!Update, StaffP!Update, Staff!Begin, StaffP!Begin
<1>6. ASSUME NEW r \in OrgRequests, NEW e \in Rows, Staff!Deactivate(r, e)
      PROVE  StaffP!Deactivate(r, e)
  BY <1>3, <1>6 DEF Staff!Deactivate, StaffP!Deactivate, Staff!Begin, StaffP!Begin
<1>7. ASSUME NEW r \in OrgRequests, Staff!ReadUser(r) PROVE StaffP!ReadUser(r)
  BY <1>7 DEF Staff!ReadUser, StaffP!ReadUser
<1>8. ASSUME NEW r \in OrgRequests, Staff!Commit(r) PROVE StaffP!Commit(r)
  BY <1>8 DEF Staff!Commit, StaffP!Commit, Staff!Done, StaffP!Done, Staff!Flush, StaffP!Flush,
              Staff!Apply, StaffP!Apply, Staff!UserAsWritten, StaffP!UserAsWritten,
              Staff!Disturbs, StaffP!Disturbs
<1>9. Staff!Patches = StaffP!Patches
  BY DEF Staff!Patches, StaffP!Patches
<1> QED
  BY <1>1, <1>2, <1>4, <1>5, <1>6, <1>7, <1>8, <1>9 DEF Staff!Next, StaffP!Next

LEMMA SameCatalogue ==
  /\ Cat!CatalogueConstants => CatP!CatalogueConstants
  /\ Cat!Init => CatP!Init
  /\ Cat!Next => CatP!Next
<1> USE DEF Cat!Idle, CatP!Idle, Cat!NoItem, CatP!NoItem, Cat!NoBranch, CatP!NoBranch,
            Cat!Items, CatP!Items
<1>1. Cat!CatalogueConstants => CatP!CatalogueConstants
  BY DEF Cat!CatalogueConstants, CatP!CatalogueConstants
<1>2. Cat!Init => CatP!Init
  BY DEF Cat!Init, CatP!Init
<1> USE DEF Cat!At, CatP!At, Cat!Begin, CatP!Begin, Cat!Finish, CatP!Finish, Cat!OfKind,
            CatP!OfKind, Cat!Flush, CatP!Flush
<1>3. ASSUME NEW r \in OrgRequests, NEW slug, Cat!CreateBranch(r, slug)
      PROVE  CatP!CreateBranch(r, slug)
  BY <1>3 DEF Cat!CreateBranch, CatP!CreateBranch
<1>4. ASSUME NEW r \in OrgRequests, NEW b, NEW active, NEW open,
             Cat!UpdateBranch(r, b, active, open)
      PROVE  CatP!UpdateBranch(r, b, active, open)
  BY <1>4 DEF Cat!UpdateBranch, CatP!UpdateBranch
<1>5. ASSUME NEW r \in OrgRequests, Cat!CheckSlug(r) \/ Cat!InsertBranch(r) \/ Cat!WriteBranch(r)
      PROVE  CatP!CheckSlug(r) \/ CatP!InsertBranch(r) \/ CatP!WriteBranch(r)
  BY <1>5 DEF Cat!CheckSlug, CatP!CheckSlug, Cat!InsertBranch, CatP!InsertBranch,
              Cat!WriteBranch, CatP!WriteBranch
<1>6. Cat!DeactivateOrg => CatP!DeactivateOrg
  BY DEF Cat!DeactivateOrg, CatP!DeactivateOrg
<1>7. ASSUME NEW r \in OrgRequests, NEW kind, NEW b, NEW label, NEW active,
             Cat!CreateItem(r, kind, b, label, active)
      PROVE  CatP!CreateItem(r, kind, b, label, active)
  BY <1>7 DEF Cat!CreateItem, CatP!CreateItem
<1>8. ASSUME NEW r \in OrgRequests, NEW i, NEW op, NEW to, Cat!BeginWrite(r, i, op, to)
      PROVE  CatP!BeginWrite(r, i, op, to)
  BY <1>8 DEF Cat!BeginWrite, CatP!BeginWrite
<1>9. ASSUME NEW r \in OrgRequests, NEW i, NEW active, NEW label, Cat!Update(r, i, active, label)
      PROVE  CatP!Update(r, i, active, label)
  BY <1>8, <1>9 DEF Cat!Update, CatP!Update
<1>10. ASSUME NEW r \in OrgRequests, NEW i, Cat!Delete(r, i) PROVE CatP!Delete(r, i)
  BY <1>8, <1>10 DEF Cat!Delete, CatP!Delete
<1>11. ASSUME NEW r \in OrgRequests, NEW c, Cat!Open(r, c) \/ Cat!Close(r, c)
       PROVE  CatP!Open(r, c) \/ CatP!Close(r, c)
  BY <1>8, <1>11 DEF Cat!Open, CatP!Open, Cat!Close, CatP!Close
<1>12. ASSUME NEW r \in OrgRequests, Cat!CheckLabel(r) PROVE CatP!CheckLabel(r)
  BY <1>12 DEF Cat!CheckLabel, CatP!CheckLabel, Cat!Taken, CatP!Taken
<1> USE DEF Cat!CommitOn, CatP!CommitOn, Cat!Overtaken, CatP!Overtaken
<1>13. ASSUME NEW r \in OrgRequests, Cat!Insert(r) PROVE CatP!Insert(r)
  BY <1>13 DEF Cat!Insert, CatP!Insert
<1>14. ASSUME NEW r \in OrgRequests, Cat!Write(r) PROVE CatP!Write(r)
  BY <1>14 DEF Cat!Write, CatP!Write, Cat!Excuses, CatP!Excuses
<1>15. Cat!BranchNext => CatP!BranchNext
  BY <1>3, <1>4, <1>5, <1>6 DEF Cat!BranchNext, CatP!BranchNext
<1>16. ASSUME NEW kind, Cat!ItemNext(kind) PROVE CatP!ItemNext(kind)
  BY <1>7, <1>9, <1>10, <1>11, <1>12, <1>13, <1>14, <1>16 DEF Cat!ItemNext, CatP!ItemNext
<1> QED
  BY <1>1, <1>2, <1>15, <1>16 DEF Cat!Next, CatP!Next

\* The whole takes steps of each part, or leaves it alone.
LEMMA TenancyParts ==
  MCSpec => Spec /\ StaffP!Spec /\ CatP!Spec
<1>1. MCInit => Init /\ StaffP!Init /\ CatP!Init
  BY SameStaffing, SameCatalogue DEF MCInit
<1> DEFINE tenancyVars == <<staffVars, orgVars, catVars, desk>>
<1>2. [MCNext]_tenancyVars => [Next]_orgVars
  BY DEF MCNext
<1>3. [MCNext]_tenancyVars => [StaffP!Next]_(StaffP!staffVars)
  BY SameStaffing DEF MCNext, staffVars, StaffP!staffVars
<1>4. [MCNext]_tenancyVars => [CatP!Next]_(CatP!catVars)
  <2>1. ASSUME NEW kind \in {"service", "counter"}, Cat!ItemNext(kind) PROVE Cat!Next
    BY <2>1 DEF Cat!Next
  <2>2. Cat!BranchNext => Cat!Next
    BY DEF Cat!Next
  <2> QED
    BY <2>1, <2>2, SameCatalogue DEF MCNext, catVars, CatP!catVars
<1> HIDE DEF tenancyVars
<1>5. MCSpec => MCInit /\ [][MCNext]_tenancyVars
  BY DEF MCSpec, tenancyVars
<1> QED
  BY <1>1, <1>2, <1>3, <1>4, <1>5, PTL DEF Spec, StaffP!Spec, CatP!Spec

LEMMA TenancyConstants ==
  OrganisationsConstants /\ StaffP!StaffingConstants /\ CatP!CatalogueConstants
BY TenancyAssumption, SameStaffing, SameCatalogue

LEMMA SameStaffingRules ==
  /\ StaffP!TypeOK => Staff!TypeOK
  /\ StaffP!UserCopiesEmployment => UserCopiesEmployment
  /\ StaffP!ListedOnce => ListedOnce
  /\ StaffP!StaffKeepToOwnOrg => StaffKeepToOwnOrg
<1> USE DEF Staff!NoRow, StaffP!NoRow, Staff!Client, StaffP!Client, Staff!Unset, StaffP!Unset,
            Staff!Exists, StaffP!Exists, Staff!Employed, StaffP!Employed
<1>1. StaffP!TypeOK => Staff!TypeOK
  BY DEF Staff!TypeOK, StaffP!TypeOK, Staff!User, StaffP!User, Staff!Employee, StaffP!Employee,
         Staff!Request, StaffP!Request, Staff!Change, StaffP!Change, Staff!UserRole,
         StaffP!UserRole, Staff!ROLE_HIERARCHY, StaffP!ROLE_HIERARCHY, Staff!EmployeeStatus,
         StaffP!EmployeeStatus
<1>2. \A u : StaffP!Ordered(u) <=> Staff!Ordered(u)
  BY DEF Staff!Ordered, StaffP!Ordered, Staff!Consultant, StaffP!Consultant
<1>3. StaffP!UserCopiesEmployment => UserCopiesEmployment
  BY <1>2 DEF UserCopiesEmployment, Staff!UserCopiesEmployment, StaffP!UserCopiesEmployment
<1>4. StaffP!ListedOnce => ListedOnce
  BY DEF ListedOnce, Staff!ListedOnce, StaffP!ListedOnce, Staff!ListEmployees,
         StaffP!ListEmployees
<1> USE DEF Staff!OwnOrg, StaffP!OwnOrg, Staff!AtLeast, StaffP!AtLeast, Staff!Admins,
            StaffP!Admins, Staff!ROLE_HIERARCHY, StaffP!ROLE_HIERARCHY
<1>5. \A caller, org : Staff!MayReach(caller, org) => StaffP!MayReach(caller, org)
  BY DEF Staff!MayReach, StaffP!MayReach, Staff!EmployeesRoute, StaffP!EmployeesRoute,
         Staff!CountersRoute, StaffP!CountersRoute, Staff!ServicesRoute, StaffP!ServicesRoute,
         Staff!BranchesRoute, StaffP!BranchesRoute, Staff!OrganizationsRoute,
         StaffP!OrganizationsRoute, Staff!AnalyticsRoute, StaffP!AnalyticsRoute
<1>6. StaffP!StaffKeepToOwnOrg => StaffKeepToOwnOrg
  BY <1>2, <1>5 DEF StaffKeepToOwnOrg, Staff!StaffKeepToOwnOrg, StaffP!StaffKeepToOwnOrg
<1> QED
  BY <1>1, <1>3, <1>4, <1>6

LEMMA SameCatalogueRules ==
  /\ CatP!TypeOK => Cat!TypeOK
  /\ CatP!ActiveLabelsDistinct => ActiveLabelsDistinct
  /\ CatP!OpenCounterIsActive => OpenCounterIsActive
<1>1. CatP!TypeOK => Cat!TypeOK
  BY DEF Cat!TypeOK, CatP!TypeOK, Cat!Branch, CatP!Branch, Cat!NoBranch, CatP!NoBranch,
         Cat!Item, CatP!Item, Cat!NoItem, CatP!NoItem, Cat!Items, CatP!Items, Cat!Request,
         CatP!Request
<1>2. CatP!ActiveLabelsDistinct => ActiveLabelsDistinct
  BY DEF ActiveLabelsDistinct, Cat!ActiveLabelsDistinct, CatP!ActiveLabelsDistinct,
         Cat!ListServices, CatP!ListServices, Cat!ListCounters, CatP!ListCounters
<1>3. CatP!OpenCounterIsActive => OpenCounterIsActive
  BY DEF OpenCounterIsActive, Cat!OpenCounterIsActive, CatP!OpenCounterIsActive
<1> QED
  BY <1>1, <1>2, <1>3

\* The tables and the requests of the three components are well typed.
THEOREM TenancyTypeCorrect == MCSpec => []TypesOK
<1>1. TypeOK /\ StaffP!TypeOK /\ CatP!TypeOK => TypesOK
  BY SameStaffingRules, SameCatalogueRules DEF TypesOK
<1>2. Spec => []TypeOK
  BY TenancyConstants, OrganisationsTypeCorrect
<1>3. StaffP!Spec => []StaffP!TypeOK
  BY TenancyConstants, StaffP!StaffingTypeCorrect
<1>4. CatP!Spec => []CatP!TypeOK
  BY TenancyConstants, CatP!CatalogueTypeCorrect
<1> QED
  BY <1>1, <1>2, <1>3, <1>4, TenancyParts, PTL

\* Where EmployeeService works beside the others, the copy of an employment in users
\* agrees with it (StaffingProofs), unless an unordered operation touched the user.
THEOREM TenancyCopiesEmployment == MCSpec => []UserCopiesEmployment
<1>1. StaffP!Spec => []StaffP!UserCopiesEmployment
  BY TenancyConstants, StaffP!UserAlwaysCopiesEmployment
<1> QED
  BY <1>1, SameStaffingRules, TenancyParts, PTL

\* There an organisation lists a user once.
THEOREM TenancyListsOnce == MCSpec => []ListedOnce
<1>1. StaffP!Spec => []StaffP!ListedOnce
  BY TenancyConstants, StaffP!AlwaysListedOnce
<1> QED
  BY <1>1, SameStaffingRules, TenancyParts, PTL

\* There no guard lets staff into another organisation.
THEOREM TenancyKeepsStaffIn == MCSpec => []StaffKeepToOwnOrg
<1>1. StaffP!Spec => []StaffP!StaffKeepToOwnOrg
  BY TenancyConstants, StaffP!StaffAlwaysKeepToOwnOrg
<1> QED
  BY <1>1, SameStaffingRules, TenancyParts, PTL

\* No two active services of a branch share a prefix, no two active counters a name
\* (CatalogueProofs), unless an unordered or unchecked operation wrote one.
THEOREM TenancyLabelsDistinct == MCSpec => []ActiveLabelsDistinct
<1>1. CatP!Spec => []CatP!ActiveLabelsDistinct
  BY TenancyConstants, CatP!ActiveLabelsAlwaysDistinct
<1> QED
  BY <1>1, SameCatalogueRules, TenancyParts, PTL

\* An open counter is active, unless operations on it overlapped.
THEOREM TenancyOpenCounterIsActive == MCSpec => []OpenCounterIsActive
<1>1. CatP!Spec => []CatP!OpenCounterIsActive
  BY TenancyConstants, CatP!OpenCounterAlwaysActive
<1> QED
  BY <1>1, SameCatalogueRules, TenancyParts, PTL

=============================================================================
