--------------------------- MODULE CatalogueProofs ---------------------------
(***************************************************************************)
(* Theorems about Catalogue, for every set of branches, services, counters *)
(* and requests.  The two rules of the tables follow from one fact about   *)
(* requests: whoever has not been overtaken still sees what it decided on  *)
(* (WriteSound, InsertSound).                                              *)
(***************************************************************************)
EXTENDS Catalogue, TLAPS

\* An item is written where it is, as the operation decided.
WriteSound(q) ==
  q.pc = "write" =>
    /\ q.row \in Items /\ items[q.row] \in Item
    /\ q.seen \in Item /\ q.to \in Item
    /\ q.to.branch = q.seen.branch
    /\ ~q.stale => q.seen = items[q.row]
    /\ q.op # "create"
    /\ q.op \in {"delete", "close"} => ~q.to.open /\ (q.to.active => q.seen.active)
    /\ q.op = "open" => q.to.active /\ q.seen.active
    /\ q.op # "update" => q.to.label = q.seen.label

\* A creation that nobody overtook still finds its label free.
InsertSound(q) ==
  /\ q.pc \in {"checkLabel", "insert"} => q.branch \in Branches /\ q.label \in Labels
  /\ q.pc = "insert" /\ ~q.stale => ~Taken(q.kind, q.branch, q.label)

\* A branch is inserted under a slug, and written where it is.
BranchSound(q) ==
  /\ q.pc \in {"checkSlug", "insertBranch"} => q.label \in Slugs
  /\ q.pc = "writeBranch" =>
       q.row \in Branches /\ branches[q.row] \in Branch /\ q.seen \in Branch /\ q.to \in Branch

RequestSound ==
  \A r \in CatRequests : WriteSound(creq[r]) /\ InsertSound(creq[r]) /\ BranchSound(creq[r])

CInv == TypeOK /\ RequestSound /\ OpenCounterIsActive /\ ActiveLabelsDistinct

-----------------------------------------------------------------------------
LEMMA IdleIsRequest == Idle \in Request /\ Idle.pc = "idle" /\ ~Idle.stale
BY DEF Idle, Request

LEMMA IdleIsSound == WriteSound(Idle) /\ InsertSound(Idle) /\ BranchSound(Idle)
BY DEF Idle, WriteSound, InsertSound, BranchSound

LEMMA ItemShape ==
  ASSUME NEW row \in Item
  PROVE  /\ row.branch \in Branches /\ row.label \in Labels
         /\ row.active \in BOOLEAN /\ row.open \in BOOLEAN
BY DEF Item

LEMMA NoItemIsNone ==
  CatalogueConstants => NoItem \notin Item /\ NoBranch \notin Branch
BY DEF CatalogueConstants, Item, NoItem, Branch, NoBranch

\* What Flush makes of a row: whole or column by column, it is a row.
LEMMA FlushItem ==
  ASSUME NEW row \in Item, NEW read \in Item, NEW new \in Item
  PROVE  /\ Flush(row, read, new) \in Item
         /\ row = read => Flush(row, read, new) = new
         /\ read.branch = new.branch => Flush(row, read, new).branch = row.branch
<1>1. DOMAIN row = {"branch", "label", "active", "open"}
  BY DEF Item
<1>2. Flush(row, read, new) =
        [branch |-> IF new.branch # read.branch THEN new.branch ELSE row.branch,
         label |-> IF new.label # read.label THEN new.label ELSE row.label,
         active |-> IF new.active # read.active THEN new.active ELSE row.active,
         open |-> IF new.open # read.open THEN new.open ELSE row.open]
  BY <1>1 DEF Flush
<1>3. Flush(row, read, new) \in Item
  BY <1>2, ItemShape DEF Item
<1>4. ASSUME row = read PROVE Flush(row, read, new) = new
  BY <1>2, <1>4 DEF Item
<1>5. read.branch = new.branch => Flush(row, read, new).branch = row.branch
  BY <1>2
<1> QED
  BY <1>3, <1>4, <1>5

LEMMA FlushBranch ==
  ASSUME NEW row \in Branch, NEW read \in Branch, NEW new \in Branch
  PROVE  Flush(row, read, new) \in Branch
<1>1. DOMAIN row = {"slug", "active", "open"}
  BY DEF Branch
<1>2. Flush(row, read, new) =
        [slug |-> IF new.slug # read.slug THEN new.slug ELSE row.slug,
         active |-> IF new.active # read.active THEN new.active ELSE row.active,
         open |-> IF new.open # read.open THEN new.open ELSE row.open]
  BY <1>1 DEF Flush
<1> QED
  BY <1>2 DEF Branch

LEMMA CatalogueInit == Init => CInv
<1> SUFFICES ASSUME Init PROVE CInv
  OBVIOUS
<1>1. TypeOK
  BY IdleIsRequest DEF Init, TypeOK
<1>2. RequestSound
  BY IdleIsSound DEF Init, RequestSound
<1>3. OpenCounterIsActive /\ ActiveLabelsDistinct
  BY DEF Init, OpenCounterIsActive, ActiveLabelsDistinct, ListServices, ListCounters, NoItem,
         Items
<1> QED
  BY <1>1, <1>2, <1>3 DEF CInv

-----------------------------------------------------------------------------
(* Steps that write no item.                                               *)

\* A request that reads, or ends, writes nothing.
LEMMA ReadStep ==
  ASSUME CInv, NEW r \in CatRequests, NEW record \in Request,
         WriteSound(record), InsertSound(record), BranchSound(record),
         creq' = [creq EXCEPT ![r] = record],
         UNCHANGED <<orgActive, branches, items, excused>>
  PROVE  CInv'
<1>1. TypeOK'
  BY DEF CInv, TypeOK
<1>2. \A q \in Request : /\ WriteSound(q) => WriteSound(q)'
                         /\ InsertSound(q) => InsertSound(q)'
                         /\ BranchSound(q) => BranchSound(q)'
  BY DEF WriteSound, InsertSound, BranchSound, Taken
<1>3. ASSUME NEW q \in CatRequests
      PROVE  creq'[q] \in Request /\ WriteSound(creq'[q]) /\ InsertSound(creq'[q])
             /\ BranchSound(creq'[q])
  BY DEF CInv, TypeOK, RequestSound
<1>4. RequestSound'
  BY <1>2, <1>3 DEF RequestSound, WriteSound, InsertSound, BranchSound, Taken
<1>5. OpenCounterIsActive' /\ ActiveLabelsDistinct'
  BY DEF CInv, OpenCounterIsActive, ActiveLabelsDistinct, ListServices, ListCounters
<1> QED
  BY <1>1, <1>4, <1>5 DEF CInv

LEMMA FinishStep ==
  ASSUME CInv, NEW r \in CatRequests, Finish(r),
         UNCHANGED <<orgActive, branches, items, excused>>
  PROVE  CInv'
BY ReadStep, IdleIsRequest, IdleIsSound DEF Finish

LEMMA CreateBranchStep ==
  ASSUME CInv, NEW r \in CatRequests, NEW slug \in Slugs, CreateBranch(r, slug)
  PROVE  CInv'
<1> DEFINE record == [Idle EXCEPT !.pc = "checkSlug", !.label = slug]
<1>1. record \in Request /\ record.pc = "checkSlug" /\ record.label = slug
  BY DEF Idle, Request
<1>2. creq' = [creq EXCEPT ![r] = record] /\ UNCHANGED <<orgActive, branches, items, excused>>
  BY DEF CreateBranch, Begin
<1> HIDE DEF record
<1>3. WriteSound(record) /\ InsertSound(record) /\ BranchSound(record)
  BY <1>1 DEF WriteSound, InsertSound, BranchSound
<1> QED
  BY <1>1, <1>2, <1>3, ReadStep

LEMMA CheckSlugStep ==
  ASSUME CInv, NEW r \in CatRequests, CheckSlug(r)
  PROVE  CInv'
<1> DEFINE record == [creq[r] EXCEPT !.pc = "insertBranch"]
<1>1. creq[r] \in Request /\ creq[r].pc = "checkSlug" /\ BranchSound(creq[r])
  BY DEF CInv, TypeOK, RequestSound, CheckSlug, At
<1>2. record \in Request /\ record.pc = "insertBranch" /\ record.label = creq[r].label
  BY <1>1 DEF Request
<1>3. /\ Finish(r) \/ creq' = [creq EXCEPT ![r] = record]
      /\ UNCHANGED <<orgActive, branches, items, excused>>
  BY DEF CheckSlug
<1> HIDE DEF record
<1>4. WriteSound(record) /\ InsertSound(record) /\ BranchSound(record)
  BY <1>1, <1>2 DEF WriteSound, InsertSound, BranchSound
<1> QED
  BY <1>2, <1>3, <1>4, ReadStep, FinishStep

LEMMA UpdateBranchStep ==
  ASSUME CatalogueConstants, CInv, NEW r \in CatRequests, NEW b \in Branches,
         NEW active \in BOOLEAN, NEW open \in BOOLEAN, UpdateBranch(r, b, active, open)
  PROVE  CInv'
<1> DEFINE to == [branches[b] EXCEPT !.active = active, !.open = open]
           record == [Idle EXCEPT !.pc = "writeBranch", !.row = b, !.seen = branches[b],
                                  !.to = to]
<1>1. branches[b] \in Branch
  BY DEF CInv, TypeOK, UpdateBranch
<1>2. to \in Branch
  BY <1>1 DEF Branch
<1> HIDE DEF to
<1>3. /\ record \in Request /\ record.pc = "writeBranch" /\ record.row = b
      /\ record.seen = branches[b] /\ record.to = to
  BY <1>1, <1>2 DEF Idle, Request
<1>4. creq' = [creq EXCEPT ![r] = record] /\ UNCHANGED <<orgActive, branches, items, excused>>
  BY DEF UpdateBranch, Begin, to
<1> HIDE DEF record
<1>5. WriteSound(record) /\ InsertSound(record) /\ BranchSound(record)
  BY <1>1, <1>2, <1>3 DEF WriteSound, InsertSound, BranchSound
<1> QED
  BY <1>3, <1>4, <1>5, ReadStep

LEMMA CreateItemStep ==
  ASSUME CInv, NEW r \in CatRequests, NEW kind \in {"service", "counter"}, NEW b \in Branches,
         NEW label \in Labels, NEW active \in BOOLEAN, CreateItem(r, kind, b, label, active)
  PROVE  CInv'
<1> DEFINE record == [Idle EXCEPT !.pc = "checkLabel", !.kind = kind, !.branch = b,
                                  !.label = label, !.active = active]
<1>1. /\ record \in Request /\ record.pc = "checkLabel" /\ record.branch = b
      /\ record.label = label
  BY DEF Idle, Request
<1>2. creq' = [creq EXCEPT ![r] = record] /\ UNCHANGED <<orgActive, branches, items, excused>>
  BY DEF CreateItem, Begin
<1> HIDE DEF record
<1>3. WriteSound(record) /\ InsertSound(record) /\ BranchSound(record)
  BY <1>1 DEF WriteSound, InsertSound, BranchSound
<1> QED
  BY <1>1, <1>2, <1>3, ReadStep

LEMMA CheckLabelStep ==
  ASSUME CInv, NEW r \in CatRequests, CheckLabel(r)
  PROVE  CInv'
<1> DEFINE q == creq[r]
           record == [q EXCEPT !.pc = "insert"]
<1>1. q \in Request /\ q.pc = "checkLabel" /\ InsertSound(q)
  BY DEF CInv, TypeOK, RequestSound, CheckLabel, At
<1> HIDE DEF q
<1>2. /\ record \in Request /\ record.pc = "insert" /\ record.branch = q.branch
      /\ record.label = q.label /\ record.kind = q.kind
  BY <1>1 DEF Request
<1>3. /\ Finish(r) \/ (~Taken(q.kind, q.branch, q.label) /\ creq' = [creq EXCEPT ![r] = record])
      /\ UNCHANGED <<orgActive, branches, items, excused>>
  BY DEF CheckLabel, q
<1> HIDE DEF record
<1>4. CASE ~Taken(q.kind, q.branch, q.label) /\ creq' = [creq EXCEPT ![r] = record]
  <2>1. WriteSound(record) /\ InsertSound(record) /\ BranchSound(record)
    BY <1>1, <1>2, <1>4 DEF WriteSound, InsertSound, BranchSound
  <2> QED
    BY <1>2, <1>3, <1>4, <2>1, ReadStep
<1> QED
  BY <1>3, <1>4, FinishStep

LEMMA BeginWriteStep ==
  ASSUME CInv, NEW r \in CatRequests, NEW i \in Items,
         NEW op \in {"update", "delete", "open", "close"},
         NEW to \in Item, BeginWrite(r, i, op, to), to.branch = items[i].branch,
         op \in {"delete", "close"} => ~to.open /\ (to.active => items[i].active),
         op = "open" => to.active /\ items[i].active,
         op # "update" => to.label = items[i].label
  PROVE  CInv'
<1> DEFINE record == [Idle EXCEPT !.pc = "write", !.op = op, !.row = i, !.seen = items[i],
                                  !.to = to]
<1>1. items[i] \in Item
  BY DEF CInv, TypeOK, BeginWrite
<1>2. /\ record \in Request /\ record.pc = "write" /\ record.op = op /\ record.row = i
      /\ record.seen = items[i] /\ record.to = to
  BY <1>1 DEF Idle, Request
<1>3. creq' = [creq EXCEPT ![r] = record] /\ UNCHANGED <<orgActive, branches, items, excused>>
  BY DEF BeginWrite, Begin
<1> HIDE DEF record
<1>4. WriteSound(record) /\ InsertSound(record) /\ BranchSound(record)
  BY <1>1, <1>2 DEF WriteSound, InsertSound, BranchSound
<1> QED
  BY <1>2, <1>3, <1>4, ReadStep

LEMMA UpdateStep ==
  ASSUME CInv, NEW r \in CatRequests, NEW i \in Items, NEW active \in BOOLEAN,
         NEW label \in Labels, Update(r, i, active, label)
  PROVE  CInv'
<1> DEFINE to == [items[i] EXCEPT !.active = active, !.label = label]
<1>1. items[i] \in Item /\ BeginWrite(r, i, "update", to)
  BY DEF CInv, TypeOK, Update, BeginWrite
<1>2. to \in Item /\ to.branch = items[i].branch
  BY <1>1 DEF Item
<1> HIDE DEF to
<1> QED
  BY <1>1, <1>2, BeginWriteStep

LEMMA DeleteStep ==
  ASSUME CInv, NEW r \in CatRequests, NEW i \in Items, Delete(r, i)
  PROVE  CInv'
<1> DEFINE to == [items[i] EXCEPT !.active = FALSE, !.open = FALSE]
<1>1. items[i] \in Item /\ BeginWrite(r, i, "delete", to)
  BY DEF CInv, TypeOK, Delete, BeginWrite
<1>2. /\ to \in Item /\ to.branch = items[i].branch /\ to.label = items[i].label
      /\ ~to.open /\ ~to.active
  BY <1>1 DEF Item
<1> HIDE DEF to
<1> QED
  BY <1>1, <1>2, BeginWriteStep

LEMMA OpenCloseStep ==
  ASSUME CInv, NEW r \in CatRequests, NEW c \in Items, Open(r, c) \/ Close(r, c)
  PROVE  CInv'
<1> DEFINE opened == [items[c] EXCEPT !.open = TRUE]
           closed == [items[c] EXCEPT !.open = FALSE]
<1>1. items[c] \in Item
  BY DEF CInv, TypeOK, Open, Close, BeginWrite
<1>2. \/ items[c].active /\ BeginWrite(r, c, "open", opened)
      \/ BeginWrite(r, c, "close", closed)
  BY DEF Open, Close
<1>3. /\ opened \in Item /\ opened.branch = items[c].branch /\ opened.label = items[c].label
      /\ opened.active = items[c].active
  BY <1>1 DEF Item
<1>4. /\ closed \in Item /\ closed.branch = items[c].branch /\ closed.label = items[c].label
      /\ closed.active = items[c].active /\ ~closed.open
  BY <1>1 DEF Item
<1> HIDE DEF opened, closed
<1> QED
  BY <1>2, <1>3, <1>4, BeginWriteStep

-----------------------------------------------------------------------------
(* Steps that write.                                                       *)

LEMMA DeactivateStep ==
  ASSUME CInv, DeactivateOrg
  PROVE  CInv'
<1>1. orgActive' = FALSE /\ UNCHANGED <<branches, items, creq, excused>>
  BY DEF DeactivateOrg
<1>2. TypeOK'
  BY <1>1 DEF CInv, TypeOK
<1>3. RequestSound'
  BY <1>1 DEF CInv, RequestSound, WriteSound, InsertSound, BranchSound, Taken
<1>4. OpenCounterIsActive' /\ ActiveLabelsDistinct'
  BY <1>1 DEF CInv, OpenCounterIsActive, ActiveLabelsDistinct, ListServices, ListCounters
<1> QED
  BY <1>2, <1>3, <1>4 DEF CInv

\* A branch is written, and no item.
LEMMA BranchWritten ==
  ASSUME CInv, NEW r \in CatRequests, NEW b \in Branches, NEW row \in Branch,
         branches' = [branches EXCEPT ![b] = row], Finish(r),
         UNCHANGED <<orgActive, items, excused>>
  PROVE  CInv'
<1>1. branches' \in [Branches -> Branch \cup {NoBranch}] /\ creq' \in [CatRequests -> Request]
  BY IdleIsRequest DEF CInv, TypeOK, Finish
<1>2. \A x \in Branches : branches[x] \in Branch => branches'[x] \in Branch
  BY DEF CInv, TypeOK
<1>3. ASSUME NEW q \in CatRequests
      PROVE  WriteSound(creq'[q]) /\ InsertSound(creq'[q]) /\ BranchSound(creq'[q])
  BY IdleIsSound DEF CInv, TypeOK, RequestSound, Finish
<1>4. RequestSound'
  BY <1>2, <1>3 DEF RequestSound, WriteSound, InsertSound, BranchSound, Taken
<1>5. OpenCounterIsActive' /\ ActiveLabelsDistinct'
  BY DEF CInv, OpenCounterIsActive, ActiveLabelsDistinct, ListServices, ListCounters
<1> QED
  BY <1>1, <1>4, <1>5 DEF CInv, TypeOK

LEMMA InsertBranchStep ==
  ASSUME CInv, NEW r \in CatRequests, InsertBranch(r)
  PROVE  CInv'
<1>1. creq[r].label \in Slugs
  BY DEF CInv, RequestSound, BranchSound, InsertBranch, At
<1>2. [slug |-> creq[r].label, active |-> TRUE, open |-> FALSE] \in Branch
  BY <1>1 DEF Branch
<1> QED
  BY <1>2, BranchWritten, FinishStep DEF InsertBranch

LEMMA WriteBranchStep ==
  ASSUME CInv, NEW r \in CatRequests, WriteBranch(r)
  PROVE  CInv'
<1> DEFINE q == creq[r]
           row == Flush(branches[q.row], q.seen, q.to)
<1>1. /\ q.row \in Branches /\ branches[q.row] \in Branch
      /\ q.seen \in Branch /\ q.to \in Branch
  BY DEF CInv, RequestSound, BranchSound, WriteBranch, At
<1>2. row \in Branch
  BY <1>1, FlushBranch
<1>3. /\ branches' = [branches EXCEPT ![q.row] = row] /\ Finish(r)
      /\ UNCHANGED <<orgActive, items, excused>>
  BY DEF WriteBranch
<1> HIDE DEF row, q
<1> QED
  BY <1>1, <1>2, <1>3, BranchWritten

\* What the commit of one item does to the requests at work on it, or about to
\* insert one like it: they are overtaken.
LEMMA OvertakenStep ==
  ASSUME CInv, NEW r \in CatRequests, NEW i \in Items, NEW row \in Item,
         items' = [items EXCEPT ![i] = row], CommitOn(r, i),
         UNCHANGED <<orgActive, branches>>
  PROVE  creq' \in [CatRequests -> Request] /\ RequestSound'
<1>1. /\ creq \in [CatRequests -> Request] /\ items \in [Items -> Item \cup {NoItem}]
      /\ \A q \in CatRequests : /\ WriteSound(creq[q]) /\ InsertSound(creq[q])
                                /\ BranchSound(creq[q])
  BY DEF CInv, TypeOK, RequestSound
<1>2. items'[i] = row /\ \A j \in Items \ {i} : items'[j] = items[j]
  BY <1>1
<1>3. ASSUME NEW q \in CatRequests
      PROVE  /\ creq'[q] \in Request
             /\ WriteSound(creq[q])' /\ InsertSound(creq[q])' /\ BranchSound(creq[q])'
  <2> DEFINE s == creq[q]
             s2 == [s EXCEPT !.stale = TRUE]
  <2>1. s \in Request /\ WriteSound(s) /\ InsertSound(s) /\ BranchSound(s)
    BY <1>1
  <2>2. CASE q = r
    <3>1. creq'[q] = Idle
      BY <2>2 DEF CommitOn
    <3> QED
      BY <3>1, IdleIsRequest, IdleIsSound DEF WriteSound, InsertSound, BranchSound, Idle
  <2>3. CASE q # r /\ Overtaken(s, i)
    <3>1. creq'[q] = s2
      BY <2>3 DEF CommitOn
    <3>2. /\ s2 \in Request /\ s2.stale
          /\ s2.pc = s.pc /\ s2.op = s.op /\ s2.kind = s.kind /\ s2.row = s.row
          /\ s2.branch = s.branch /\ s2.label = s.label /\ s2.seen = s.seen /\ s2.to = s.to
      BY <2>1 DEF Request
    <3> HIDE DEF s2, s
    <3>3. WriteSound(creq[q])'
      BY <1>2, <2>1, <3>1, <3>2 DEF WriteSound
    <3>4. InsertSound(creq[q])'
      BY <2>1, <3>1, <3>2 DEF InsertSound
    <3>5. BranchSound(creq[q])'
      BY <2>1, <3>1, <3>2 DEF BranchSound
    <3> QED
      BY <3>1, <3>2, <3>3, <3>4, <3>5 DEF WriteSound, InsertSound, BranchSound, Taken
  <2>4. CASE q # r /\ ~Overtaken(s, i)
    <3>1. creq'[q] = s
      BY <2>4 DEF CommitOn
    <3> HIDE DEF s
    <3>2. s.pc = "write" => s.row # i
      BY <2>4 DEF Overtaken
    <3>3. s.pc = "insert" => ~(row.branch = s.branch /\ row.label = s.label)
      BY <1>2, <2>4 DEF Overtaken
    <3>4. WriteSound(creq[q])'
      BY <1>2, <2>1, <3>1, <3>2 DEF WriteSound
    <3>5. InsertSound(creq[q])'
      BY <1>2, <2>1, <3>1, <3>3 DEF InsertSound, Taken, OfKind, Items
    <3>6. BranchSound(creq[q])'
      BY <2>1, <3>1 DEF BranchSound
    <3> QED
      BY <2>1, <3>1, <3>4, <3>5, <3>6
  <2> QED
    BY <2>2, <2>3, <2>4
<1> QED
  BY <1>1, <1>3 DEF RequestSound, CommitOn

LEMMA InsertStep ==
  ASSUME CatalogueConstants, CInv, NEW r \in CatRequests, Insert(r)
  PROVE  CInv'
<1> DEFINE q == creq[r]
           row == [branch |-> q.branch, label |-> q.label, active |-> q.active, open |-> FALSE]
<1>1. q \in Request /\ q.pc = "insert" /\ InsertSound(q)
  BY DEF CInv, TypeOK, RequestSound, Insert, At
<1>2. PICK i \in OfKind(q.kind) :
        /\ items[i] = NoItem
        /\ items' = [items EXCEPT ![i] = row]
        /\ excused' = IF q.stale THEN excused \cup {i} ELSE excused
        /\ CommitOn(r, i)
  BY DEF Insert
<1>3. UNCHANGED <<orgActive, branches>> /\ i \in Items
  BY <1>2 DEF Insert, OfKind, Items
<1>4. row \in Item /\ row.branch = q.branch /\ row.label = q.label /\ ~row.open
  BY <1>1 DEF InsertSound, Request, Item
<1>5. items \in [Items -> Item \cup {NoItem}] /\ excused \in SUBSET Items
  BY DEF CInv, TypeOK
<1> HIDE DEF row, q
<1>6. items'[i] = row /\ \A j \in Items \ {i} : items'[j] = items[j]
  BY <1>2, <1>3, <1>5
<1>7. creq' \in [CatRequests -> Request] /\ RequestSound'
  BY <1>2, <1>3, <1>4, OvertakenStep
<1>8. TypeOK'
  <2>1. items' \in [Items -> Item \cup {NoItem}] /\ excused' \in SUBSET Items
    BY <1>2, <1>3, <1>4, <1>5
  <2> QED
    BY <1>3, <1>7, <2>1 DEF CInv, TypeOK
<1>9. excused \subseteq excused'
  BY <1>2
<1>10. OpenCounterIsActive'
  BY <1>4, <1>6, <1>9 DEF CInv, OpenCounterIsActive, Items
<1>11. ActiveLabelsDistinct'
  <2> SUFFICES ASSUME NEW b \in Branches, NEW x \in Items, NEW y \in Items, x # y,
                      items'[x].branch = b, items'[x].active,
                      items'[y].branch = b, items'[y].active,
                      items'[x].label = items'[y].label,
                      x \in Services <=> y \in Services
               PROVE  {x, y} \cap excused' # {}
    BY DEF ActiveLabelsDistinct, ListServices, ListCounters, Items
  <2>1. CASE x # i /\ y # i
    <3>1. {x, y} \cap excused # {}
      BY <1>6, <2>1
      DEF CInv, ActiveLabelsDistinct, ListServices, ListCounters, Items
    <3> QED
      BY <1>9, <3>1
  \* The other item of the two was active when the new one was looked up.
  <2>2. ASSUME NEW z \in Items, z # i, items'[z].branch = row.branch,
               items'[z].label = row.label, items'[z].active,
               z \in Services <=> i \in Services
        PROVE  i \in excused'
    <3>1. z \in OfKind(q.kind)
      BY <1>2, <2>2 DEF OfKind, Items, CatalogueConstants
    <3>2. Taken(q.kind, q.branch, q.label)
      BY <1>4, <1>6, <2>2, <3>1 DEF Taken
    <3>3. q.stale
      BY <1>1, <3>2 DEF InsertSound
    <3> QED
      BY <1>2, <3>3
  <2> QED
    BY <1>6, <2>1, <2>2
<1> QED
  BY <1>7, <1>8, <1>10, <1>11 DEF CInv

LEMMA WriteStep ==
  ASSUME CInv, NEW r \in CatRequests, Write(r)
  PROVE  CInv'
<1> DEFINE q == creq[r]
           i == q.row
           row == Flush(items[i], q.seen, q.to)
<1>1. /\ q \in Request /\ WriteSound(q) /\ q.pc = "write"
      /\ i \in Items /\ items[i] \in Item /\ q.seen \in Item /\ q.to \in Item
  BY DEF CInv, TypeOK, RequestSound, WriteSound, Write, At
<1>2. row \in Item /\ (~q.stale => q.seen = items[i] /\ row = q.to)
  BY <1>1, FlushItem DEF WriteSound
<1>3. /\ items' = [items EXCEPT ![i] = row]
      /\ excused' = IF Excuses(q) THEN excused \cup {i} ELSE excused
      /\ CommitOn(r, i) /\ UNCHANGED <<orgActive, branches>>
  BY DEF Write
<1>4. items \in [Items -> Item \cup {NoItem}] /\ excused \in SUBSET Items
  BY DEF CInv, TypeOK
<1>5. row.branch = items[i].branch
  BY <1>1, FlushItem DEF WriteSound
<1> HIDE DEF row, q, i
<1>6. items'[i] = row /\ \A j \in Items \ {i} : items'[j] = items[j]
  BY <1>1, <1>3, <1>4
<1>7. creq' \in [CatRequests -> Request] /\ RequestSound'
  BY <1>1, <1>2, <1>3, OvertakenStep
<1>8. TypeOK'
  <2>1. items' \in [Items -> Item \cup {NoItem}] /\ excused' \in SUBSET Items
    BY <1>1, <1>2, <1>3, <1>4
  <2> QED
    BY <1>3, <1>7, <2>1 DEF CInv, TypeOK
<1>9. excused \subseteq excused' /\ (Excuses(q) => i \in excused')
  BY <1>3
\* A write that excuses nothing leaves what was active and open so, or closes it.
<1>10. ~Excuses(q) =>
         /\ row.open => row.active
         /\ row.active => items[i].active
         /\ row.label = items[i].label
  <2>1. q.op \in {"update", "delete", "open", "close"}
    BY <1>1 DEF Request, WriteSound
  <2>2. CASE q.op = "update"
    BY <1>1, <1>2, <2>2, ItemShape DEF Excuses, WriteSound
  <2>3. CASE q.op # "update"
    BY <1>1, <1>2, <2>1, <2>3, ItemShape DEF Excuses, WriteSound
  <2> QED
    BY <2>2, <2>3
<1>11. OpenCounterIsActive'
  <2> SUFFICES ASSUME NEW c \in Counters, items'[c].open, c \notin excused'
               PROVE  items'[c].active
    BY DEF OpenCounterIsActive
  <2>1. CASE c = i
    BY <1>6, <1>9, <1>10, <2>1
  <2>2. CASE c # i
    BY <1>6, <1>9, <2>2 DEF CInv, OpenCounterIsActive, Items
  <2> QED
    BY <2>1, <2>2
<1>12. ActiveLabelsDistinct'
  <2> SUFFICES ASSUME NEW b \in Branches, NEW x \in Items, NEW y \in Items, x # y,
                      items'[x].branch = b, items'[x].active,
                      items'[y].branch = b, items'[y].active,
                      items'[x].label = items'[y].label,
                      x \in Services <=> y \in Services,
                      {x, y} \cap excused' = {}
               PROVE  FALSE
    BY DEF ActiveLabelsDistinct, ListServices, ListCounters, Items
  <2>1. ASSUME NEW z \in {x, y}
        PROVE  /\ items[z].branch = b /\ items[z].active
               /\ items[z].label = items'[z].label
    BY <1>5, <1>6, <1>9, <1>10, <2>1
  <2> QED
    BY <1>9, <2>1 DEF CInv, ActiveLabelsDistinct, ListServices, ListCounters, Items
<1> QED
  BY <1>7, <1>8, <1>11, <1>12 DEF CInv

-----------------------------------------------------------------------------
LEMMA CatalogueNext ==
  ASSUME CatalogueConstants, CInv, [Next]_catVars
  PROVE  CInv'
<1>1. CASE UNCHANGED catVars
  <2>1. UNCHANGED <<orgActive, branches, items, creq, excused>>
    BY <1>1 DEF catVars
  <2>2. TypeOK'
    BY <2>1 DEF CInv, TypeOK
  <2>3. RequestSound'
    BY <2>1 DEF CInv, RequestSound, WriteSound, InsertSound, BranchSound, Taken
  <2>4. OpenCounterIsActive' /\ ActiveLabelsDistinct'
    BY <2>1 DEF CInv, OpenCounterIsActive, ActiveLabelsDistinct, ListServices, ListCounters
  <2> QED
    BY <2>2, <2>3, <2>4 DEF CInv
<1>2. CASE BranchNext
  BY <1>2, CreateBranchStep, CheckSlugStep, InsertBranchStep, UpdateBranchStep,
     WriteBranchStep, DeactivateStep DEF BranchNext
<1>3. ASSUME NEW kind \in {"service", "counter"}, ItemNext(kind)
      PROVE  CInv'
  <2>1. OfKind(kind) \subseteq Items
    BY DEF OfKind, Items
  <2> QED
    BY <1>3, <2>1, CreateItemStep, UpdateStep, DeleteStep, OpenCloseStep, CheckLabelStep,
       InsertStep, WriteStep DEF ItemNext
<1> QED
  BY <1>1, <1>2, <1>3 DEF Next

LEMMA CatalogueInvariant == CatalogueConstants /\ Spec => []CInv
<1> SUFFICES ASSUME CatalogueConstants PROVE Spec => []CInv
  OBVIOUS
<1>1. CInv /\ [Next]_catVars => CInv'
  BY CatalogueNext
<1> QED
  BY <1>1, CatalogueInit, PTL DEF Spec

\* Every row and every request of the catalogue keeps its type.
THEOREM CatalogueTypeCorrect == CatalogueConstants /\ Spec => []TypeOK
BY CatalogueInvariant, PTL DEF CInv

\* However many administrators work at once, no two active services of a branch
\* have a prefix, and no two counters a name, but by an operation that overlapped
\* another or by an update.
THEOREM ActiveLabelsAlwaysDistinct == CatalogueConstants /\ Spec => []ActiveLabelsDistinct
BY CatalogueInvariant, PTL DEF CInv

\* A counter is open and inactive only after an open and a delete that overlapped,
\* or a PATCH of is_active, which closes nothing.
THEOREM OpenCounterAlwaysActive == CatalogueConstants /\ Spec => []OpenCounterIsActive
BY CatalogueInvariant, PTL DEF CInv

=============================================================================
