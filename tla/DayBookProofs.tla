---------------------------- MODULE DayBookProofs ----------------------------
(***************************************************************************)
(* What is proved of the day book, for every value of the constants: its   *)
(* types, that a ticket's number is its rank, that its dates are in the    *)
(* order of its life, that a client is told once and truthfully, that the  *)
(* figures computed from the tables (totals, volumes by service and by     *)
(* hour, counters' loads) are those of the tickets, and that a user's      *)
(* history lists each ticket once, the newest first, and skips none while  *)
(* it is read page by page.                                                *)
(***************************************************************************)
EXTENDS DayBook, FiniteSetTheorems, SequenceTheorems, WellFoundedInduction, TLAPS

-----------------------------------------------------------------------------
(* Sequences and counts.                                                   *)

Injective(s) == \A i, j \in DOMAIN s : s[i] = s[j] => i = j

\* What Append does.
LEMMA AppendEffect ==
  ASSUME NEW S, NEW s \in Seq(S), NEW e \in S
  PROVE  /\ Append(s, e) \in Seq(S)
         /\ Len(s) \in Nat /\ Len(Append(s, e)) = Len(s) + 1
         /\ DOMAIN s = 1 .. Len(s) /\ DOMAIN Append(s, e) = 1 .. Len(s) + 1
         /\ \A i \in 1 .. Len(s) : Append(s, e)[i] = s[i]
         /\ Append(s, e)[Len(s) + 1] = e
  OBVIOUS

\* A sequence without repetition has none after an element it lacks is
\* appended.
LEMMA AppendStaysInjective ==
  ASSUME NEW S, NEW s \in Seq(S), NEW e \in S, Injective(s),
         \A i \in DOMAIN s : s[i] # e
  PROVE  Injective(Append(s, e))
<1>1. /\ Len(s) \in Nat
      /\ DOMAIN s = 1 .. Len(s) /\ DOMAIN Append(s, e) = 1 .. Len(s) + 1
      /\ \A i \in 1 .. Len(s) : Append(s, e)[i] = s[i]
      /\ Append(s, e)[Len(s) + 1] = e
  BY AppendEffect
<1> QED
  BY <1>1 DEF Injective

\* What Tail does to a sequence without repetition.
LEMMA TailEffect ==
  ASSUME NEW S, NEW s \in Seq(S), s # <<>>, Injective(s)
  PROVE  /\ Head(s) \in S /\ \E i \in DOMAIN s : s[i] = Head(s)
         /\ Tail(s) \in Seq(S) /\ Injective(Tail(s))
         /\ \A i \in DOMAIN Tail(s) : Tail(s)[i] # Head(s) /\ \E j \in DOMAIN s : s[j] = Tail(s)[i]
<1>1. /\ Head(s) = s[1] /\ Len(s) \in Nat /\ Len(s) > 0 /\ DOMAIN s = 1 .. Len(s)
      /\ Tail(s) \in Seq(S) /\ Len(Tail(s)) = Len(s) - 1
      /\ DOMAIN Tail(s) = 1 .. Len(s) - 1
      /\ \A i \in 1 .. Len(s) - 1 : Tail(s)[i] = s[i + 1]
  OBVIOUS
<1>2. s[1] \in S
  BY <1>1
<1> QED
  BY <1>1, <1>2 DEF Injective

\* The place of an element in a sequence without repetition.
LEMMA PlaceOf ==
  ASSUME NEW S, NEW s \in Seq(S), Injective(s), NEW i \in DOMAIN s
  PROVE  LET I == {j \in 1 .. Len(s) : s[j] = s[i]}
         IN  I # {} /\ Min(I) = i
<1> DEFINE I == {j \in 1 .. Len(s) : s[j] = s[i]}
<1>1. DOMAIN s = 1 .. Len(s) /\ Len(s) \in Nat
  OBVIOUS
<1>2. I = {i}
  BY <1>1 DEF Injective
<1>3. Min({i}) = i
  BY <1>1 DEF Min
<1> QED
  BY <1>2, <1>3

\* What RemoveFirst leaves of a sequence without repetition.
LEMMA RemoveFirstEffect ==
  ASSUME NEW S, NEW s \in Seq(S), Injective(s), NEW e
  PROVE  /\ RemoveFirst(s, e) \in Seq(S) /\ Injective(RemoveFirst(s, e))
         /\ \A i \in DOMAIN RemoveFirst(s, e) : \E j \in DOMAIN s : s[j] = RemoveFirst(s, e)[i]
<1>1. DOMAIN s = 1 .. Len(s) /\ Len(s) \in Nat
  OBVIOUS
<1>2. CASE ~ \E i \in 1 .. Len(s) : s[i] = e
  BY <1>1, <1>2 DEF RemoveFirst
<1>3. ASSUME NEW k \in 1 .. Len(s), s[k] = e
      PROVE  /\ RemoveFirst(s, e) \in Seq(S) /\ Injective(RemoveFirst(s, e))
             /\ \A i \in DOMAIN RemoveFirst(s, e) : \E j \in DOMAIN s : s[j] = RemoveFirst(s, e)[i]
  <2> DEFINE before == SubSeq(s, 1, k - 1)
             after  == SubSeq(s, k + 1, Len(s))
             rest   == before \o after
  <2>1. /\ {j \in 1 .. Len(s) : s[j] = e} # {}
        /\ Min({j \in 1 .. Len(s) : s[j] = e}) = k
    BY <1>1, <1>3, PlaceOf
  <2>2. RemoveFirst(s, e) = rest
    BY <1>3, <2>1 DEF RemoveFirst, RemoveAt, SelectInSeq
  <2>3. \A i \in 1 .. Len(s) : s[i] \in S
    OBVIOUS
  <2>4. /\ before \in Seq(S) /\ Len(before) = k - 1
        /\ \A i \in 1 .. k - 1 : before[i] = s[i]
    <3>1. k \in Int /\ k - 1 \in Int /\ 1 \in Int /\ \A i \in 1 .. k - 1 : s[i] \in S
      BY <1>1, <2>3
    <3>2. /\ before \in Seq(S)
          /\ Len(before) = IF 1 <= k - 1 THEN k - 1 - 1 + 1 ELSE 0
          /\ \A i \in 1 .. k - 1 - 1 + 1 : before[i] = s[1 + i - 1]
      BY <3>1, SubSeqProperties
    <3> QED
      BY <1>1, <3>2
  <2>5. /\ after \in Seq(S) /\ Len(after) = Len(s) - k
        /\ \A i \in 1 .. Len(s) - k : after[i] = s[k + i]
    <3>1. k \in Int /\ k + 1 \in Int /\ Len(s) \in Int /\ \A i \in k + 1 .. Len(s) : s[i] \in S
      BY <1>1, <2>3
    <3>2. /\ after \in Seq(S)
          /\ Len(after) = IF k + 1 <= Len(s) THEN Len(s) - (k + 1) + 1 ELSE 0
          /\ \A i \in 1 .. Len(s) - (k + 1) + 1 : after[i] = s[k + 1 + i - 1]
      BY <3>1, SubSeqProperties
    <3> HIDE DEF after
    <3>3. Len(after) = Len(s) - k
      <4>1. k <= Len(s)
        BY <1>1
      <4>2. Len(s) - (k + 1) + 1 = Len(s) - k
        BY <3>1
      <4>3. ~(k + 1 <= Len(s)) => Len(s) - k = 0
        BY <3>1, <4>1
      <4> QED
        BY <3>2, <4>2, <4>3
    <3>4. ASSUME NEW i \in 1 .. Len(s) - k PROVE after[i] = s[k + i]
      <4>1. i \in 1 .. Len(s) - (k + 1) + 1 /\ k + 1 + i - 1 = k + i
        BY <1>1, <3>1
      <4> QED
        BY <3>2, <4>1
    <3> QED
      BY <3>2, <3>3, <3>4
  <2> HIDE DEF before, after
  <2>6. /\ rest \in Seq(S) /\ Len(rest) = Len(before) + Len(after)
        /\ \A i \in 1 .. Len(before) + Len(after) :
             rest[i] = IF i <= Len(before) THEN before[i] ELSE after[i - Len(before)]
    BY <2>4, <2>5, ConcatProperties
  <2> HIDE DEF rest
  <2>7. /\ DOMAIN rest = 1 .. Len(s) - 1
        /\ \A i \in 1 .. k - 1 : rest[i] = s[i]
        /\ \A i \in k .. Len(s) - 1 : rest[i] = s[i + 1]
    <3>1. Len(before) + Len(after) = Len(s) - 1
      BY <1>1, <2>4, <2>5
    <3>2. DOMAIN rest = 1 .. Len(s) - 1
      <4>1. DOMAIN rest = 1 .. Len(rest)
        BY <2>6, LenProperties
      <4> QED
        BY <2>6, <3>1, <4>1
    <3>3. ASSUME NEW i \in 1 .. k - 1 PROVE rest[i] = s[i]
      <4>1. i \in 1 .. Len(s) - 1 /\ i <= k - 1
        BY <1>1
      <4> QED
        BY <2>4, <2>6, <3>1, <4>1
    <3>4. ASSUME NEW i \in k .. Len(s) - 1 PROVE rest[i] = s[i + 1]
      <4>1. /\ i - (k - 1) \in 1 .. Len(s) - k /\ k + (i - (k - 1)) = i + 1
            /\ i \in 1 .. Len(s) - 1 /\ ~(i <= k - 1)
        BY <1>1
      <4>2. rest[i] = after[i - (k - 1)]
        BY <2>4, <2>6, <3>1, <4>1
      <4>3. after[i - (k - 1)] = s[k + (i - (k - 1))]
        BY <2>5, <4>1
      <4> QED
        BY <4>1, <4>2, <4>3
    <3> QED
      BY <3>2, <3>3, <3>4
  <2>8. ASSUME NEW i \in DOMAIN rest
        PROVE  \E j \in DOMAIN s : rest[i] = s[j] /\ (IF i < k THEN j = i ELSE j = i + 1)
    <3>1. CASE i < k
      BY <1>1, <2>7, <3>1
    <3>2. CASE ~(i < k)
      <4>1. i \in k .. Len(s) - 1 /\ i + 1 \in DOMAIN s
        BY <1>1, <2>7, <3>2
      <4> QED
        BY <2>7, <3>2, <4>1
    <3> QED
      BY <3>1, <3>2
  <2>9. Injective(rest)
    <3> SUFFICES ASSUME NEW i \in DOMAIN rest, NEW j \in DOMAIN rest, rest[i] = rest[j]
                 PROVE  i = j
      BY DEF Injective
    <3>1. PICK a \in DOMAIN s : rest[i] = s[a] /\ (IF i < k THEN a = i ELSE a = i + 1)
      BY <2>8
    <3>2. PICK b \in DOMAIN s : rest[j] = s[b] /\ (IF j < k THEN b = j ELSE b = j + 1)
      BY <2>8
    <3>3. a = b
      BY <3>1, <3>2 DEF Injective
    <3> QED
      BY <1>1, <2>7, <3>1, <3>2, <3>3
  <2> QED
    BY <2>2, <2>6, <2>8, <2>9
<1> QED
  BY <1>2, <1>3

-----------------------------------------------------------------------------
(* The inductive invariant.                                                *)

Typing ==
  /\ now \in Time /\ settings \in Settings
  /\ tickets \in [Tickets -> Ticket \cup {NoTicket}]
  /\ book \in Seq(Tickets) /\ queue \in [Services -> Seq(Tickets)]
  /\ log \in Seq(Row)
  /\ creating \in [Tickets -> Creating] /\ crowded \in SUBSET Tickets
  /\ notices \in Seq(Notice) /\ accepted \in Seq(Message) /\ unsaved \in SUBSET Message
  /\ desk \in [Counters -> Notifying]

Born(t) == tickets[t].status # UNBORN

\* A ticket is in the book once it is inserted, and once.
BookSound ==
  /\ Injective(book)
  /\ \A t \in Tickets : Born(t) <=> \E i \in DOMAIN book : book[i] = t

\* A ticket that is being created is not in the table before its insert, and
\* then has the service it was created for.
CreatingSound(t) ==
  /\ At(t, "insert") => /\ ~Born(t) /\ creating[t].user \in Users
                        /\ creating[t].service \in Services /\ creating[t].sequence \in Numbers
  /\ creating[t].pc \in {"log", "enqueue", "rank"} =>
       Born(t) /\ creating[t].service = tickets[t].service
  /\ creating[t].pc \in {"log", "enqueue"} => tickets[t].status \in {"WAITING", "CANCELLED"}

\* What is true of a ticket in a queue.
Enqueued(s, t) ==
  /\ tickets[t].status \in {"WAITING", "CANCELLED"} /\ tickets[t].service = s
  /\ creating[t].pc \notin {"insert", "log", "enqueue"}

\* A queue holds a ticket of its service once, from its enqueuing on, while it
\* waits or is cancelled.
QueueSound ==
  \A s \in Services :
    /\ Injective(queue[s])
    /\ \A i \in DOMAIN queue[s] : Enqueued(s, queue[s][i])

\* The dates that a ticket has so far.
DatesSound(t) ==
  LET x == tickets[t]
  IN  Born(t) =>
        /\ x.created <= now
        /\ x.called # None => x.created <= x.called /\ x.called <= now
        /\ x.status \in {"CALLED", "SERVING", "DONE", "INCOMPLETE"} => x.called # None
        /\ x.served # None => x.called <= x.served /\ x.served <= now
        /\ x.served # None => x.status \in {"SERVING", "DONE", "INCOMPLETE"}
        /\ x.status = "SERVING" => x.served # None
        /\ x.done # None => x.status = "DONE" /\ x.served # None /\ x.served <= x.done

\* Unless it was crowded, what was counted for a number still counts so.
CountValid(t) ==
  At(t, "insert") /\ t \notin crowded => creating[t].sequence = NextSequence(creating[t].service)

RowsSound ==
  /\ BookSound /\ QueueSound
  /\ \A t \in Tickets : CreatingSound(t)

-----------------------------------------------------------------------------
(* Types of the records.                                                   *)

LEMMA NoneIsNoNumber == None \notin Int /\ None \notin Tickets /\ None \notin Counters
                        /\ None \notin Users /\ None \notin Services
BY DayBookAssumption

LEMMA StatusIsBorn == UNBORN \notin TicketStatus
BY DEF UNBORN, TicketStatus

LEMMA TicketFields ==
  ASSUME NEW x \in Ticket
  PROVE  /\ x.status \in TicketStatus /\ x.user \in Users /\ x.service \in Services
         /\ x.sequence \in Numbers /\ x.counter \in Counters \cup {None}
         /\ x.eta \in Nat \cup {None} /\ x.created \in Time /\ x.called \in Time \cup {None}
         /\ x.served \in Time \cup {None} /\ x.done \in Time \cup {None}
         /\ x.actual \in Time \cup {None}
BY DEF Ticket

\* A row of the table is a ticket's as soon as it has a status.
LEMMA BornIsTicket ==
  ASSUME Typing, NEW t \in Tickets
  PROVE  /\ tickets[t] \in Ticket \cup {NoTicket}
         /\ Born(t) <=> tickets[t] \in Ticket
         /\ ~Born(t) <=> tickets[t] = NoTicket
<1>1. tickets[t] \in Ticket \cup {NoTicket}
  BY DEF Typing
<1>2. NoTicket.status = UNBORN
  BY DEF NoTicket
<1>3. \A x \in Ticket : x.status # UNBORN
  BY TicketFields, StatusIsBorn
<1> QED
  BY <1>1, <1>2, <1>3 DEF Born

LEMMA TimeIsInt == Time \subseteq Nat
BY DayBookAssumption DEF Time

\* The number of a ticket's calls in the log, and what a row adds to it.
LEMMA CallsType ==
  ASSUME log \in Seq(Row), NEW t
  PROVE  /\ Calls(t) \in Nat
         /\ IsFiniteSet({i \in DOMAIN log : log[i].ticket = t /\ log[i].action = "CALLED"})
<1> DEFINE I == {i \in DOMAIN log : log[i].ticket = t /\ log[i].action = "CALLED"}
<1>1. DOMAIN log = 1 .. Len(log) /\ Len(log) \in Nat /\ IsFiniteSet(1 .. Len(log))
  BY LenProperties, FS_Interval
<1>2. IsFiniteSet(I) /\ Cardinality(I) \in Nat
  BY <1>1, FS_Subset, FS_CardinalityType
<1> QED
  BY <1>2 DEF Calls

LEMMA CallsAppend ==
  ASSUME log \in Seq(Row), NEW t, NEW row \in Row, log' = Append(log, row)
  PROVE  /\ log' \in Seq(Row)
         /\ Calls(t)' = IF row.ticket = t /\ row.action = "CALLED"
                        THEN Calls(t) + 1 ELSE Calls(t)
<1> DEFINE I == {i \in DOMAIN log : log[i].ticket = t /\ log[i].action = "CALLED"}
           J == {i \in DOMAIN log' : log'[i].ticket = t /\ log'[i].action = "CALLED"}
<1>1. Cardinality(I) \in Nat /\ IsFiniteSet(I)
  BY CallsType DEF Calls
<1>2. /\ log' \in Seq(Row) /\ DOMAIN log' = 1 .. Len(log) + 1
      /\ DOMAIN log = 1 .. Len(log) /\ Len(log) \in Nat
      /\ \A i \in 1 .. Len(log) : log'[i] = log[i]
      /\ log'[Len(log) + 1] = row
  BY AppendEffect
<1>3. CASE row.ticket = t /\ row.action = "CALLED"
  <2>1. J = I \cup {Len(log) + 1} /\ Len(log) + 1 \notin I
    BY <1>2, <1>3
  <2>2. Cardinality(J) = Cardinality(I) + 1
    BY <1>1, <2>1, FS_AddElement
  <2> QED
    BY <1>2, <1>3, <2>2 DEF Calls
<1>4. CASE ~(row.ticket = t /\ row.action = "CALLED")
  <2>1. J = I
    BY <1>2, <1>4
  <2> QED
    BY <1>2, <1>4, <2>1 DEF Calls
<1> QED
  BY <1>3, <1>4

-----------------------------------------------------------------------------
(* What most steps leave alone: which tickets are in the table, since when, *)
(* for which service, and under which number.                              *)

SameOrigin ==
  \A x \in Tickets :
    /\ Born(x)' <=> Born(x)
    /\ Born(x) => /\ tickets'[x].created = tickets[x].created
                  /\ tickets'[x].service = tickets[x].service
                  /\ tickets'[x].sequence = tickets[x].sequence

LEMMA SameTickets ==
  ASSUME UNCHANGED tickets
  PROVE  SameOrigin
BY DEF SameOrigin, Born

LEMMA BookKept ==
  ASSUME BookSound, UNCHANGED book, SameOrigin
  PROVE  BookSound'
BY DEF BookSound, SameOrigin, Injective, Born

LEMMA CountKept ==
  ASSUME SameOrigin, Day(now') = Day(now), NEW s
  PROVE  NextSequence(s)' = NextSequence(s)
<1>1. \A x \in Tickets : InDay(x, Day(now))' <=> InDay(x, Day(now))
  BY DEF SameOrigin, InDay, Born, Day
<1>2. \A x \in Tickets : InDay(x, Day(now)) => tickets'[x].service = tickets[x].service
  BY DEF SameOrigin, InDay, Born
<1>3. {t \in Tickets : InDay(t, Day(now))' /\ PrefixOf[tickets'[t].service] = PrefixOf[s]}
      = {t \in Tickets : InDay(t, Day(now)) /\ PrefixOf[tickets[t].service] = PrefixOf[s]}
  BY <1>1, <1>2
<1> QED
  BY <1>3 DEF NextSequence

\* The body of NumberIsRank.
Peers(i) ==
  {j \in 1 .. i :
    /\ InDay(book[j], Day(tickets[book[i]].created))
    /\ PrefixOf[tickets[book[j]].service] = PrefixOf[tickets[book[i]].service]}

LEMMA RanksKept ==
  ASSUME Typing, BookSound, NumberIsRank, UNCHANGED book, SameOrigin, crowded \subseteq crowded'
  PROVE  NumberIsRank'
<1> SUFFICES ASSUME NEW i \in DOMAIN book, book[i] \notin crowded'
             PROVE  tickets'[book[i]].sequence = Cardinality(Peers(i)')
  BY DEF NumberIsRank, Peers
<1>1. \A j \in DOMAIN book : book[j] \in Tickets /\ Born(book[j])
  BY DEF Typing, BookSound
<1>2. tickets[book[i]].sequence = Cardinality(Peers(i))
  BY DEF NumberIsRank, Peers
<1>3. /\ tickets'[book[i]].sequence = tickets[book[i]].sequence
      /\ tickets'[book[i]].created = tickets[book[i]].created
      /\ tickets'[book[i]].service = tickets[book[i]].service
  BY <1>1 DEF SameOrigin
<1>4. 1 .. i \subseteq DOMAIN book
  BY DEF Typing
<1>5. Peers(i)' = Peers(i)
  <2>1. ASSUME NEW j \in 1 .. i
        PROVE  /\ tickets'[book[j]].service = tickets[book[j]].service
               /\ tickets'[book[j]].created = tickets[book[j]].created
               /\ tickets'[book[j]].status # UNBORN /\ tickets[book[j]].status # UNBORN
    BY <1>1, <1>4 DEF SameOrigin, Born
  <2> QED
    BY <1>3, <2>1 DEF Peers, InDay
<1> QED
  BY <1>2, <1>3, <1>5

\* The invariants of the numbers.
NumbersSound == NumberIsRank /\ \A t \in Tickets : CountValid(t)

LEMMA NumbersKept ==
  ASSUME Typing, BookSound, NumbersSound, SameOrigin, UNCHANGED <<now, book, crowded>>,
         \A x \in Tickets : At(x, "insert")' => creating'[x] = creating[x]
  PROVE  NumbersSound'
<1>1. NumberIsRank'
  BY RanksKept DEF NumbersSound
<1>2. ASSUME NEW x \in Tickets PROVE CountValid(x)'
  <2> SUFFICES ASSUME At(x, "insert")', x \notin crowded'
               PROVE  creating'[x].sequence = NextSequence(creating[x].service)'
    BY DEF CountValid
  <2>1. creating'[x] = creating[x] /\ At(x, "insert") /\ x \notin crowded
    BY DEF At
  <2>2. \A s \in {creating[x].service} : NextSequence(s)' = NextSequence(s)
    BY CountKept
  <2> QED
    BY <2>1, <2>2 DEF NumbersSound, CountValid
<1> QED
  BY <1>1, <1>2 DEF NumbersSound

-----------------------------------------------------------------------------
(* Moving a ticket from one status to another.                             *)

Moved(t, to) ==
  /\ MayMove(tickets[t].status, to)
  /\ tickets[t] \in Ticket
  /\ tickets' \in [Tickets -> Ticket \cup {NoTicket}]
  /\ \A x \in Tickets \ {t} : tickets'[x] = tickets[x]
  /\ tickets'[t] \in Ticket /\ tickets'[t].status = to
  /\ tickets'[t].created = tickets[t].created /\ tickets'[t].service = tickets[t].service
  /\ tickets'[t].sequence = tickets[t].sequence
  /\ log' \in Seq(Row)
  /\ \A x \in Tickets : Calls(x)' = IF x = t /\ to = "CALLED" THEN Calls(x) + 1 ELSE Calls(x)

\* Only a ticket of the table moves.
LEMMA MoverIsBorn ==
  ASSUME Typing, NEW t \in Tickets, NEW to, MayMove(tickets[t].status, to)
  PROVE  tickets[t] \in Ticket /\ Born(t)
BY BornIsTicket, StatusIsBorn DEF MayMove, Born

\* The audit row has its columns' types.
LEMMA LogRowType ==
  ASSUME Typing, NEW t \in Tickets, Born(t), DatesSound(t), NEW action \in Actions,
         NEW counter \in Counters \cup {None}
  PROVE  LogRow(t, action, counter) \in Row
<1>1. tickets[t] \in Ticket
  BY BornIsTicket
<1>2. /\ tickets[t].service \in Services /\ tickets[t].counter \in Counters \cup {None}
      /\ tickets[t].created \in Time
  BY <1>1, TicketFields
<1>3. now \in Time /\ tickets[t].created <= now
  BY DEF Typing, DatesSound
<1>4. LastHour \in Nat
  BY DayBookAssumption
<1>5. 0 \in Time /\ now - tickets[t].created \in Time
  BY <1>2, <1>3, <1>4 DEF Time
<1> QED
  BY <1>2, <1>3, <1>5 DEF LogRow, Row

LEMMA MoveEffect ==
  ASSUME Typing, NEW t \in Tickets, DatesSound(t), NEW to \in TicketStatus,
         NEW counter \in Counters \cup {None}, NEW columns,
         tickets[t] \in Ticket =>
           /\ columns \in Ticket /\ columns.created = tickets[t].created
           /\ columns.service = tickets[t].service /\ columns.sequence = tickets[t].sequence,
         Move(t, to, counter, columns)
  PROVE  /\ Moved(t, to)
         /\ tickets'[t] = [columns EXCEPT !.status = to]
<1>1. MayMove(tickets[t].status, to) /\ tickets[t] \in Ticket /\ Born(t)
  BY MoverIsBorn DEF Move
<1>2. ActionOf(to) \in Actions /\ (ActionOf(to) = "CALLED" <=> to = "CALLED")
  BY DEF ActionOf, Actions, TicketStatus
<1>3. LogRow(t, ActionOf(to), counter) \in Row
  BY <1>1, <1>2, LogRowType
<1>4. /\ [columns EXCEPT !.status = to] \in Ticket
      /\ [columns EXCEPT !.status = to].status = to
      /\ [columns EXCEPT !.status = to].created = columns.created
      /\ [columns EXCEPT !.status = to].service = columns.service
      /\ [columns EXCEPT !.status = to].sequence = columns.sequence
  BY <1>1 DEF Ticket
<1>5. /\ tickets' \in [Tickets -> Ticket \cup {NoTicket}]
      /\ \A x \in Tickets \ {t} : tickets'[x] = tickets[x]
      /\ tickets'[t] = [columns EXCEPT !.status = to]
  BY <1>4 DEF Typing, Move
<1>6. /\ LogRow(t, ActionOf(to), counter).ticket = t
      /\ LogRow(t, ActionOf(to), counter).action = ActionOf(to)
  BY DEF LogRow
<1>7. /\ log' \in Seq(Row)
      /\ \A x \in Tickets : Calls(x)' = IF x = t /\ to = "CALLED" THEN Calls(x) + 1 ELSE Calls(x)
  <2>1. log \in Seq(Row) /\ log' = Append(log, LogRow(t, ActionOf(to), counter))
    BY DEF Typing, Move
  <2> HIDE DEF Move
  <2>2. ASSUME NEW x \in Tickets
        PROVE  /\ log' \in Seq(Row)
               /\ Calls(x)' = IF x = t /\ to = "CALLED" THEN Calls(x) + 1 ELSE Calls(x)
    <3>1. /\ log' \in Seq(Row)
          /\ Calls(x)' = IF LogRow(t, ActionOf(to), counter).ticket = x
                            /\ LogRow(t, ActionOf(to), counter).action = "CALLED"
                         THEN Calls(x) + 1 ELSE Calls(x)
      BY <1>3, <2>1, CallsAppend
    <3> QED
      BY <1>2, <1>6, <3>1
  <2> QED
    BY <2>2
<1> QED
  BY <1>1, <1>4, <1>5, <1>7 DEF Moved

\* What a move keeps.
LEMMA MovedKeeps ==
  ASSUME Typing, NEW t \in Tickets, NEW to \in TicketStatus, Moved(t, to)
  PROVE  /\ SameOrigin
         /\ \A x \in Tickets : tickets[x].status = "DONE" => tickets'[x].status = "DONE"
         /\ \A x \in Tickets : Calls(x) \in Nat /\ Calls(x)' \in Nat /\ Calls(x) <= Calls(x)'
<1>1. Born(t) /\ Born(t)'
  BY StatusIsBorn, MoverIsBorn DEF Moved, Born
<1>2. SameOrigin
  BY <1>1 DEF SameOrigin, Moved, Born
<1>3. tickets[t].status # "DONE"
  BY DEF Moved, MayMove, ALLOWED_TRANSITIONS
<1>4. \A x \in Tickets : Calls(x) \in Nat
  BY CallsType DEF Typing
<1> QED
  BY <1>2, <1>3, <1>4 DEF Moved

\* The queues of a step, one of which it may write.
LEMMA QueueKept ==
  ASSUME Typing, QueueSound, UNCHANGED queue,
         \A s \in Services, x \in Tickets : Enqueued(s, x) => Enqueued(s, x)'
  PROVE  QueueSound'
<1> SUFFICES ASSUME NEW s \in Services, NEW i \in DOMAIN queue[s]
             PROVE  Enqueued(s, queue[s][i])'
  BY DEF QueueSound, Injective
<1>1. queue[s][i] \in Tickets /\ Enqueued(s, queue[s][i])
  BY DEF Typing, QueueSound
<1>2. \A x \in Tickets : x = queue[s][i] => Enqueued(s, x)'
  BY <1>1
<1> QED
  BY <1>1, <1>2 DEF Enqueued

LEMMA QueueChanged ==
  ASSUME Typing, QueueSound, NEW s \in Services, NEW q \in Seq(Tickets),
         queue' = [queue EXCEPT ![s] = q], Injective(q),
         \A x \in Tickets : (\E i \in DOMAIN q : q[i] = x) => Enqueued(s, x)',
         \A r \in Services \ {s}, x \in Tickets : Enqueued(r, x) => Enqueued(r, x)'
  PROVE  QueueSound'
<1>1. queue'[s] = q /\ \A r \in Services \ {s} : queue'[r] = queue[r]
  BY DEF Typing
<1> SUFFICES ASSUME NEW r \in Services
             PROVE  Injective(queue'[r]) /\ \A i \in DOMAIN queue'[r] : Enqueued(r, queue[r][i])'
  BY DEF QueueSound, Injective
<1>2. CASE r = s
  <2>1. \A i \in DOMAIN q : q[i] \in Tickets
    OBVIOUS
  <2> QED
    BY <1>1, <1>2, <2>1 DEF Enqueued
<1>3. CASE r # s
  <2>1. queue[r] \in Seq(Tickets)
    BY DEF Typing
  <2>2. \A i \in DOMAIN queue[r] : queue[r][i] \in Tickets /\ Enqueued(r, queue[r][i])
    BY <2>1 DEF QueueSound
  <2>3. \A x \in Tickets : Enqueued(r, x) => Enqueued(r, x)'
    BY <1>3
  <2>4. queue'[r] = queue[r]
    BY <1>1, <1>3
  <2>5. \A i \in DOMAIN queue'[r] : Enqueued(r, queue[r][i])'
    BY <2>2, <2>3, <2>4 DEF Enqueued
  <2> QED
    BY <2>4, <2>5 DEF QueueSound
<1> QED
  BY <1>2, <1>3

LEMMA QueueTyped ==
  ASSUME Typing, NEW s \in Services, NEW q \in Seq(Tickets), queue' = [queue EXCEPT ![s] = q]
  PROVE  queue' \in [Services -> Seq(Tickets)]
BY DEF Typing

\* A move of a ticket that its request has enqueued, or that cancels it.
LEMMA CreatingKept ==
  ASSUME Typing, \A x \in Tickets : CreatingSound(x), UNCHANGED creating,
         NEW t \in Tickets, NEW to \in TicketStatus, Moved(t, to),
         to = "CANCELLED" \/ creating[t].pc \notin {"log", "enqueue"}
  PROVE  \A x \in Tickets : CreatingSound(x)'
<1> SUFFICES ASSUME NEW x \in Tickets PROVE CreatingSound(x)'
  OBVIOUS
<1>1. CASE x # t
  BY <1>1 DEF Moved, CreatingSound, At, Born
<1>2. CASE x = t
  <2>1. Born(t) /\ Born(t)'
    BY StatusIsBorn, MoverIsBorn DEF Moved, Born
  <2> QED
    BY <1>2, <2>1 DEF Moved, CreatingSound, At
<1> QED
  BY <1>1, <1>2

\* A move of a ticket that has been called, or is absent: no queue holds it.
LEMMA MovedAside ==
  ASSUME Typing, RowsSound, UNCHANGED <<book, queue, creating>>,
         NEW t \in Tickets, NEW to \in TicketStatus, Moved(t, to), tickets[t].status # "WAITING"
  PROVE  RowsSound'
<1>1. tickets[t].status \notin {"WAITING", "CANCELLED"}
  BY DEF Moved, MayMove, ALLOWED_TRANSITIONS
<1>2. BookSound'
  BY MovedKeeps, BookKept DEF RowsSound
<1>3. QueueSound'
  <2>1. ASSUME NEW s \in Services, NEW x \in Tickets, Enqueued(s, x)
        PROVE  Enqueued(s, x)'
    BY <1>1, <2>1 DEF Enqueued, Moved
  <2> QED
    BY <2>1, QueueKept DEF RowsSound
<1>4. \A x \in Tickets : CreatingSound(x)'
  <2>1. creating[t].pc \notin {"log", "enqueue"}
    BY <1>1 DEF RowsSound, CreatingSound
  <2> QED
    BY <2>1, CreatingKept DEF RowsSound
<1> QED
  BY <1>2, <1>3, <1>4 DEF RowsSound

-----------------------------------------------------------------------------
(* The operations of clients and agents, on the tables.                    *)

TableInv ==
  /\ Typing /\ RowsSound /\ NumbersSound
  /\ \A t \in Tickets : DatesSound(t)

LEMMA DatesKept ==
  ASSUME Typing, \A x \in Tickets : DatesSound(x), UNCHANGED now,
         NEW t \in Tickets, NEW to, Moved(t, to), DatesSound(t)'
  PROVE  \A x \in Tickets : DatesSound(x)'
BY DEF Moved, DatesSound, Born

LEMMA CancelKeepsTable ==
  ASSUME TableInv, NEW t \in Tickets, Cancel(t)
  PROVE  TableInv'
<1>1. Typing /\ RowsSound /\ NumbersSound /\ DatesSound(t) /\ \A x \in Tickets : DatesSound(x)
  BY DEF TableInv
<1>2. /\ Moved(t, "CANCELLED")
      /\ tickets'[t] = [tickets[t] EXCEPT !.status = "CANCELLED"]
  <2>1. "CANCELLED" \in TicketStatus /\ None \in Counters \cup {None}
    BY DEF TicketStatus
  <2> QED
    BY <1>1, <2>1, MoveEffect DEF Cancel
<1>3. SameOrigin
  BY <1>1, <1>2, MovedKeeps DEF TicketStatus
<1>4. tickets[t].status = "WAITING" /\ tickets[t] \in Ticket /\ tickets[t].service \in Services
  <2>1. tickets[t].status = "WAITING"
    BY <1>2 DEF Moved, MayMove, ALLOWED_TRANSITIONS, TicketStatus
  <2> QED
    BY <1>2, <2>1, TicketFields DEF Moved
<1>5. QueueSound' /\ queue' \in [Services -> Seq(Tickets)]
  <2> DEFINE s == tickets[t].service
             q == RemoveFirst(queue[s], t)
  <2>1. queue[s] \in Seq(Tickets) /\ Injective(queue[s])
    BY <1>1, <1>4 DEF Typing, RowsSound, QueueSound
  <2>2. /\ q \in Seq(Tickets) /\ Injective(q)
        /\ \A i \in DOMAIN q : \E j \in DOMAIN queue[s] : queue[s][j] = q[i]
    BY <2>1, RemoveFirstEffect
  <2>3. ASSUME NEW r \in Services, NEW x \in Tickets, Enqueued(r, x)
        PROVE  Enqueued(r, x)'
    BY <1>2, <2>3 DEF Enqueued, Moved, Cancel
  <2>4. \A x \in Tickets : (\E i \in DOMAIN q : q[i] = x) => Enqueued(s, x)
    BY <1>1, <1>4, <2>2 DEF RowsSound, QueueSound
  <2>5. queue' = [queue EXCEPT ![s] = q]
    BY DEF Cancel
  <2> HIDE DEF q
  <2>6. \A x \in Tickets : (\E i \in DOMAIN q : q[i] = x) =>
          tickets'[x].status \in {"WAITING", "CANCELLED"} /\ tickets'[x].service = s
          /\ creating'[x].pc \notin {"insert", "log", "enqueue"}
    BY <1>4, <2>3, <2>4 DEF Enqueued
  <2>7. \A r \in Services : r = tickets[t].service =>
          \A x \in Tickets : (\E i \in DOMAIN q : q[i] = x) => Enqueued(r, x)'
    BY <2>6 DEF Enqueued
  <2>8. QueueSound'
    BY <1>1, <1>4, <2>2, <2>3, <2>5, <2>7, QueueChanged DEF RowsSound
  <2> QED
    BY <1>1, <1>4, <2>2, <2>5, <2>8, QueueTyped
<1>6. RowsSound'
  <2>1. BookSound'
    BY <1>1, <1>3, BookKept DEF RowsSound, Cancel
  <2>2. \A x \in Tickets : CreatingSound(x)'
    BY <1>1, <1>2, CreatingKept DEF RowsSound, Cancel, TicketStatus
  <2> QED
    BY <1>5, <2>1, <2>2 DEF RowsSound
<1>7. Typing'
  BY <1>1, <1>2, <1>5 DEF Typing, Cancel, noticeVars, Moved
<1>8. NumbersSound'
  BY <1>1, <1>3, NumbersKept DEF RowsSound, Cancel
<1>9. DatesSound(t)'
  BY <1>1, <1>2, <1>4 DEF DatesSound, Born, Cancel, UNBORN, Ticket
<1> QED
  BY <1>1, <1>2, <1>6, <1>7, <1>8, <1>9, DatesKept DEF TableInv, Cancel

LEMMA CallNextKeepsTable ==
  ASSUME TableInv, NEW c \in Counters, NEW s \in Services, CallNext(c, s)
  PROVE  TableInv' /\ \E t \in Tickets : Moved(t, "CALLED") /\ t = Head(queue[s])
<1>1. Typing /\ RowsSound /\ NumbersSound /\ \A x \in Tickets : DatesSound(x)
  BY DEF TableInv
<1>2. queue[s] \in Seq(Tickets) /\ Injective(queue[s]) /\ queue[s] # <<>>
  BY <1>1 DEF Typing, RowsSound, QueueSound, CallNext
<1>3. PICK t \in Tickets :
      /\ t = Head(queue[s]) /\ \E i \in DOMAIN queue[s] : queue[s][i] = t
      /\ Tail(queue[s]) \in Seq(Tickets) /\ Injective(Tail(queue[s]))
      /\ \A i \in DOMAIN Tail(queue[s]) :
           Tail(queue[s])[i] # t /\ \E j \in DOMAIN queue[s] : queue[s][j] = Tail(queue[s])[i]
  BY <1>2, TailEffect
<1>4. Enqueued(s, t)
  BY <1>1, <1>3 DEF RowsSound, QueueSound
<1> DEFINE columns == [tickets[t] EXCEPT !.called = now, !.counter = c]
<1>5. now \in Time /\ c # None
  BY <1>1, NoneIsNoNumber DEF Typing
<1>6. /\ Move(t, "CALLED", c, columns)
      /\ queue' = [queue EXCEPT ![s] = Tail(queue[s])]
      /\ Notify(c, t, Calls(t) + 1)
      /\ UNCHANGED <<now, settings, book, creating, crowded, notices, accepted, unsaved>>
  BY <1>3 DEF CallNext
<1>7. tickets[t] \in Ticket =>
        /\ columns \in Ticket /\ columns.created = tickets[t].created
        /\ columns.service = tickets[t].service /\ columns.sequence = tickets[t].sequence
        /\ columns.called = now /\ columns.served = tickets[t].served
        /\ columns.done = tickets[t].done
  BY <1>5 DEF Ticket
<1> HIDE DEF columns
<1>8. Moved(t, "CALLED") /\ tickets'[t] = [columns EXCEPT !.status = "CALLED"]
  <2>1. "CALLED" \in TicketStatus /\ c \in Counters \cup {None}
    BY DEF TicketStatus
  <2> QED
    BY <1>1, <1>3, <1>6, <1>7, <2>1, MoveEffect
<1>9. SameOrigin /\ "CALLED" \in TicketStatus
  BY <1>1, <1>3, <1>8, MovedKeeps DEF TicketStatus
<1>10. QueueSound' /\ queue' \in [Services -> Seq(Tickets)]
  <2> DEFINE q == Tail(queue[s])
  <2>1. ASSUME NEW r \in Services, NEW x \in Tickets, x # t, Enqueued(r, x)
        PROVE  Enqueued(r, x)'
    BY <1>6, <1>8, <2>1 DEF Enqueued, Moved
  <2>2. \A x \in Tickets : (\E i \in DOMAIN q : q[i] = x) => x # t /\ Enqueued(s, x)
    BY <1>1, <1>3 DEF RowsSound, QueueSound
  <2>3. \A r \in Services \ {s}, x \in Tickets : Enqueued(r, x) => x # t
    BY <1>4 DEF Enqueued
  <2>4. q \in Seq(Tickets) /\ Injective(q) /\ queue' = [queue EXCEPT ![s] = q]
    BY <1>3, <1>6
  <2> HIDE DEF q
  <2>5. QueueSound'
    BY <1>1, <2>1, <2>2, <2>3, <2>4, QueueChanged DEF RowsSound
  <2> QED
    BY <1>1, <2>4, <2>5, QueueTyped
<1>11. RowsSound'
  <2>1. BookSound'
    BY <1>1, <1>6, <1>9, BookKept DEF RowsSound
  <2>2. \A x \in Tickets : CreatingSound(x)'
    BY <1>1, <1>3, <1>4, <1>6, <1>8, <1>9, CreatingKept DEF RowsSound, Enqueued
  <2> QED
    BY <1>10, <2>1, <2>2 DEF RowsSound
<1>12. Typing'
  <2>1. desk' \in [Counters -> Notifying]
    <3>1. Calls(t) + 1 \in Nat
      <4>1. Calls(t) \in Nat
        BY <1>1, CallsType DEF Typing
      <4> HIDE DEF Calls
      <4> QED
        BY <4>1
    <3>2. desk \in [Counters -> Notifying] /\ Idle \in Notifying
      BY <1>1 DEF Typing, Notifying, Idle
    <3>3. \A channel \in {"SMS", "FCM"} :
            [Idle EXCEPT !.pc = "send", !.ticket = t, !.nth = Calls(t) + 1, !.channel = channel]
              \in Notifying
      BY <1>3, <3>1 DEF Notifying, Idle
    <3> QED
      BY <1>6, <3>2, <3>3 DEF Notify
  <2> QED
    BY <1>1, <1>6, <1>8, <1>10, <2>1 DEF Typing, Moved
<1>13. NumbersSound'
  BY <1>1, <1>6, <1>9, NumbersKept DEF RowsSound
<1>14. DatesSound(t)'
  <2>1. /\ tickets[t].created <= now /\ tickets[t].served = None /\ tickets[t].done = None
        /\ tickets[t] \in Ticket
    BY <1>1, <1>3, <1>4, <1>8, MoverIsBorn DEF DatesSound, Enqueued, Moved
  <2>2. /\ tickets'[t].status = "CALLED" /\ tickets'[t].called = now
        /\ tickets'[t].created = tickets[t].created /\ tickets'[t].served = None
        /\ tickets'[t].done = None
    BY <1>7, <1>8, <2>1 DEF Ticket, Moved
  <2>3. tickets[t].created \in Nat /\ now \in Nat /\ now' = now
    BY <1>5, <1>6, <2>1, TicketFields, TimeIsInt
  <2> QED
    BY <2>1, <2>2, <2>3, NoneIsNoNumber DEF DatesSound
<1>15. \A x \in Tickets : DatesSound(x)'
  <2>1. UNCHANGED now
    BY <1>6
  <2> QED
    BY <1>1, <1>3, <1>8, <1>14, <2>1, DatesKept
<1> QED
  BY <1>3, <1>8, <1>11, <1>12, <1>13, <1>15 DEF TableInv

LEMMA AsideKeepsTable ==
  ASSUME TableInv, NEW t \in Tickets, NEW to \in TicketStatus, Moved(t, to),
         tickets[t].status # "WAITING", DatesSound(t)',
         now' = now, settings' = settings, book' = book, queue' = queue,
         creating' = creating, crowded' = crowded, notices' = notices,
         accepted' = accepted, unsaved' = unsaved, desk' \in [Counters -> Notifying]
  PROVE  TableInv'
<1>1. Typing /\ RowsSound /\ NumbersSound /\ \A x \in Tickets : DatesSound(x)
  BY DEF TableInv
<1>2. SameOrigin
  BY <1>1, MovedKeeps
<1>3. Typing'
  BY <1>1 DEF Typing, Moved
<1>4. RowsSound'
  BY <1>1, MovedAside
<1>5. NumbersSound'
  BY <1>1, <1>2, NumbersKept DEF RowsSound
<1> QED
  BY <1>1, <1>3, <1>4, <1>5, DatesKept DEF TableInv

LEMMA StartServingKeepsTable ==
  ASSUME TableInv, NEW t \in Tickets, StartServing(t)
  PROVE  TableInv' /\ Moved(t, "SERVING")
<1> DEFINE columns == [tickets[t] EXCEPT !.served = now]
<1>1. Typing /\ DatesSound(t) /\ now \in Time /\ "SERVING" \in TicketStatus
  BY DEF TableInv, Typing, TicketStatus
<1>2. tickets[t] \in Ticket =>
        /\ columns \in Ticket /\ columns.created = tickets[t].created
        /\ columns.service = tickets[t].service /\ columns.sequence = tickets[t].sequence
        /\ columns.called = tickets[t].called /\ columns.served = now
        /\ columns.done = tickets[t].done
  BY <1>1 DEF Ticket
<1>3. Move(t, "SERVING", None, columns)
  BY DEF StartServing
<1> HIDE DEF columns
<1>4. Moved(t, "SERVING") /\ tickets'[t] = [columns EXCEPT !.status = "SERVING"]
  BY <1>1, <1>2, <1>3, MoveEffect
<1>5. tickets[t].status = "CALLED" /\ tickets[t] \in Ticket /\ Born(t)
  <2>1. tickets[t].status = "CALLED"
    BY <1>4 DEF Moved, MayMove, ALLOWED_TRANSITIONS, TicketStatus
  <2> QED
    BY <1>1, <1>4, <2>1, MoverIsBorn DEF Moved
<1>6. DatesSound(t)'
  <2>1. /\ tickets[t].created <= now /\ tickets[t].called # None
        /\ tickets[t].created <= tickets[t].called /\ tickets[t].called <= now
        /\ tickets[t].done = None
    BY <1>1, <1>5 DEF DatesSound
  <2>2. /\ tickets'[t].status = "SERVING" /\ tickets'[t].called = tickets[t].called
        /\ tickets'[t].created = tickets[t].created /\ tickets'[t].served = now
        /\ tickets'[t].done = None
    BY <1>2, <1>4, <1>5, <2>1 DEF Ticket, Moved
  <2>3. now \in Nat /\ now' = now
    BY <1>1, TimeIsInt DEF StartServing
  <2> QED
    BY <2>1, <2>2, <2>3, NoneIsNoNumber DEF DatesSound
<1>7. /\ now' = now /\ settings' = settings /\ book' = book /\ queue' = queue
      /\ creating' = creating /\ crowded' = crowded /\ notices' = notices
      /\ accepted' = accepted /\ unsaved' = unsaved /\ desk' \in [Counters -> Notifying]
  BY <1>1 DEF StartServing, noticeVars, Typing
<1> QED
  BY <1>1, <1>4, <1>5, <1>6, <1>7, AsideKeepsTable

LEMMA MarkAbsentKeepsTable ==
  ASSUME TableInv, NEW t \in Tickets, MarkAbsent(t)
  PROVE  TableInv' /\ Moved(t, "ABSENT")
<1>1. Typing /\ DatesSound(t) /\ "ABSENT" \in TicketStatus
  BY DEF TableInv, Typing, TicketStatus
<1>2. Moved(t, "ABSENT") /\ tickets'[t] = [tickets[t] EXCEPT !.status = "ABSENT"]
  BY <1>1, MoveEffect DEF MarkAbsent
<1>3. tickets[t].status = "CALLED" /\ tickets[t] \in Ticket /\ Born(t)
  <2>1. tickets[t].status = "CALLED"
    BY <1>2 DEF Moved, MayMove, ALLOWED_TRANSITIONS, TicketStatus
  <2> QED
    BY <1>1, <1>2, <2>1, MoverIsBorn DEF Moved
<1>4. DatesSound(t)'
  <2>1. /\ tickets'[t].status = "ABSENT" /\ tickets'[t].called = tickets[t].called
        /\ tickets'[t].created = tickets[t].created /\ tickets'[t].served = tickets[t].served
        /\ tickets'[t].done = tickets[t].done
    BY <1>2, <1>3 DEF Ticket
  <2>2. now' = now
    BY DEF MarkAbsent
  <2> QED
    BY <1>1, <1>3, <2>1, <2>2 DEF DatesSound
<1>5. /\ now' = now /\ settings' = settings /\ book' = book /\ queue' = queue
      /\ creating' = creating /\ crowded' = crowded /\ notices' = notices
      /\ accepted' = accepted /\ unsaved' = unsaved /\ desk' \in [Counters -> Notifying]
  BY <1>1 DEF MarkAbsent, noticeVars, Typing
<1> QED
  BY <1>1, <1>2, <1>3, <1>4, <1>5, AsideKeepsTable

LEMMA CompleteKeepsTable ==
  ASSUME TableInv, NEW c \in Counters, NEW t \in Tickets, Complete(c, t)
  PROVE  TableInv' /\ Moved(t, "DONE")
<1> DEFINE actual  == IF tickets[t].served # None THEN now - tickets[t].served ELSE None
           columns == [tickets[t] EXCEPT !.done = now, !.actual = actual]
<1>1. Typing /\ DatesSound(t) /\ now \in Time /\ "DONE" \in TicketStatus
  BY DEF TableInv, Typing, TicketStatus
<1>2. Move(t, "DONE", None, columns)
  BY DEF Complete
<1>3. tickets[t].status = "SERVING" /\ tickets[t] \in Ticket /\ Born(t)
  <2>1. tickets[t].status = "SERVING"
    BY <1>2 DEF Move, MayMove, ALLOWED_TRANSITIONS, TicketStatus
  <2> QED
    BY <1>1, <1>2, <2>1, MoverIsBorn DEF Move
<1>4. /\ tickets[t].created <= now /\ tickets[t].called # None /\ tickets[t].served # None
      /\ tickets[t].created <= tickets[t].called /\ tickets[t].called <= tickets[t].served
      /\ tickets[t].called <= now /\ tickets[t].served <= now
  BY <1>1, <1>3 DEF DatesSound
<1>5. actual \in Time
  <2>1. tickets[t].served \in Time
    BY <1>3, <1>4, TicketFields
  <2> QED
    BY <1>1, <1>4, <2>1, DayBookAssumption DEF Time
<1> HIDE DEF actual
<1>6. /\ columns \in Ticket /\ columns.created = tickets[t].created
      /\ columns.service = tickets[t].service /\ columns.sequence = tickets[t].sequence
      /\ columns.called = tickets[t].called /\ columns.served = tickets[t].served
      /\ columns.done = now
  BY <1>1, <1>3, <1>5 DEF Ticket
<1> HIDE DEF columns
<1>7. Moved(t, "DONE") /\ tickets'[t] = [columns EXCEPT !.status = "DONE"]
  BY <1>1, <1>2, <1>6, MoveEffect
<1>8. DatesSound(t)'
  <2>1. /\ tickets'[t].status = "DONE" /\ tickets'[t].called = tickets[t].called
        /\ tickets'[t].created = tickets[t].created /\ tickets'[t].served = tickets[t].served
        /\ tickets'[t].done = now
    BY <1>6, <1>7 DEF Ticket
  <2>2. now' = now
    BY DEF Complete
  <2> QED
    BY <1>4, <2>1, <2>2 DEF DatesSound
<1>9. desk' \in [Counters -> Notifying]
  <2>1. [Idle EXCEPT !.pc = "save", !.ticket = t, !.channel = "IN_APP"] \in Notifying
    BY DEF Notifying, Idle
  <2> QED
    BY <1>1, <2>1 DEF Complete, Typing
<1>10. /\ now' = now /\ settings' = settings /\ book' = book /\ queue' = queue
       /\ creating' = creating /\ crowded' = crowded /\ notices' = notices
       /\ accepted' = accepted /\ unsaved' = unsaved
  BY DEF Complete
<1> QED
  BY <1>1, <1>3, <1>7, <1>8, <1>9, <1>10, AsideKeepsTable

LEMMA ReturnToQueueKeepsTable ==
  ASSUME TableInv, NEW t \in Tickets, ReturnToQueue(t)
  PROVE  TableInv' /\ Moved(t, "WAITING")
<1>1. Typing /\ RowsSound /\ NumbersSound /\ \A x \in Tickets : DatesSound(x)
  BY DEF TableInv
<1>2. "WAITING" \in TicketStatus
  BY DEF TicketStatus
<1>3. Moved(t, "WAITING") /\ tickets'[t] = [tickets[t] EXCEPT !.status = "WAITING"]
  BY <1>1, <1>2, MoveEffect DEF ReturnToQueue
<1>4. tickets[t].status = "ABSENT" /\ tickets[t] \in Ticket /\ Born(t)
  <2>1. tickets[t].status = "ABSENT"
    BY <1>3 DEF Moved, MayMove, ALLOWED_TRANSITIONS, TicketStatus
  <2> QED
    BY <1>1, <1>3, <2>1, MoverIsBorn DEF Moved
<1>5. creating[t].pc \notin {"insert", "log", "enqueue"}
  BY <1>1, <1>4 DEF RowsSound, CreatingSound, At
<1>6. PICK s \in Services : s = tickets[t].service
  BY <1>4, TicketFields
<1>7. /\ now' = now /\ settings' = settings /\ book' = book /\ creating' = creating
      /\ crowded' = crowded /\ notices' = notices /\ accepted' = accepted
      /\ unsaved' = unsaved /\ desk' = desk
      /\ queue' = [queue EXCEPT ![s] = Append(queue[s], t)]
  BY <1>6 DEF ReturnToQueue, noticeVars
<1>8. SameOrigin
  BY <1>1, <1>2, <1>3, MovedKeeps
<1>9. QueueSound' /\ queue' \in [Services -> Seq(Tickets)]
  <2> DEFINE q == Append(queue[s], t)
  <2>1. queue[s] \in Seq(Tickets) /\ Injective(queue[s])
    BY <1>1 DEF Typing, RowsSound, QueueSound
  <2>2. ASSUME NEW r \in Services, NEW x \in Tickets, Enqueued(r, x)
        PROVE  x # t /\ Enqueued(r, x)'
    BY <1>3, <1>4, <1>7, <2>2 DEF Enqueued, Moved
  <2>3. \A i \in DOMAIN queue[s] : queue[s][i] \in Tickets /\ Enqueued(s, queue[s][i])
    BY <1>1, <2>1 DEF RowsSound, QueueSound
  <2>4. \A i \in DOMAIN queue[s] : queue[s][i] # t
    BY <1>4, <2>3 DEF Enqueued
  <2>5. q \in Seq(Tickets) /\ Injective(q)
    BY <2>1, <2>4, AppendStaysInjective
  <2>6. Enqueued(s, t)'
    BY <1>3, <1>5, <1>6, <1>7 DEF Enqueued, Moved
  <2>7. \A x \in Tickets : (\E i \in DOMAIN q : q[i] = x) => x = t \/ Enqueued(s, x)
    <3>1. /\ DOMAIN q = 1 .. Len(queue[s]) + 1 /\ DOMAIN queue[s] = 1 .. Len(queue[s])
          /\ Len(queue[s]) \in Nat /\ \A i \in 1 .. Len(queue[s]) : q[i] = queue[s][i]
          /\ q[Len(queue[s]) + 1] = t
      BY <2>1, AppendEffect
    <3> QED
      BY <2>3, <3>1
  <2>8. queue' = [queue EXCEPT ![s] = q]
    BY <1>7
  <2> HIDE DEF q
  <2>9. \A x \in Tickets : (\E i \in DOMAIN q : q[i] = x) => Enqueued(s, x)'
    BY <2>2, <2>6, <2>7
  <2>10. QueueSound'
    BY <1>1, <2>2, <2>5, <2>8, <2>9, QueueChanged DEF RowsSound
  <2> QED
    BY <1>1, <2>5, <2>8, <2>10, QueueTyped
<1>10. RowsSound'
  <2>1. BookSound'
    BY <1>1, <1>7, <1>8, BookKept DEF RowsSound
  <2>2. \A x \in Tickets : CreatingSound(x)'
    BY <1>1, <1>2, <1>3, <1>5, <1>7, CreatingKept DEF RowsSound
  <2> QED
    BY <1>9, <2>1, <2>2 DEF RowsSound
<1>11. Typing'
  BY <1>1, <1>3, <1>7, <1>9 DEF Typing, Moved
<1>12. NumbersSound'
  BY <1>1, <1>7, <1>8, NumbersKept DEF RowsSound
<1>13. DatesSound(t)'
  <2>1. /\ tickets'[t].status = "WAITING" /\ tickets'[t].called = tickets[t].called
        /\ tickets'[t].created = tickets[t].created /\ tickets'[t].served = tickets[t].served
        /\ tickets'[t].done = tickets[t].done
    BY <1>3, <1>4 DEF Ticket
  <2> QED
    BY <1>1, <1>4, <1>7, <2>1 DEF DatesSound
<1>14. \A x \in Tickets : DatesSound(x)'
  BY <1>1, <1>3, <1>7, <1>13, DatesKept
<1> QED
  BY <1>3, <1>10, <1>11, <1>12, <1>14 DEF TableInv

-----------------------------------------------------------------------------
(* The creation of a ticket.                                               *)

\* There is a number left for a ticket that is not in the table.
LEMMA NextSequenceType ==
  ASSUME Typing, NEW t \in Tickets, ~Born(t), NEW s
  PROVE  NextSequence(s) \in Numbers
<1> DEFINE counted == {x \in Tickets :
                         InDay(x, Day(now)) /\ PrefixOf[tickets[x].service] = PrefixOf[s]}
<1>1. IsFiniteSet(Tickets) /\ Cardinality(Tickets) \in Nat
  BY DayBookAssumption, FS_CardinalityType
<1>2. counted \in SUBSET (Tickets \ {t})
  BY DEF InDay, Born
<1>3. /\ IsFiniteSet(Tickets \ {t})
      /\ Cardinality(Tickets \ {t}) = Cardinality(Tickets) - 1
  BY <1>1, FS_RemoveElement
<1>4. /\ IsFiniteSet(counted) /\ Cardinality(counted) <= Cardinality(Tickets) - 1
      /\ Cardinality(counted) \in Nat
  BY <1>2, <1>3, FS_Subset, FS_CardinalityType
<1>5. NextSequence(s) = Cardinality(counted) + 1
  BY DEF NextSequence
<1> QED
  BY <1>1, <1>4, <1>5 DEF Numbers

LEMMA TakeNumberKeepsTable ==
  ASSUME TableInv, NEW t \in Tickets, NEW u \in Users, NEW s \in Services, TakeNumber(t, u, s)
  PROVE  TableInv'
<1> DEFINE new == [pc |-> "insert", user |-> u, service |-> s, sequence |-> NextSequence(s)]
<1>1. Typing /\ RowsSound /\ NumbersSound /\ \A x \in Tickets : DatesSound(x)
  BY DEF TableInv
<1>2. /\ tickets[t] = NoTicket /\ ~Born(t) /\ At(t, "none")
      /\ creating' = [creating EXCEPT ![t] = new]
      /\ now' = now /\ settings' = settings /\ tickets' = tickets /\ book' = book
      /\ queue' = queue /\ log' = log /\ crowded' = crowded /\ notices' = notices
      /\ accepted' = accepted /\ unsaved' = unsaved /\ desk' = desk
  BY DEF TakeNumber, Born, NoTicket, rowVars, noticeVars
<1>3. new \in Creating /\ NextSequence(s) \in Numbers
  BY <1>1, <1>2, NextSequenceType DEF Creating
<1>4. creating'[t] = new /\ \A x \in Tickets \ {t} : creating'[x] = creating[x]
  BY <1>1, <1>2 DEF Typing
<1>5. Typing'
  BY <1>1, <1>2, <1>3 DEF Typing
<1>6. SameOrigin
  BY <1>2, SameTickets
<1>7. RowsSound'
  <2>1. BookSound'
    BY <1>1, <1>2, <1>6, BookKept DEF RowsSound
  <2>2. ASSUME NEW r \in Services, NEW x \in Tickets, Enqueued(r, x)
        PROVE  Enqueued(r, x)'
    <3>1. x # t
      BY <1>2, <2>2 DEF Enqueued, NoTicket, UNBORN
    <3> QED
      BY <1>2, <1>4, <2>2, <3>1 DEF Enqueued
  <2>3. QueueSound'
    BY <1>1, <1>2, <2>2, QueueKept DEF RowsSound
  <2>4. \A x \in Tickets : CreatingSound(x)'
    BY <1>1, <1>2, <1>3, <1>4 DEF RowsSound, CreatingSound, At, Born
  <2> QED
    BY <2>1, <2>3, <2>4 DEF RowsSound
<1>8. NumbersSound'
  <2>1. NumberIsRank'
    BY <1>1, <1>2, <1>6, RanksKept DEF RowsSound, NumbersSound
  <2>2. \A r : NextSequence(r)' = NextSequence(r)
    BY <1>2, <1>6, CountKept
  <2>3. CountValid(t)'
    BY <1>4, <2>2 DEF CountValid
  <2>4. \A x \in Tickets \ {t} : CountValid(x)'
    BY <1>1, <1>2, <1>4, <2>2 DEF NumbersSound, CountValid, At
  <2> QED
    BY <2>1, <2>3, <2>4 DEF NumbersSound
<1>9. \A x \in Tickets : DatesSound(x)'
  BY <1>1, <1>2 DEF DatesSound, Born
<1> QED
  BY <1>5, <1>7, <1>8, <1>9 DEF TableInv

\* The tickets of a day and a prefix, and their places in the book: there are
\* as many of these as of those.
Alike(d, p) == {x \in Tickets : InDay(x, d) /\ PrefixOf[tickets[x].service] = p}
Places(d, p) == {j \in DOMAIN book : InDay(book[j], d) /\ PrefixOf[tickets[book[j]].service] = p}

LEMMA PlacesCount ==
  ASSUME Typing, BookSound, NEW d, NEW p
  PROVE  /\ IsFiniteSet(Places(d, p)) /\ Cardinality(Alike(d, p)) \in Nat
         /\ Cardinality(Places(d, p)) = Cardinality(Alike(d, p))
<1> DEFINE K == Places(d, p)
           C == Alike(d, p)
           f == [j \in K |-> book[j]]
<1>1. /\ DOMAIN book = 1 .. Len(book) /\ Len(book) \in Nat /\ IsFiniteSet(1 .. Len(book))
      /\ \A j \in DOMAIN book : book[j] \in Tickets
  BY LenProperties, FS_Interval DEF Typing
<1>2. IsFiniteSet(K) /\ Cardinality(K) \in Nat
  BY <1>1, FS_Subset, FS_CardinalityType DEF Places
<1>3. f \in [K -> C]
  BY <1>1 DEF Places, Alike
<1>4. \A i, j \in K : f[i] = f[j] => i = j
  BY DEF BookSound, Injective, Places
<1>5. \A x \in C : \E j \in K : f[j] = x
  <2> TAKE x \in C
  <2>1. x \in Tickets /\ Born(x)
    BY DEF InDay, Born, Alike
  <2>2. PICK j \in DOMAIN book : book[j] = x
    BY <2>1 DEF BookSound
  <2> QED
    BY <2>2 DEF Places, Alike
<1>6. f \in Bijection(K, C)
  BY <1>3, <1>4, <1>5 DEF Bijection, Injection, Surjection, IsInjective
<1>7. Cardinality(C) = Cardinality(K)
  BY <1>2, <1>6, FS_Bijection DEF ExistsBijection
<1> QED
  BY <1>2, <1>7

LEMMA InsertEffect ==
  ASSUME TableInv, NEW t \in Tickets, Insert(t)
  PROVE  /\ ~Born(t) /\ At(t, "insert") /\ creating[t].service \in Services
         /\ tickets' \in [Tickets -> Ticket \cup {NoTicket}] /\ tickets'[t] \in Ticket
         /\ tickets'[t].status = "WAITING" /\ tickets'[t].service = creating[t].service
         /\ tickets'[t].sequence = creating[t].sequence /\ tickets'[t].created = now
         /\ tickets'[t].called = None /\ tickets'[t].served = None /\ tickets'[t].done = None
         /\ \A x \in Tickets \ {t} : tickets'[x] = tickets[x]
         /\ book' = Append(book, t)
         /\ crowded' = crowded \cup
              {x \in Tickets \ {t} : /\ At(x, "insert")
                                     /\ PrefixOf[creating[x].service] = PrefixOf[creating[t].service]}
         /\ creating' \in [Tickets -> Creating]
         /\ creating'[t].pc = "log" /\ creating'[t].service = creating[t].service
         /\ \A x \in Tickets \ {t} : creating'[x] = creating[x]
         /\ now' = now /\ settings' = settings /\ queue' = queue /\ log' = log
         /\ notices' = notices /\ accepted' = accepted /\ unsaved' = unsaved /\ desk' = desk
<1> DEFINE row == [NoTicket EXCEPT !.status = "WAITING", !.user = creating[t].user,
                     !.service = creating[t].service, !.sequence = creating[t].sequence,
                     !.created = now]
<1>1. At(t, "insert") /\ Typing /\ CreatingSound(t)
  BY DEF Insert, TableInv, RowsSound
<1>2. /\ ~Born(t) /\ creating[t].user \in Users /\ creating[t].service \in Services
      /\ creating[t].sequence \in Numbers /\ now \in Time
  BY <1>1 DEF CreatingSound, Typing
<1>3. row \in Ticket
  BY <1>2 DEF Ticket, NoTicket, TicketStatus
<1>4. /\ row.status = "WAITING" /\ row.service = creating[t].service
      /\ row.sequence = creating[t].sequence /\ row.created = now
      /\ row.called = None /\ row.served = None /\ row.done = None
  BY DEF NoTicket
<1>5. tickets' = [tickets EXCEPT ![t] = row]
  BY DEF Insert
<1> HIDE DEF row
<1>6. /\ tickets' \in [Tickets -> Ticket \cup {NoTicket}] /\ tickets'[t] = row
      /\ \A x \in Tickets \ {t} : tickets'[x] = tickets[x]
  BY <1>1, <1>3, <1>5 DEF Typing
<1>7. /\ creating' \in [Tickets -> Creating]
      /\ creating'[t].pc = "log" /\ creating'[t].service = creating[t].service
      /\ \A x \in Tickets \ {t} : creating'[x] = creating[x]
  BY <1>1 DEF Insert, Typing, Creating
<1> QED
  BY <1>1, <1>2, <1>3, <1>4, <1>6, <1>7 DEF Insert, noticeVars

LEMMA InsertKeepsNumbers ==
  ASSUME TableInv, NEW t \in Tickets, Insert(t)
  PROVE  NumbersSound'
<1> DEFINE s == creating[t].service
           n == Len(book)
<1>1. Typing /\ BookSound /\ NumbersSound
  BY DEF TableInv, RowsSound
<1>2. /\ ~Born(t) /\ At(t, "insert") /\ s \in Services
      /\ tickets'[t].status = "WAITING" /\ tickets'[t].service = s
      /\ tickets'[t].sequence = creating[t].sequence /\ tickets'[t].created = now
      /\ \A x \in Tickets \ {t} : tickets'[x] = tickets[x]
      /\ book' = Append(book, t) /\ now' = now
      /\ crowded' = crowded \cup {x \in Tickets \ {t} :
                       At(x, "insert") /\ PrefixOf[creating[x].service] = PrefixOf[s]}
      /\ creating'[t].pc = "log"
      /\ \A x \in Tickets \ {t} : creating'[x] = creating[x]
  BY InsertEffect
<1>3. /\ n \in Nat /\ DOMAIN book = 1 .. n /\ DOMAIN book' = 1 .. n + 1
      /\ \A i \in 1 .. n : book'[i] = book[i]
      /\ book'[n + 1] = t
  BY <1>1, <1>2, AppendEffect DEF Typing
<1>4. \A i \in 1 .. n : book[i] \in Tickets /\ book[i] # t /\ Born(book[i])
  BY <1>1, <1>2, <1>3 DEF Typing, BookSound
<1>5. ASSUME NEW x \in Tickets, At(x, "insert")', x \notin crowded'
      PROVE  creating'[x].sequence = NextSequence(creating[x].service)'
  <2>1. /\ x # t /\ creating'[x] = creating[x] /\ At(x, "insert") /\ x \notin crowded
        /\ PrefixOf[creating[x].service] # PrefixOf[s]
    BY <1>2, <1>5 DEF At
  <2>2. \A r : PrefixOf[r] # PrefixOf[s] => NextSequence(r)' = NextSequence(r)
    <3> TAKE r
    <3> HAVE PrefixOf[r] # PrefixOf[s]
    <3>1. {y \in Tickets : InDay(y, Day(now))' /\ PrefixOf[tickets'[y].service] = PrefixOf[r]}
          = {y \in Tickets : InDay(y, Day(now)) /\ PrefixOf[tickets[y].service] = PrefixOf[r]}
      BY <1>2 DEF InDay, Day, Born
    <3> QED
      BY <3>1 DEF NextSequence
  <2> QED
    BY <1>1, <2>1, <2>2 DEF NumbersSound, CountValid
<1>6. ASSUME NEW i \in 1 .. n, book[i] \notin crowded'
      PROVE  tickets'[book[i]].sequence = Cardinality(Peers(i)')
  <2>1. tickets[book[i]].sequence = Cardinality(Peers(i))
    BY <1>1, <1>2, <1>3, <1>6 DEF NumbersSound, NumberIsRank, Peers
  <2>2. \A j \in 1 .. i : j \in 1 .. n /\ tickets'[book[j]] = tickets[book[j]] /\ book'[j] = book[j]
    BY <1>2, <1>3, <1>4
  <2>3. Peers(i)' = Peers(i)
    BY <1>3, <2>2 DEF Peers, InDay
  <2> QED
    BY <1>2, <1>4, <2>1, <2>3
<1>7. ASSUME t \notin crowded'
      PROVE  tickets'[t].sequence =
               Cardinality({j \in 1 .. n + 1 :
                 /\ InDay(book[j], Day(tickets[t].created))'
                 /\ PrefixOf[tickets'[book'[j]].service] = PrefixOf[s]})
  <2> DEFINE K == Places(Day(now), PrefixOf[s])
             C == Alike(Day(now), PrefixOf[s])
             J == {j \in 1 .. n + 1 : /\ InDay(book[j], Day(tickets[t].created))'
                                      /\ PrefixOf[tickets'[book'[j]].service] = PrefixOf[s]}
  <2>1. creating[t].sequence = Cardinality(C) + 1
    BY <1>1, <1>2, <1>7 DEF NumbersSound, CountValid, NextSequence, Alike
  <2>2. IsFiniteSet(K) /\ Cardinality(K) = Cardinality(C) /\ Cardinality(C) \in Nat
    BY <1>1, PlacesCount
  <2>3. \A j \in 1 .. n : j \in J <=> j \in K
    BY <1>2, <1>3, <1>4 DEF InDay, Places
  <2>4. n + 1 \in J
    BY <1>2, <1>3 DEF InDay, UNBORN
  <2>5. J = K \cup {n + 1} /\ n + 1 \notin K
    <3>1. \A j \in 1 .. n + 1 : j \in 1 .. n \/ j = n + 1
      BY <1>3
    <3>2. J \subseteq 1 .. n + 1 /\ K \subseteq 1 .. n
      BY <1>3 DEF Places
    <3>3. n + 1 \notin 1 .. n /\ 1 .. n \subseteq 1 .. n + 1
      BY <1>3
    <3> HIDE DEF J, K
    <3> QED
      BY <2>3, <2>4, <3>1, <3>2, <3>3
  <2>6. Cardinality(J) = Cardinality(K) + 1
    BY <2>2, <2>5, FS_AddElement
  <2> QED
    BY <1>2, <2>1, <2>2, <2>6
<1>8. NumberIsRank'
  <2> SUFFICES ASSUME NEW i \in DOMAIN book', book'[i] \notin crowded'
               PROVE  tickets'[book'[i]].sequence = Cardinality(Peers(i)')
    BY DEF NumberIsRank, Peers
  <2>1. CASE i \in 1 .. n
    BY <1>3, <1>6, <2>1
  <2>2. CASE i = n + 1
    <3>1. Peers(i)' = {j \in 1 .. n + 1 :
                 /\ InDay(book[j], Day(tickets[t].created))'
                 /\ PrefixOf[tickets'[book'[j]].service] = PrefixOf[s]}
      BY <1>2, <1>3, <2>2 DEF Peers, InDay
    <3> QED
      BY <1>3, <1>7, <2>2, <3>1
  <2> QED
    BY <1>3, <2>1, <2>2
<1> QED
  BY <1>5, <1>8 DEF NumbersSound, CountValid

LEMMA InsertKeepsTable ==
  ASSUME TableInv, NEW t \in Tickets, Insert(t)
  PROVE  TableInv'
<1>1. Typing /\ RowsSound /\ \A x \in Tickets : DatesSound(x)
  BY DEF TableInv
<1>2. /\ ~Born(t) /\ At(t, "insert") /\ tickets'[t] \in Ticket
      /\ tickets' \in [Tickets -> Ticket \cup {NoTicket}]
      /\ tickets'[t].status = "WAITING" /\ tickets'[t].service = creating[t].service
      /\ tickets'[t].created = now /\ tickets'[t].called = None
      /\ tickets'[t].served = None /\ tickets'[t].done = None
      /\ \A x \in Tickets \ {t} : tickets'[x] = tickets[x]
      /\ book' = Append(book, t) /\ crowded' \in SUBSET Tickets
      /\ creating' \in [Tickets -> Creating]
      /\ creating'[t].pc = "log" /\ creating'[t].service = creating[t].service
      /\ \A x \in Tickets \ {t} : creating'[x] = creating[x]
      /\ now' = now /\ settings' = settings /\ queue' = queue /\ log' = log
      /\ notices' = notices /\ accepted' = accepted /\ unsaved' = unsaved /\ desk' = desk
  BY <1>1, InsertEffect DEF Typing
<1>3. /\ Len(book) \in Nat /\ DOMAIN book = 1 .. Len(book) /\ DOMAIN book' = 1 .. Len(book) + 1
      /\ \A i \in 1 .. Len(book) : book'[i] = book[i] /\ book[i] \in Tickets
      /\ book'[Len(book) + 1] = t /\ book' \in Seq(Tickets)
  BY <1>1, <1>2, AppendEffect DEF Typing
<1>4. Born(t)' /\ \A x \in Tickets \ {t} : Born(x)' <=> Born(x)
  BY <1>2 DEF Born, UNBORN
<1>5. Typing'
  BY <1>1, <1>2, <1>3 DEF Typing
<1>6. BookSound'
  <2>1. \A i \in DOMAIN book : book[i] # t
    BY <1>1, <1>2 DEF RowsSound, BookSound
  <2>2. Injective(book')
    BY <1>1, <1>2, <2>1, AppendStaysInjective DEF Typing, RowsSound, BookSound
  <2>3. \A x \in Tickets : Born(x)' <=> \E i \in DOMAIN book' : book'[i] = x
    BY <1>1, <1>3, <1>4, <2>1 DEF RowsSound, BookSound
  <2> QED
    BY <2>2, <2>3 DEF BookSound, Injective
<1>7. QueueSound'
  <2>1. ASSUME NEW r \in Services, NEW x \in Tickets, Enqueued(r, x)
        PROVE  Enqueued(r, x)'
    BY <1>2, <2>1 DEF Enqueued, At
  <2> QED
    BY <1>1, <1>2, <2>1, QueueKept DEF RowsSound
<1>8. ASSUME NEW x \in Tickets PROVE CreatingSound(x)'
  <2>1. CASE x = t
    BY <1>2, <1>4, <2>1 DEF CreatingSound, At
  <2>2. CASE x # t
    BY <1>1, <1>2, <1>4, <2>2 DEF RowsSound, CreatingSound, At
  <2> QED
    BY <2>1, <2>2
<1>9. ASSUME NEW x \in Tickets PROVE DatesSound(x)'
  <2>1. CASE x = t
    BY <1>1, <1>2, <2>1, TimeIsInt DEF DatesSound, Typing
  <2>2. CASE x # t
    BY <1>1, <1>2, <1>4, <2>2 DEF DatesSound
  <2> QED
    BY <2>1, <2>2
<1> QED
  BY <1>5, <1>6, <1>7, <1>8, <1>9, InsertKeepsNumbers DEF TableInv, RowsSound

\* The audit row of a creation, the enqueuing and the estimate write neither
\* the dates nor the origin of a ticket.
LEMMA LogCreationKeepsTable ==
  ASSUME TableInv, NEW t \in Tickets, LogCreation(t)
  PROVE  /\ TableInv'
         /\ \A x \in Tickets : Calls(x) \in Nat /\ Calls(x)' = Calls(x)
<1>1. Typing /\ RowsSound /\ NumbersSound /\ \A x \in Tickets : DatesSound(x)
  BY DEF TableInv
<1>2. /\ creating[t].pc = "log" /\ log' = Append(log, LogRow(t, "CREATED", None))
      /\ creating' = [creating EXCEPT ![t].pc = "enqueue"]
      /\ now' = now /\ settings' = settings /\ tickets' = tickets /\ book' = book
      /\ queue' = queue /\ crowded' = crowded /\ notices' = notices
      /\ accepted' = accepted /\ unsaved' = unsaved /\ desk' = desk
  BY DEF LogCreation, At, noticeVars
<1>3. Born(t)
  BY <1>1, <1>2 DEF RowsSound, CreatingSound
<1>4. LogRow(t, "CREATED", None) \in Row /\ LogRow(t, "CREATED", None).action = "CREATED"
  BY <1>1, <1>3, LogRowType DEF Actions, LogRow
<1>5. log' \in Seq(Row) /\ \A x \in Tickets : Calls(x) \in Nat /\ Calls(x)' = Calls(x)
  <2>1. log \in Seq(Row)
    BY <1>1 DEF Typing
  <2>2. log' \in Seq(Row)
    BY <1>2, <1>4, <2>1, AppendEffect
  <2>3. ASSUME NEW x \in Tickets PROVE Calls(x) \in Nat /\ Calls(x)' = Calls(x)
    BY <1>2, <1>4, <2>1, CallsType, CallsAppend
  <2> QED
    BY <2>2, <2>3
<1>6. /\ creating' \in [Tickets -> Creating] /\ creating'[t].pc = "enqueue"
      /\ creating'[t].service = creating[t].service
      /\ \A x \in Tickets \ {t} : creating'[x] = creating[x]
  BY <1>1, <1>2 DEF Typing, Creating
<1>7. Typing'
  BY <1>1, <1>2, <1>5, <1>6 DEF Typing
<1>8. SameOrigin
  BY <1>2, SameTickets
<1>9. RowsSound'
  <2>1. BookSound'
    BY <1>1, <1>2, <1>8, BookKept DEF RowsSound
  <2>2. ASSUME NEW r \in Services, NEW x \in Tickets, Enqueued(r, x)
        PROVE  Enqueued(r, x)'
    BY <1>2, <1>6, <2>2 DEF Enqueued
  <2>3. QueueSound'
    BY <1>1, <1>2, <2>2, QueueKept DEF RowsSound
  <2>4. \A x \in Tickets : CreatingSound(x)'
    BY <1>1, <1>2, <1>6 DEF RowsSound, CreatingSound, At, Born
  <2> QED
    BY <2>1, <2>3, <2>4 DEF RowsSound
<1>10. NumbersSound'
  BY <1>1, <1>2, <1>6, <1>8, NumbersKept DEF RowsSound, At
<1>11. \A x \in Tickets : DatesSound(x)'
  BY <1>1, <1>2 DEF DatesSound, Born
<1> QED
  BY <1>5, <1>7, <1>9, <1>10, <1>11 DEF TableInv

LEMMA EnqueueKeepsTable ==
  ASSUME TableInv, NEW t \in Tickets, Enqueue(t)
  PROVE  TableInv'
<1>1. Typing /\ RowsSound /\ NumbersSound /\ \A x \in Tickets : DatesSound(x)
  BY DEF TableInv
<1>2. creating[t].pc = "enqueue" /\ Born(t) /\ creating[t].service = tickets[t].service
      /\ tickets[t].status \in {"WAITING", "CANCELLED"} /\ tickets[t] \in Ticket
  BY <1>1, BornIsTicket DEF Enqueue, At, RowsSound, CreatingSound
<1>3. PICK s \in Services : s = creating[t].service
  BY <1>2, TicketFields
<1>4. /\ creating' = [creating EXCEPT ![t].pc = "rank"]
      /\ queue' = [queue EXCEPT ![s] = Append(queue[s], t)]
      /\ now' = now /\ settings' = settings /\ tickets' = tickets /\ book' = book
      /\ log' = log /\ crowded' = crowded /\ notices' = notices
      /\ accepted' = accepted /\ unsaved' = unsaved /\ desk' = desk
  BY <1>3 DEF Enqueue, noticeVars
<1>5. /\ creating' \in [Tickets -> Creating] /\ creating'[t].pc = "rank"
      /\ creating'[t].service = creating[t].service
      /\ \A x \in Tickets \ {t} : creating'[x] = creating[x]
  BY <1>1, <1>4 DEF Typing, Creating
<1>6. QueueSound' /\ queue' \in [Services -> Seq(Tickets)]
  <2> DEFINE q == Append(queue[s], t)
  <2>1. queue[s] \in Seq(Tickets) /\ Injective(queue[s])
    BY <1>1 DEF Typing, RowsSound, QueueSound
  <2>2. ASSUME NEW r \in Services, NEW x \in Tickets, Enqueued(r, x)
        PROVE  x # t /\ Enqueued(r, x)'
    BY <1>2, <1>4, <1>5, <2>2 DEF Enqueued
  <2>3. \A i \in DOMAIN queue[s] : queue[s][i] \in Tickets /\ Enqueued(s, queue[s][i])
    BY <1>1, <2>1 DEF RowsSound, QueueSound
  <2>4. \A i \in DOMAIN queue[s] : queue[s][i] # t
    BY <1>2, <2>3 DEF Enqueued
  <2>5. q \in Seq(Tickets) /\ Injective(q)
    BY <2>1, <2>4, AppendStaysInjective
  <2>6. Enqueued(s, t)'
    BY <1>2, <1>3, <1>4, <1>5 DEF Enqueued
  <2>7. \A x \in Tickets : (\E i \in DOMAIN q : q[i] = x) => x = t \/ Enqueued(s, x)
    <3>1. /\ DOMAIN q = 1 .. Len(queue[s]) + 1 /\ DOMAIN queue[s] = 1 .. Len(queue[s])
          /\ Len(queue[s]) \in Nat /\ \A i \in 1 .. Len(queue[s]) : q[i] = queue[s][i]
          /\ q[Len(queue[s]) + 1] = t
      BY <2>1, AppendEffect
    <3> QED
      BY <2>3, <3>1
  <2>8. queue' = [queue EXCEPT ![s] = q]
    BY <1>4
  <2> HIDE DEF q
  <2>9. \A x \in Tickets : (\E i \in DOMAIN q : q[i] = x) => Enqueued(s, x)'
    BY <2>2, <2>6, <2>7
  <2>10. QueueSound'
    BY <1>1, <2>2, <2>5, <2>8, <2>9, QueueChanged DEF RowsSound
  <2> QED
    BY <1>1, <2>5, <2>8, <2>10, QueueTyped
<1>7. Typing'
  BY <1>1, <1>4, <1>5, <1>6 DEF Typing
<1>8. SameOrigin
  BY <1>4, SameTickets
<1>9. RowsSound'
  <2>1. BookSound'
    BY <1>1, <1>4, <1>8, BookKept DEF RowsSound
  <2>2. \A x \in Tickets : CreatingSound(x)'
    BY <1>1, <1>2, <1>4, <1>5 DEF RowsSound, CreatingSound, At, Born
  <2> QED
    BY <1>6, <2>1, <2>2 DEF RowsSound
<1>10. NumbersSound'
  BY <1>1, <1>4, <1>5, <1>8, NumbersKept DEF RowsSound, At
<1>11. \A x \in Tickets : DatesSound(x)'
  BY <1>1, <1>4 DEF DatesSound, Born
<1> QED
  BY <1>7, <1>9, <1>10, <1>11 DEF TableInv

\* A rank is a place in the queue, counted from 0.
LEMMA RankType ==
  ASSUME Typing, QueueSound, NEW t \in Tickets, Born(t)
  PROVE  /\ Rank(t) = None \/ Rank(t) \in 0 .. Len(queue[tickets[t].service]) - 1
         /\ Len(queue[tickets[t].service]) \in Nat
<1> DEFINE q == queue[tickets[t].service]
<1>1. tickets[t].service \in Services
  BY BornIsTicket, TicketFields
<1>2. /\ q \in Seq(Tickets) /\ Injective(q) /\ DOMAIN q = 1 .. Len(q) /\ Len(q) \in Nat
  BY <1>1, LenProperties DEF Typing, QueueSound
<1>3. CASE ~ Contains(q, t)
  BY <1>2, <1>3 DEF Rank
<1>4. ASSUME NEW i \in DOMAIN q, q[i] = t
      PROVE  Rank(t) \in 0 .. Len(q) - 1
  <2>1. Contains(q, t)
    BY <1>2, <1>4 DEF Contains
  <2>2. /\ {j \in 1 .. Len(q) : q[j] = t} # {}
        /\ Min({j \in 1 .. Len(q) : q[j] = t}) = i
    BY <1>2, <1>4, PlaceOf
  <2>3. Rank(t) = Cardinality({j \in DOMAIN q : j < i})
    BY <2>1, <2>2 DEF Rank, SelectInSeq
  <2>4. {j \in DOMAIN q : j < i} = 1 .. i - 1
    BY <1>2
  <2>5. Cardinality(1 .. i - 1) = IF 1 > i - 1 THEN 0 ELSE i - 1 - 1 + 1
    <3>1. 1 \in Int /\ i - 1 \in Int
      BY <1>2
    <3> QED
      BY <3>1, FS_Interval
  <2>6. Cardinality(1 .. i - 1) = i - 1
    BY <1>2, <2>5
  <2>7. Rank(t) = i - 1
    BY <2>3, <2>4, <2>6
  <2>8. i - 1 \in 0 .. Len(q) - 1
    BY <1>2
  <2> QED
    BY <2>7, <2>8
<1> QED
  BY <1>2, <1>3, <1>4 DEF Contains

\* The estimate of a position is never negative.
LEMMA EtaType ==
  ASSUME NEW p \in Int
  PROVE  Eta(p) \in Nat
<1>1. (p - 1) * AvgService \in Int
  BY DayBookAssumption
<1> QED
  BY <1>1 DEF Eta

LEMMA EstimateKeepsTable ==
  ASSUME TableInv, NEW t \in Tickets, Estimate(t)
  PROVE  TableInv' /\ \A x \in Tickets : tickets'[x].status = tickets[x].status
<1> DEFINE eta == Eta(PositionAdded(t))
<1>1. Typing /\ RowsSound /\ NumbersSound /\ \A x \in Tickets : DatesSound(x)
  BY DEF TableInv
<1>2. creating[t].pc = "rank" /\ Born(t) /\ tickets[t] \in Ticket
  BY <1>1, BornIsTicket DEF Estimate, At, RowsSound, CreatingSound
<1>3. eta \in Nat
  <2>1. Rank(t) = None \/ Rank(t) \in Int
    BY <1>1, <1>2, RankType DEF RowsSound
  <2>2. PositionAdded(t) \in Int
    BY <2>1 DEF PositionAdded
  <2> QED
    BY <2>2, EtaType
<1>4. /\ tickets' = [tickets EXCEPT ![t].eta = eta]
      /\ creating' = [creating EXCEPT ![t] = NotCreating]
      /\ now' = now /\ settings' = settings /\ book' = book /\ queue' = queue
      /\ log' = log /\ crowded' = crowded /\ notices' = notices
      /\ accepted' = accepted /\ unsaved' = unsaved /\ desk' = desk
  BY DEF Estimate, noticeVars
<1> HIDE DEF eta
<1>5. /\ tickets' \in [Tickets -> Ticket \cup {NoTicket}]
      /\ \A x \in Tickets \ {t} : tickets'[x] = tickets[x]
      /\ tickets'[t].status = tickets[t].status /\ tickets'[t].service = tickets[t].service
      /\ tickets'[t].sequence = tickets[t].sequence /\ tickets'[t].created = tickets[t].created
      /\ tickets'[t].called = tickets[t].called /\ tickets'[t].served = tickets[t].served
      /\ tickets'[t].done = tickets[t].done
  <2>1. tickets \in [Tickets -> Ticket \cup {NoTicket}]
    BY <1>1 DEF Typing
  <2>2. tickets'[t] = [tickets[t] EXCEPT !.eta = eta]
        /\ \A x \in Tickets \ {t} : tickets'[x] = tickets[x]
    BY <1>4, <2>1
  <2>3. [tickets[t] EXCEPT !.eta = eta] \in Ticket
    BY <1>2, <1>3 DEF Ticket
  <2>4. tickets' \in [Tickets -> Ticket \cup {NoTicket}]
    BY <1>4, <2>1, <2>3
  <2> QED
    BY <1>2, <2>2, <2>4 DEF Ticket
<1>6. /\ creating' \in [Tickets -> Creating] /\ creating'[t].pc = "none"
      /\ \A x \in Tickets \ {t} : creating'[x] = creating[x]
  BY <1>1, <1>4 DEF Typing, Creating, NotCreating
<1>7. Typing'
  BY <1>1, <1>4, <1>5, <1>6 DEF Typing
<1>8. SameOrigin
  BY <1>5 DEF SameOrigin, Born
<1>9. RowsSound'
  <2>1. BookSound'
    BY <1>1, <1>4, <1>8, BookKept DEF RowsSound
  <2>2. ASSUME NEW r \in Services, NEW x \in Tickets, Enqueued(r, x)
        PROVE  Enqueued(r, x)'
    BY <1>5, <1>6, <2>2 DEF Enqueued
  <2>3. QueueSound'
    BY <1>1, <1>4, <2>2, QueueKept DEF RowsSound
  <2>4. \A x \in Tickets : CreatingSound(x)'
    BY <1>1, <1>5, <1>6 DEF RowsSound, CreatingSound, At, Born
  <2> QED
    BY <2>1, <2>3, <2>4 DEF RowsSound
<1>10. NumbersSound'
  BY <1>1, <1>4, <1>6, <1>8, NumbersKept DEF RowsSound, At
<1>11. \A x \in Tickets : DatesSound(x)'
  BY <1>1, <1>4, <1>5 DEF DatesSound, Born
<1> QED
  BY <1>5, <1>7, <1>9, <1>10, <1>11 DEF TableInv

-----------------------------------------------------------------------------
(* Time, and the steps that write no table of tickets.                     *)

LEMMA TickKeepsTable ==
  ASSUME TableInv, Tick
  PROVE  TableInv'
<1>1. Typing /\ RowsSound /\ NumbersSound /\ \A x \in Tickets : DatesSound(x)
  BY DEF TableInv
<1>2. /\ now < LastHour /\ now' = now + 1
      /\ crowded' = IF Day(now') = Day(now) THEN crowded
                    ELSE crowded \cup {t \in Tickets : At(t, "insert")}
      /\ settings' = settings /\ tickets' = tickets /\ book' = book /\ queue' = queue
      /\ log' = log /\ creating' = creating /\ notices' = notices
      /\ accepted' = accepted /\ unsaved' = unsaved /\ desk' = desk
  BY DEF Tick, rowVars, noticeVars
<1>3. now \in Nat /\ now' \in Time /\ now <= now'
  BY <1>1, <1>2, DayBookAssumption DEF Typing, Time
<1>4. Typing'
  BY <1>1, <1>2, <1>3 DEF Typing
<1>5. SameOrigin
  BY <1>2, SameTickets
<1>6. RowsSound'
  <2>1. BookSound'
    BY <1>1, <1>2, <1>5, BookKept DEF RowsSound
  <2>2. QueueSound'
    BY <1>1, <1>2, QueueKept DEF RowsSound, Enqueued
  <2>3. \A x \in Tickets : CreatingSound(x)'
    BY <1>1, <1>2 DEF RowsSound, CreatingSound, At, Born
  <2> QED
    BY <2>1, <2>2, <2>3 DEF RowsSound
<1>7. NumbersSound'
  <2>1. NumberIsRank'
    <3>1. crowded \subseteq crowded'
      BY <1>2
    <3> QED
      BY <1>1, <1>2, <1>5, <3>1, RanksKept DEF RowsSound, NumbersSound
  <2>2. CASE Day(now') = Day(now)
    <3>1. \A r : NextSequence(r)' = NextSequence(r)
      BY <1>5, <2>2, CountKept
    <3>2. \A x \in Tickets : CountValid(x)'
      BY <1>1, <1>2, <2>2, <3>1 DEF NumbersSound, CountValid, At
    <3> QED
      BY <2>1, <3>2 DEF NumbersSound
  <2>3. CASE Day(now') # Day(now)
    BY <1>2, <2>1, <2>3 DEF NumbersSound, CountValid, At
  <2> QED
    BY <2>2, <2>3
<1>8. ASSUME NEW x \in Tickets PROVE DatesSound(x)'
  <2> SUFFICES ASSUME Born(x) PROVE DatesSound(x)'
    BY <1>2 DEF DatesSound, Born
  <2>1. tickets[x] \in Ticket
    BY <1>1, BornIsTicket
  <2>2. /\ tickets[x].created \in Nat /\ tickets[x].called \in Nat \cup {None}
        /\ tickets[x].served \in Nat \cup {None}
    BY <2>1, TicketFields, TimeIsInt
  <2>3. DatesSound(x)
    BY <1>1
  <2> QED
    BY <1>2, <1>3, <2>2, <2>3, NoneIsNoNumber DEF DatesSound, Born
<1> QED
  BY <1>4, <1>6, <1>7, <1>8 DEF TableInv

LEMMA NoticesKeepTable ==
  ASSUME TableInv, UNCHANGED <<now, settings, rowVars, creating, crowded>>,
         notices' \in Seq(Notice), accepted' \in Seq(Message), unsaved' \in SUBSET Message,
         desk' \in [Counters -> Notifying]
  PROVE  TableInv'
<1>1. Typing /\ RowsSound /\ NumbersSound /\ \A x \in Tickets : DatesSound(x)
  BY DEF TableInv
<1>2. /\ now' = now /\ settings' = settings /\ tickets' = tickets /\ book' = book
      /\ queue' = queue /\ log' = log /\ creating' = creating /\ crowded' = crowded
  BY DEF rowVars
<1>3. Typing'
  BY <1>1, <1>2 DEF Typing
<1>4. SameOrigin
  BY <1>2, SameTickets
<1>5. RowsSound'
  <2>1. BookSound'
    BY <1>1, <1>2, <1>4, BookKept DEF RowsSound
  <2>2. QueueSound'
    BY <1>1, <1>2, QueueKept DEF RowsSound, Enqueued
  <2>3. \A x \in Tickets : CreatingSound(x)'
    BY <1>1, <1>2 DEF RowsSound, CreatingSound, At, Born
  <2> QED
    BY <2>1, <2>2, <2>3 DEF RowsSound
<1>6. NumbersSound'
  BY <1>1, <1>2, <1>4, NumbersKept DEF RowsSound
<1>7. \A x \in Tickets : DatesSound(x)'
  BY <1>1, <1>2 DEF DatesSound, Born
<1> QED
  BY <1>3, <1>5, <1>6, <1>7 DEF TableInv

-----------------------------------------------------------------------------
(* What clients are told: the invariant.                                   *)

\* The messages that have a row, and those that something is known of.
Saved == {notices[i].message : i \in DOMAIN notices}
Told(m) == m \in ToSet(accepted) \cup unsaved \cup Saved

\* A message is of a call that the log has, or of the end of a ticket.
Begot(t, nth, channel) ==
  IF channel = "IN_APP" THEN nth = 0 /\ tickets[t].status = "DONE"
  ELSE nth \in 1 .. Calls(t)

\* The push that may follow an SMS.
FollowUp(c) == [ticket |-> desk[c].ticket, nth |-> desk[c].nth, channel |-> "FCM"]

Busy(c) == desk[c].pc \in {"send", "save"}

\* A counter that notifies is about to send what was never sent, or to save
\* what has no row and is SENT only when it was.
DeskSound(c) ==
  /\ Busy(c) => /\ desk[c].ticket \in Tickets
                /\ Begot(desk[c].ticket, desk[c].nth, desk[c].channel)
  /\ desk[c].pc = "send" => desk[c].channel # "IN_APP" /\ ~Told(MessageOf(c))
  /\ desk[c].pc = "save" =>
       /\ MessageOf(c) \notin Saved
       /\ desk[c].status = "SENT" /\ desk[c].channel # "IN_APP" =>
            settings.development \/ MessageOf(c) \in ToSet(accepted)
  /\ Busy(c) /\ desk[c].channel = "SMS" => ~Told(FollowUp(c))

DesksApart ==
  \A c, d \in Counters :
    Busy(c) /\ Busy(d) /\ c # d => desk[c].ticket # desk[d].ticket \/ desk[c].nth # desk[d].nth

\* The content of NoticesTruthful.
Truthful ==
  /\ Injective(accepted)
  /\ \A i, j \in DOMAIN notices : notices[i].message = notices[j].message => i = j
  /\ \A m \in ToSet(accepted) : m \in Saved \cup unsaved \/ Pending(m)
  /\ \A i \in DOMAIN notices :
       notices[i].status = "SENT" /\ notices[i].message.channel # "IN_APP" =>
         settings.development \/ notices[i].message \in ToSet(accepted)

NoticeInv ==
  /\ \A m \in Message : Told(m) => Begot(m.ticket, m.nth, m.channel)
  /\ \A c \in Counters : DeskSound(c)
  /\ DesksApart /\ Truthful

-----------------------------------------------------------------------------
(* Facts about messages.                                                   *)

LEMMA MessageOfBusy ==
  ASSUME Typing, NEW c \in Counters, DeskSound(c), Busy(c)
  PROVE  /\ desk[c].ticket \in Tickets /\ desk[c].nth \in Nat
         /\ desk[c].channel \in {"SMS", "FCM", "IN_APP"} /\ desk[c].status \in {"SENT", "FAILED"}
         /\ MessageOf(c) \in Message
         /\ MessageOf(c).ticket = desk[c].ticket /\ MessageOf(c).nth = desk[c].nth
         /\ MessageOf(c).channel = desk[c].channel
         /\ FollowUp(c) \in Message
         /\ FollowUp(c).ticket = desk[c].ticket /\ FollowUp(c).nth = desk[c].nth
         /\ FollowUp(c).channel = "FCM"
<1>1. desk[c] \in Notifying
  BY DEF Typing
<1>2. /\ desk[c].nth \in Nat /\ desk[c].channel \in {"SMS", "FCM", "IN_APP"}
      /\ desk[c].status \in {"SENT", "FAILED"}
  BY <1>1 DEF Notifying
<1> QED
  BY <1>2 DEF DeskSound, MessageOf, FollowUp, Message

\* The messages of two counters are different.
LEMMA MessagesApart ==
  ASSUME Typing, NoticeInv, NEW c \in Counters, NEW d \in Counters, c # d, Busy(c), Busy(d)
  PROVE  MessageOf(d) # MessageOf(c) /\ FollowUp(d) # MessageOf(c)
<1>1. DeskSound(c) /\ DeskSound(d)
  BY DEF NoticeInv
<1>2. desk[c].ticket # desk[d].ticket \/ desk[c].nth # desk[d].nth
  BY DEF NoticeInv, DesksApart
<1> QED
  BY <1>1, <1>2, MessageOfBusy

\* A message stays one of a call or of an end.
LEMMA BegotStays ==
  ASSUME NEW t \in Tickets, Calls(t) \in Nat, Calls(t)' \in Nat, Calls(t) <= Calls(t)',
         tickets[t].status = "DONE" => tickets'[t].status = "DONE",
         NEW nth, NEW channel, Begot(t, nth, channel)
  PROVE  Begot(t, nth, channel)'
<1>1. CASE channel = "IN_APP"
  BY <1>1 DEF Begot
<1>2. CASE channel # "IN_APP"
  <2>1. nth \in 1 .. Calls(t)
    BY <1>2 DEF Begot
  <2> HIDE DEF Calls
  <2>2. nth \in 1 .. Calls(t)'
    BY <2>1
  <2> QED
    BY <1>2, <2>2 DEF Begot
<1> QED
  BY <1>1, <1>2

\* The calls and the ended tickets after a step.
CallsGrow ==
  \A x \in Tickets :
    /\ Calls(x) \in Nat /\ Calls(x)' \in Nat /\ Calls(x) <= Calls(x)'
    /\ tickets[x].status = "DONE" => tickets'[x].status = "DONE"

LEMMA CallsUnchanged ==
  ASSUME Typing, UNCHANGED log,
         \A x \in Tickets : tickets[x].status = "DONE" => tickets'[x].status = "DONE"
  PROVE  CallsGrow
<1>1. ASSUME NEW x \in Tickets
      PROVE  Calls(x) \in Nat /\ Calls(x)' = Calls(x)
  <2>1. Calls(x) \in Nat
    BY CallsType DEF Typing
  <2> QED
    BY <2>1 DEF Calls
<1> QED
  BY <1>1 DEF CallsGrow

\* What is kept of a counter whose record a step leaves alone, when nothing
\* becomes known of its message.
LEMMA DeskKept ==
  ASSUME Typing, NEW c \in Counters, DeskSound(c), CallsGrow,
         desk'[c] = desk[c], settings' = settings,
         ToSet(accepted) \subseteq ToSet(accepted'),
         \A m \in Message : Told(m)' => Told(m) \/ (Busy(c) => m # MessageOf(c) /\ m # FollowUp(c)),
         \A m \in Message : m \in Saved' => m \in Saved \/ (Busy(c) => m # MessageOf(c))
  PROVE  DeskSound(c)'
<1>1. /\ (Busy(c))' <=> Busy(c)
      /\ (MessageOf(c))' = MessageOf(c) /\ (FollowUp(c))' = FollowUp(c)
  BY DEF Busy, MessageOf, FollowUp
<1>2. CASE ~Busy(c)
  BY <1>1, <1>2 DEF DeskSound, Busy
<1>3. CASE Busy(c)
  <2>1. /\ desk[c].ticket \in Tickets
        /\ Begot(desk[c].ticket, desk[c].nth, desk[c].channel)
        /\ MessageOf(c) \in Message /\ FollowUp(c) \in Message
    BY <1>3, MessageOfBusy DEF DeskSound
  <2>2. \A x \in Tickets : \A nth, channel :
          Begot(x, nth, channel) => Begot(x, nth, channel)'
    BY BegotStays DEF CallsGrow
  <2>3. Begot(desk[c].ticket, desk[c].nth, desk[c].channel)'
    <3>1. \A x \in Tickets : \A nth, channel :
            x = desk[c].ticket /\ nth = desk[c].nth /\ channel = desk[c].channel =>
              Begot(x, nth, channel)'
      BY <2>1, <2>2
    <3> QED
      BY <2>1, <3>1 DEF Begot
  <2>4. \A m \in {MessageOf(c), FollowUp(c)} : Told(m)' => Told(m)
    BY <1>3, <2>1
  <2>5. MessageOf(c) \in Saved' => MessageOf(c) \in Saved
    BY <1>3, <2>1
  <2>6. desk[c].pc = "send" => ~ (Told(MessageOf(c)))'
    BY <1>1, <2>4 DEF DeskSound, Told
  <2>7. desk[c].channel = "SMS" => ~ (Told(FollowUp(c)))'
    BY <1>1, <1>3, <2>4 DEF DeskSound, Told
  <2> QED
    BY <1>1, <1>3, <2>1, <2>3, <2>5, <2>6, <2>7 DEF DeskSound, Busy
<1> QED
  BY <1>2, <1>3

-----------------------------------------------------------------------------
(* The steps on what clients are told.                                     *)

LEMMA BegotMessagesStay ==
  ASSUME Typing, NoticeInv, CallsGrow,
         notices' = notices, accepted' = accepted, unsaved' = unsaved
  PROVE  \A m \in Message : Told(m)' => Begot(m.ticket, m.nth, m.channel)'
<1> SUFFICES ASSUME NEW m \in Message, Told(m)'
             PROVE  Begot(m.ticket, m.nth, m.channel)'
  OBVIOUS
<1>1. Told(m)
  BY DEF Told, Saved
<1>2. Begot(m.ticket, m.nth, m.channel) /\ m.ticket \in Tickets
  BY <1>1 DEF NoticeInv, Message
<1> QED
  BY <1>2, BegotStays DEF CallsGrow

\* A step that leaves the notices, and the counters that notify, alone.
LEMMA NoticesKept ==
  ASSUME Typing, NoticeInv, CallsGrow, settings' = settings,
         notices' = notices, accepted' = accepted, unsaved' = unsaved,
         \A d \in Counters : Busy(d) => desk'[d] = desk[d],
         \A d \in Counters : desk'[d] # desk[d] => DeskSound(d)',
         \A c, d \in Counters :
           desk'[c] # desk[c] /\ Busy(c)' /\ Busy(d) /\ c # d =>
             desk'[d] = desk[d] /\ (desk'[c].ticket # desk[d].ticket \/ desk'[c].nth # desk[d].nth),
         \A c, d \in Counters : desk'[c] # desk[c] /\ desk'[d] # desk[d] => c = d
  PROVE  NoticeInv'
<1>1. \A m \in Message : Told(m)' => Begot(m.ticket, m.nth, m.channel)'
  BY BegotMessagesStay
<1>2. ASSUME NEW c \in Counters, desk'[c] = desk[c]
      PROVE  DeskSound(c)'
  <2>1. DeskSound(c)
    BY DEF NoticeInv
  <2>2. /\ \A m : Told(m)' => Told(m)
        /\ \A m : m \in Saved' => m \in Saved
        /\ ToSet(accepted) \subseteq ToSet(accepted')
    BY DEF Told, Saved
  <2> QED
    BY <1>2, <2>1, <2>2, DeskKept
<1>3. DesksApart'
  <2> SUFFICES ASSUME NEW c \in Counters, NEW d \in Counters, Busy(c)', Busy(d)', c # d
               PROVE  desk'[c].ticket # desk'[d].ticket \/ desk'[c].nth # desk'[d].nth
    BY DEF DesksApart
  <2>1. CASE desk'[c] = desk[c] /\ desk'[d] = desk[d]
    BY <2>1 DEF NoticeInv, DesksApart, Busy
  <2>2. CASE desk'[c] # desk[c]
    BY <2>2 DEF Busy
  <2>3. CASE desk'[d] # desk[d]
    BY <2>3 DEF Busy
  <2> QED
    BY <2>1, <2>2, <2>3
<1>4. Truthful'
  <2>1. \A m : Pending(m) => Pending(m)'
    BY DEF Pending, Busy, MessageOf
  <2>2. ToSet(accepted') = ToSet(accepted) /\ Saved' = Saved
    BY DEF Saved
  <2> QED
    BY <2>1, <2>2 DEF NoticeInv, Truthful, Injective
<1> QED
  BY <1>1, <1>2, <1>3, <1>4 DEF NoticeInv

LEMMA QuietKeepsNotices ==
  ASSUME Typing, NoticeInv, CallsGrow, settings' = settings,
         notices' = notices, accepted' = accepted, unsaved' = unsaved, desk' = desk
  PROVE  NoticeInv'
BY NoticesKept

\* A call of a ticket has a number of its own.
LEMMA CallNextKeepsNotices ==
  ASSUME TableInv, NoticeInv, NEW c \in Counters, NEW s \in Services, CallNext(c, s)
  PROVE  NoticeInv'
<1>1. Typing
  BY DEF TableInv
<1>2. PICK t \in Tickets : Moved(t, "CALLED") /\ t = Head(queue[s])
  BY CallNextKeepsTable
<1>3. Calls(t) \in Nat /\ Calls(t)' = Calls(t) + 1
  <2>1. Calls(t) \in Nat
    BY <1>1, CallsType DEF Typing
  <2> QED
    BY <1>2, <2>1 DEF Moved
<1>4. CallsGrow
  BY <1>1, <1>2, MovedKeeps DEF TicketStatus, CallsGrow
<1>5. /\ Notify(c, t, Calls(t) + 1) /\ desk[c].pc = "idle"
      /\ now' = now /\ settings' = settings /\ notices' = notices
      /\ accepted' = accepted /\ unsaved' = unsaved
  BY <1>2 DEF CallNext
<1>6. PICK n \in Nat : n = Calls(t) + 1
  BY <1>3
<1>7. /\ \A d \in Counters \ {c} : desk'[d] = desk[d]
      /\ \/ desk'[c] = Idle
         \/ /\ desk'[c].pc = "send" /\ desk'[c].ticket = t /\ desk'[c].nth = n
            /\ desk'[c].channel \in {"SMS", "FCM"}
  <2>1. desk \in [Counters -> Notifying]
    BY <1>1 DEF Typing
  <2>2. CASE ~settings.phone /\ ~settings.token
    BY <1>5, <2>1, <2>2 DEF Notify
  <2>3. CASE settings.phone \/ settings.token
    <3>1. PICK ch \in {"SMS", "FCM"} : ch = IF settings.phone THEN "SMS" ELSE "FCM"
      OBVIOUS
    <3>2. desk' = [desk EXCEPT ![c] =
            [Idle EXCEPT !.pc = "send", !.ticket = t, !.nth = n, !.channel = ch]]
      BY <1>5, <1>6, <2>3, <3>1 DEF Notify
    <3>3. desk'[c] = [Idle EXCEPT !.pc = "send", !.ticket = t, !.nth = n, !.channel = ch]
          /\ \A d \in Counters \ {c} : desk'[d] = desk[d]
      BY <2>1, <3>2
    <3> QED
      BY <3>3 DEF Idle
  <2> QED
    BY <2>2, <2>3
<1>8. ASSUME NEW m \in Message, m.ticket = t, m.nth = n, m.channel \in {"SMS", "FCM"}
      PROVE  ~Told(m)
  <2>1. ~Begot(t, n, m.channel)
    <3> HIDE DEF Calls
    <3> QED
      BY <1>3, <1>6, <1>8 DEF Begot
  <2> QED
    BY <1>8, <2>1 DEF NoticeInv
<1>9. Begot(t, n, "SMS")' /\ Begot(t, n, "FCM")'
  <2> HIDE DEF Calls
  <2> QED
    BY <1>3, <1>6 DEF Begot
<1>10. DeskSound(c)'
  <2>1. CASE desk'[c] = Idle
    BY <2>1 DEF DeskSound, Busy, Idle
  <2>2. ASSUME desk'[c].pc = "send", desk'[c].ticket = t, desk'[c].nth = n,
               desk'[c].channel \in {"SMS", "FCM"}
        PROVE  DeskSound(c)'
    <3>1. PICK channel \in {"SMS", "FCM"} : desk'[c].channel = channel
      BY <2>2
    <3>2. (MessageOf(c))' = [ticket |-> t, nth |-> n, channel |-> channel]
          /\ (FollowUp(c))' = [ticket |-> t, nth |-> n, channel |-> "FCM"]
      BY <2>2, <3>1 DEF MessageOf, FollowUp
    <3>3. \A ch \in {"SMS", "FCM"} : ~Told([ticket |-> t, nth |-> n, channel |-> ch])
      BY <1>8 DEF Message
    <3>4. ~(Told(MessageOf(c)))' /\ ~(Told(FollowUp(c)))'
      BY <1>5, <3>2, <3>3 DEF Told, Saved
    <3>5. Begot(desk[c].ticket, desk[c].nth, desk[c].channel)'
      BY <1>9, <2>2, <3>1 DEF Begot
    <3> QED
      BY <2>2, <3>1, <3>4, <3>5 DEF DeskSound
  <2> QED
    BY <1>7, <2>1, <2>2
<1>11. ASSUME NEW d \in Counters, Busy(d), d # c, Busy(c)'
       PROVE  desk'[c].ticket # desk[d].ticket \/ desk'[c].nth # desk[d].nth
  <2>1. desk'[c].ticket = t /\ desk'[c].nth = n
    BY <1>7, <1>11 DEF Busy, Idle
  <2>2. Begot(desk[d].ticket, desk[d].nth, desk[d].channel)
    BY <1>11 DEF NoticeInv, DeskSound
  <2>3. ~Begot(t, n, desk[d].channel)
    <3> HIDE DEF Calls
    <3> QED
      BY <1>3, <1>6 DEF Begot
  <2> QED
    BY <2>1, <2>2, <2>3
<1>12. \A d \in Counters : desk'[d] # desk[d] => d = c /\ ~Busy(d)
  BY <1>5, <1>7 DEF Busy
<1> QED
  BY <1>1, <1>4, <1>5, <1>7, <1>10, <1>11, <1>12, NoticesKept

\* A ticket is done once, so its in-app message is new.
LEMMA CompleteKeepsNotices ==
  ASSUME TableInv, NoticeInv, NEW c \in Counters, NEW t \in Tickets, Complete(c, t)
  PROVE  NoticeInv'
<1>1. Typing
  BY DEF TableInv
<1>2. Moved(t, "DONE")
  BY CompleteKeepsTable
<1>3. CallsGrow /\ tickets[t].status # "DONE" /\ tickets'[t].status = "DONE"
  BY <1>1, <1>2, MovedKeeps DEF TicketStatus, CallsGrow, Moved, MayMove, ALLOWED_TRANSITIONS
<1>4. /\ desk[c].pc = "idle" /\ settings' = settings /\ notices' = notices
      /\ accepted' = accepted /\ unsaved' = unsaved
      /\ \A d \in Counters \ {c} : desk'[d] = desk[d]
      /\ desk'[c].pc = "save" /\ desk'[c].ticket = t /\ desk'[c].nth = 0
      /\ desk'[c].channel = "IN_APP"
  BY <1>1 DEF Complete, Typing, Idle
<1>5. (MessageOf(c))' = [ticket |-> t, nth |-> 0, channel |-> "IN_APP"]
  BY <1>4 DEF MessageOf
<1>6. ~Begot(t, 0, "IN_APP") /\ Begot(t, 0, "IN_APP")'
  BY <1>3 DEF Begot
<1>7. ~Told([ticket |-> t, nth |-> 0, channel |-> "IN_APP"])
  <2>1. [ticket |-> t, nth |-> 0, channel |-> "IN_APP"] \in Message
    BY DEF Message
  <2> QED
    BY <1>6, <2>1 DEF NoticeInv
<1>8. DeskSound(c)'
  <2>1. Begot(desk[c].ticket, desk[c].nth, desk[c].channel)'
    BY <1>4, <1>6 DEF Begot
  <2>2. ~((MessageOf(c))' \in Saved')
    BY <1>4, <1>5, <1>7 DEF Told, Saved
  <2> QED
    BY <1>4, <2>1, <2>2 DEF DeskSound
<1>9. ASSUME NEW d \in Counters, Busy(d), d # c
      PROVE  desk'[c].ticket # desk[d].ticket \/ desk'[c].nth # desk[d].nth
  <2>1. Begot(desk[d].ticket, desk[d].nth, desk[d].channel)
    BY <1>9 DEF NoticeInv, DeskSound
  <2>2. ~Begot(t, 0, desk[d].channel)
    <3>1. 0 \notin 1 .. Calls(t)
      <4>1. Calls(t) \in Nat
        BY <1>3 DEF CallsGrow
      <4> HIDE DEF Calls
      <4> QED
        BY <4>1
    <3> QED
      BY <1>6, <3>1 DEF Begot
  <2> QED
    BY <1>4, <2>1, <2>2
<1>10. \A d \in Counters : desk'[d] # desk[d] => d = c /\ ~Busy(d)
  BY <1>4 DEF Busy
<1> QED
  BY <1>1, <1>3, <1>4, <1>8, <1>9, <1>10, NoticesKept

-----------------------------------------------------------------------------
(* NotificationService.                                                    *)

\* What the steps of NotificationService have in common: they are of one
\* counter, and concern its message.
LEMMA NotifierStep ==
  ASSUME TableInv, NoticeInv, NEW c \in Counters, Busy(c),
         UNCHANGED <<now, settings, rowVars, creating, crowded>>,
         \A d \in Counters \ {c} : desk'[d] = desk[d],
         Busy(c)' => desk'[c].ticket = desk[c].ticket /\ desk'[c].nth = desk[c].nth,
         ToSet(accepted) \subseteq ToSet(accepted'),
         \A m : Told(m)' => Told(m) \/ m = MessageOf(c),
         \A m : m \in Saved' => m \in Saved \/ m = MessageOf(c),
         DeskSound(c)', Truthful'
  PROVE  NoticeInv'
<1>1. Typing /\ DeskSound(c)
  BY DEF TableInv, NoticeInv
<1>2. CallsGrow
  BY <1>1, CallsUnchanged DEF rowVars
<1>3. ASSUME NEW m \in Message, Told(m)'
      PROVE  Begot(m.ticket, m.nth, m.channel)'
  <2>1. Begot(m.ticket, m.nth, m.channel) /\ m.ticket \in Tickets
    <3>1. CASE Told(m)
      BY <3>1 DEF NoticeInv, Message
    <3>2. CASE m = MessageOf(c)
      BY <1>1, <3>2, MessageOfBusy DEF DeskSound
    <3> QED
      BY <1>3, <3>1, <3>2
  <2> QED
    BY <1>2, <2>1, BegotStays DEF CallsGrow
<1>4. ASSUME NEW d \in Counters, d # c
      PROVE  DeskSound(d)'
  <2>1. DeskSound(d) /\ desk'[d] = desk[d]
    BY <1>4 DEF NoticeInv
  <2>2. Busy(d) => MessageOf(d) # MessageOf(c) /\ FollowUp(d) # MessageOf(c)
    BY <1>1, <1>4, MessagesApart
  <2> QED
    BY <1>1, <1>2, <2>1, <2>2, DeskKept
<1>5. DesksApart'
  BY DEF NoticeInv, DesksApart, Busy
<1> QED
  BY <1>3, <1>4, <1>5 DEF NoticeInv

\* What happens to the list of accepted messages and to the rows.
LEMMA AcceptEffect ==
  ASSUME Typing, NEW m \in Message, accepted' = Append(accepted, m)
  PROVE  /\ accepted' \in Seq(Message) /\ ToSet(accepted') = ToSet(accepted) \cup {m}
         /\ Injective(accepted) /\ m \notin ToSet(accepted) => Injective(accepted')
<1>1. accepted \in Seq(Message)
  BY DEF Typing
<1>2. /\ accepted' \in Seq(Message) /\ Len(accepted) \in Nat
      /\ DOMAIN accepted = 1 .. Len(accepted) /\ DOMAIN accepted' = 1 .. Len(accepted) + 1
      /\ \A i \in 1 .. Len(accepted) : accepted'[i] = accepted[i]
      /\ accepted'[Len(accepted) + 1] = m
  BY <1>1, AppendEffect
<1>3. ToSet(accepted') = ToSet(accepted) \cup {m}
  BY <1>2 DEF ToSet
<1>4. Injective(accepted) /\ m \notin ToSet(accepted) => Injective(accepted')
  BY <1>1, AppendStaysInjective DEF ToSet
<1> QED
  BY <1>2, <1>3, <1>4

LEMMA SentEffect ==
  ASSUME Typing, NEW c \in Counters, NEW status \in {"SENT", "FAILED"}, Sent(c, status)
  PROVE  /\ desk' \in [Counters -> Notifying]
         /\ \A d \in Counters \ {c} : desk'[d] = desk[d]
         /\ desk'[c].pc = "save" /\ desk'[c].status = status
         /\ desk'[c].ticket = desk[c].ticket /\ desk'[c].nth = desk[c].nth
         /\ desk'[c].channel = desk[c].channel
         /\ (MessageOf(c))' = MessageOf(c) /\ (FollowUp(c))' = FollowUp(c)
<1>1. desk \in [Counters -> Notifying] /\ desk[c] \in Notifying
  BY DEF Typing
<1>2. desk' = [desk EXCEPT ![c] = [desk[c] EXCEPT !.pc = "save", !.status = status]]
  BY <1>1 DEF Sent
<1>3. [desk[c] EXCEPT !.pc = "save", !.status = status] \in Notifying
  BY <1>1 DEF Notifying
<1>4. desk'[c] = [desk[c] EXCEPT !.pc = "save", !.status = status]
      /\ \A d \in Counters \ {c} : desk'[d] = desk[d]
  BY <1>1, <1>2
<1>5. /\ desk'[c].pc = "save" /\ desk'[c].status = status
      /\ desk'[c].ticket = desk[c].ticket /\ desk'[c].nth = desk[c].nth
      /\ desk'[c].channel = desk[c].channel
  BY <1>1, <1>4 DEF Notifying
<1> QED
  BY <1>1, <1>2, <1>3, <1>4, <1>5 DEF MessageOf, FollowUp

LEMMA NextChannelEffect ==
  ASSUME Typing, NEW c \in Counters, NextChannel(c)
  PROVE  /\ desk' \in [Counters -> Notifying]
         /\ \A d \in Counters \ {c} : desk'[d] = desk[d]
         /\ \/ desk'[c].pc = "idle"
            \/ /\ desk[c].channel = "SMS" /\ desk'[c].pc = "send" /\ desk'[c].channel = "FCM"
               /\ desk'[c].ticket = desk[c].ticket /\ desk'[c].nth = desk[c].nth
               /\ (MessageOf(c))' = FollowUp(c)
<1>1. desk \in [Counters -> Notifying] /\ desk[c] \in Notifying /\ Idle \in Notifying
      /\ Idle.pc = "idle"
  BY DEF Typing, Notifying, Idle
<1>2. CASE desk[c].channel = "SMS" /\ settings.token
  <2> DEFINE next == [desk[c] EXCEPT !.pc = "send", !.channel = "FCM", !.status = "SENT"]
  <2>1. desk' = [desk EXCEPT ![c] = next]
    BY <1>1, <1>2 DEF NextChannel
  <2>2. next \in Notifying /\ next.pc = "send" /\ next.channel = "FCM"
        /\ next.ticket = desk[c].ticket /\ next.nth = desk[c].nth
    BY <1>1 DEF Notifying
  <2> HIDE DEF next
  <2>3. desk' \in [Counters -> Notifying] /\ desk'[c] = next
        /\ \A d \in Counters \ {c} : desk'[d] = desk[d]
    BY <1>1, <2>1, <2>2
  <2> QED
    BY <1>2, <2>2, <2>3 DEF MessageOf, FollowUp
<1>3. CASE ~(desk[c].channel = "SMS" /\ settings.token)
  <2>1. desk' = [desk EXCEPT ![c] = Idle]
    BY <1>1, <1>3 DEF NextChannel
  <2> QED
    BY <1>1, <2>1
<1> QED
  BY <1>2, <1>3

\* A provider is given each message once, and a row that is to say SENT is of
\* a message that it has accepted.
LEMMA SendKeeps ==
  ASSUME TableInv, NoticeInv, NEW c \in Counters, Send(c)
  PROVE  TableInv' /\ NoticeInv'
<1> DEFINE m == MessageOf(c)
<1>1. Typing /\ DeskSound(c) /\ Truthful /\ Busy(c) /\ desk[c].pc = "send"
  BY DEF TableInv, NoticeInv, Send, Busy
<1>2. /\ m \in Message /\ m.channel = desk[c].channel /\ ~Told(m)
      /\ desk[c].channel = "SMS" => ~Told(FollowUp(c))
      /\ desk[c].channel = "SMS" => FollowUp(c) # m
      /\ desk[c].channel # "IN_APP"
      /\ desk[c].ticket \in Tickets /\ Begot(desk[c].ticket, desk[c].nth, desk[c].channel)
  BY <1>1, MessageOfBusy DEF DeskSound
<1>3. /\ UNCHANGED <<now, settings, rowVars, creating, crowded>>
      /\ settings' = settings /\ notices' = notices /\ unsaved' = unsaved /\ Saved' = Saved
  BY DEF Send, Saved
<1>4. Begot(desk[c].ticket, desk[c].nth, desk[c].channel)
        /\ desk'[c].ticket = desk[c].ticket /\ desk'[c].nth = desk[c].nth
        /\ desk'[c].channel = desk[c].channel
      => Begot(desk[c].ticket, desk[c].nth, desk[c].channel)'
  BY <1>3 DEF Begot, Calls, rowVars
<1>5. CASE desk' = [desk EXCEPT ![c] = Idle] /\ accepted' = accepted
  <2>1. /\ desk'[c] = Idle /\ \A d \in Counters \ {c} : desk'[d] = desk[d]
        /\ desk' \in [Counters -> Notifying] /\ Idle.pc = "idle"
    BY <1>1, <1>5 DEF Typing, Notifying, Idle
  <2>2. DeskSound(c)' /\ ~(Busy(c))'
    BY <2>1 DEF DeskSound, Busy
  <2>3. Truthful'
    <3>1. \A x : Pending(x) => Pending(x)'
      BY <1>1, <2>1 DEF Pending, MessageOf
    <3> QED
      BY <1>1, <1>3, <1>5, <3>1 DEF Truthful, Injective
  <2>4. TableInv'
    BY <1>1, <1>3, <1>5, <2>1, NoticesKeepTable DEF Typing
  <2>5. NoticeInv'
    BY <1>1, <1>3, <1>5, <2>1, <2>2, <2>3, NotifierStep DEF Told
  <2> QED
    BY <2>4, <2>5
<1>6. ASSUME NEW status \in {"SENT", "FAILED"}, Sent(c, status), accepted' = accepted,
             status = "SENT" => settings.development
      PROVE  TableInv' /\ NoticeInv'
  <2>1. /\ desk' \in [Counters -> Notifying]
        /\ \A d \in Counters \ {c} : desk'[d] = desk[d]
        /\ desk'[c].pc = "save" /\ desk'[c].status = status
        /\ desk'[c].ticket = desk[c].ticket /\ desk'[c].nth = desk[c].nth
        /\ desk'[c].channel = desk[c].channel
        /\ (MessageOf(c))' = m /\ (FollowUp(c))' = FollowUp(c)
    BY <1>1, <1>6, SentEffect
  <2>2. DeskSound(c)'
    <3>1. m \notin Saved'
      BY <1>2, <1>3 DEF Told
    <3>2. desk[c].channel = "SMS" => ~(Told(FollowUp(c)))'
      BY <1>2, <1>3, <1>6, <2>1 DEF Told
    <3> QED
      BY <1>2, <1>3, <1>4, <1>6, <2>1, <3>1, <3>2 DEF DeskSound
  <2>3. Truthful'
    <3>1. \A x : Pending(x) => Pending(x)'
      BY <1>1, <2>1 DEF Pending, MessageOf
    <3> QED
      BY <1>1, <1>3, <1>6, <3>1 DEF Truthful, Injective
  <2>4. TableInv'
    BY <1>1, <1>3, <1>6, <2>1, NoticesKeepTable DEF Typing
  <2>5. NoticeInv'
    BY <1>1, <1>3, <1>6, <2>1, <2>2, <2>3, NotifierStep DEF Told
  <2> QED
    BY <2>4, <2>5
<1>7. ASSUME NEW status \in {"SENT", "FAILED"}, Sent(c, status), accepted' = Append(accepted, m)
      PROVE  TableInv' /\ NoticeInv'
  <2>1. /\ desk' \in [Counters -> Notifying]
        /\ \A d \in Counters \ {c} : desk'[d] = desk[d]
        /\ desk'[c].pc = "save" /\ desk'[c].status = status
        /\ desk'[c].ticket = desk[c].ticket /\ desk'[c].nth = desk[c].nth
        /\ desk'[c].channel = desk[c].channel
        /\ (MessageOf(c))' = m /\ (FollowUp(c))' = FollowUp(c)
    BY <1>1, <1>7, SentEffect
  <2>2. /\ accepted' \in Seq(Message) /\ ToSet(accepted') = ToSet(accepted) \cup {m}
        /\ Injective(accepted')
    BY <1>1, <1>2, <1>7, AcceptEffect DEF Truthful, Told
  <2>3. DeskSound(c)'
    <3>1. m \notin Saved' /\ m \in ToSet(accepted')
      BY <1>2, <1>3, <2>2 DEF Told
    <3>2. desk[c].channel = "SMS" => ~(Told(FollowUp(c)))'
      BY <1>2, <1>3, <2>1, <2>2 DEF Told
    <3> QED
      BY <1>2, <1>3, <1>4, <2>1, <3>1, <3>2 DEF DeskSound
  <2>4. Truthful'
    <3>1. \A x : Pending(x) => Pending(x)'
      BY <1>1, <2>1 DEF Pending, MessageOf
    <3>2. \A x \in ToSet(accepted') : x \in Saved' \cup unsaved' \/ Pending(x)'
      <4> TAKE x \in ToSet(accepted')
      <4>1. CASE x = m
        BY <2>1, <4>1 DEF Pending
      <4>2. CASE x \in ToSet(accepted)
        BY <1>1, <1>3, <3>1, <4>2 DEF Truthful
      <4> QED
        BY <2>2, <4>1, <4>2
    <3> QED
      BY <1>1, <1>3, <2>2, <3>2 DEF Truthful, Injective
  <2>5. TableInv'
    BY <1>1, <1>3, <2>1, <2>2, NoticesKeepTable DEF Typing
  <2>6. NoticeInv'
    BY <1>1, <1>3, <2>1, <2>2, <2>3, <2>4, NotifierStep DEF Told
  <2> QED
    BY <2>5, <2>6
<1> QED
  <2>1. CASE settings.development
    BY <1>6, <2>1 DEF Send
  <2>2. CASE ~settings.development /\ desk[c].channel = "FCM" /\ ~settings.firebase
    BY <1>5, <2>2 DEF Send, NextChannel
  <2>3. CASE ~settings.development /\ ~(desk[c].channel = "FCM" /\ ~settings.firebase)
    BY <1>6, <1>7, <2>3 DEF Send
  <2> QED
    BY <2>1, <2>2, <2>3

\* A message has one row.
LEMMA SaveKeeps ==
  ASSUME TableInv, NoticeInv, NEW c \in Counters, Save(c)
  PROVE  TableInv' /\ NoticeInv'
<1> DEFINE row == [message |-> MessageOf(c), status |-> desk[c].status]
<1>1. Typing /\ DeskSound(c) /\ Truthful /\ Busy(c) /\ desk[c].pc = "save" /\ notices \in Seq(Notice)
  BY DEF TableInv, NoticeInv, Save, Busy, Typing
<1>2. PICK m \in Message :
        /\ m = MessageOf(c) /\ m.channel = desk[c].channel /\ m \notin Saved
        /\ desk[c].channel = "SMS" => ~Told(FollowUp(c)) /\ FollowUp(c) # m
        /\ desk[c].ticket \in Tickets /\ desk[c].status \in {"SENT", "FAILED"}
        /\ desk[c].status = "SENT" /\ desk[c].channel # "IN_APP" =>
             settings.development \/ m \in ToSet(accepted)
  BY <1>1, MessageOfBusy DEF DeskSound
<1>3. /\ UNCHANGED <<now, settings, rowVars, creating, crowded>>
      /\ settings' = settings /\ accepted' = accepted /\ unsaved' = unsaved
      /\ notices' = Append(notices, row) /\ NextChannel(c)
  BY DEF Save
<1>4. row \in Notice /\ row.message = m /\ row.status = desk[c].status
  BY <1>2 DEF Notice
<1> HIDE DEF row
<1>5. /\ notices' \in Seq(Notice) /\ Len(notices) \in Nat
      /\ DOMAIN notices = 1 .. Len(notices) /\ DOMAIN notices' = 1 .. Len(notices) + 1
      /\ \A i \in 1 .. Len(notices) : notices'[i] = notices[i]
      /\ notices'[Len(notices) + 1] = row
  BY <1>1, <1>3, <1>4, AppendEffect
<1>6. Saved' = Saved \cup {m}
  BY <1>4, <1>5 DEF Saved
<1>7. /\ desk' \in [Counters -> Notifying]
      /\ \A d \in Counters \ {c} : desk'[d] = desk[d]
      /\ \/ desk'[c].pc = "idle"
         \/ /\ desk[c].channel = "SMS" /\ desk'[c].pc = "send" /\ desk'[c].channel = "FCM"
            /\ desk'[c].ticket = desk[c].ticket /\ desk'[c].nth = desk[c].nth
            /\ (MessageOf(c))' = FollowUp(c)
  BY <1>1, <1>3, NextChannelEffect
<1>8. DeskSound(c)'
  <2>1. CASE desk'[c].pc = "idle"
    BY <2>1 DEF DeskSound, Busy
  <2>2. CASE /\ desk[c].channel = "SMS" /\ desk'[c].pc = "send" /\ desk'[c].channel = "FCM"
             /\ desk'[c].ticket = desk[c].ticket /\ desk'[c].nth = desk[c].nth
             /\ (MessageOf(c))' = FollowUp(c)
    <3>1. ~(Told(MessageOf(c)))'
      BY <1>2, <1>3, <1>6, <2>2 DEF Told
    <3>2. Begot(desk[c].ticket, desk[c].nth, desk[c].channel)
      BY <1>1 DEF DeskSound
    <3>3. Begot(desk[c].ticket, desk[c].nth, desk[c].channel)'
      BY <1>3, <2>2, <3>2 DEF Begot, Calls, rowVars
    <3> QED
      BY <1>2, <2>2, <3>1, <3>3 DEF DeskSound
  <2> QED
    BY <1>7, <2>1, <2>2
<1>9. Truthful'
  <2>1. \A i, j \in DOMAIN notices' : notices'[i].message = notices'[j].message => i = j
    <3>1. \A i \in 1 .. Len(notices) : notices[i].message # m
      BY <1>2, <1>5 DEF Saved
    <3>2. \A i, j \in 1 .. Len(notices) : notices[i].message = notices[j].message => i = j
      BY <1>1, <1>5 DEF Truthful
    <3>3. notices'[Len(notices) + 1].message = m
      BY <1>4, <1>5
    <3> QED
      BY <1>5, <3>1, <3>2, <3>3
  <2>2. \A x \in ToSet(accepted') : x \in Saved' \cup unsaved' \/ Pending(x)'
    <3> SUFFICES ASSUME NEW x \in ToSet(accepted), x # m, x \notin Saved, x \notin unsaved
                 PROVE  Pending(x)'
      BY <1>3, <1>6
    <3>1. PICK d \in Counters : desk[d].pc = "save" /\ MessageOf(d) = x
      BY <1>1 DEF Truthful, Pending
    <3>2. d # c
      BY <1>2, <3>1
    <3> QED
      BY <1>7, <3>1, <3>2 DEF Pending, MessageOf
  <2>3. \A i \in DOMAIN notices' :
          notices'[i].status = "SENT" /\ notices'[i].message.channel # "IN_APP" =>
            settings.development \/ notices'[i].message \in ToSet(accepted)
    <3> TAKE i \in DOMAIN notices'
    <3>1. CASE i \in 1 .. Len(notices)
      BY <1>1, <1>5, <3>1 DEF Truthful
    <3>2. CASE i = Len(notices) + 1
      BY <1>2, <1>4, <1>5, <3>2
    <3> QED
      BY <1>5, <3>1, <3>2
  <2> QED
    BY <1>1, <1>3, <2>1, <2>2, <2>3 DEF Truthful, Injective
<1>10. TableInv'
  BY <1>1, <1>3, <1>5, <1>7, NoticesKeepTable DEF Typing
<1>11. NoticeInv'
  <2>1. (Busy(c))' => desk'[c].ticket = desk[c].ticket /\ desk'[c].nth = desk[c].nth
    BY <1>7 DEF Busy
  <2>2. /\ \A x : Told(x)' => Told(x) \/ x = MessageOf(c)
        /\ \A x : x \in Saved' => x \in Saved \/ x = MessageOf(c)
    BY <1>2, <1>3, <1>6 DEF Told
  <2> QED
    BY <1>1, <1>3, <1>7, <1>8, <1>9, <2>1, <2>2, NotifierStep
<1> QED
  BY <1>10, <1>11

LEMMA SaveFailsKeeps ==
  ASSUME TableInv, NoticeInv, NEW c \in Counters, SaveFails(c)
  PROVE  TableInv' /\ NoticeInv'
<1>1. Typing /\ DeskSound(c) /\ Truthful /\ Busy(c) /\ desk[c].pc = "save"
  BY DEF TableInv, NoticeInv, SaveFails, Busy
<1>2. PICK m \in Message : m = MessageOf(c)
  BY <1>1, MessageOfBusy
<1>3. /\ UNCHANGED <<now, settings, rowVars, creating, crowded>>
      /\ settings' = settings /\ accepted' = accepted /\ notices' = notices
      /\ unsaved' = unsaved \cup {m} /\ Saved' = Saved
  BY <1>2 DEF SaveFails, Saved
<1>4. /\ desk'[c].pc = "idle" /\ \A d \in Counters \ {c} : desk'[d] = desk[d]
      /\ desk' \in [Counters -> Notifying]
  BY <1>1 DEF SaveFails, Typing, Notifying, Idle
<1>5. DeskSound(c)' /\ ~(Busy(c))'
  BY <1>4 DEF DeskSound, Busy
<1>6. Truthful'
  <2>1. \A x \in ToSet(accepted') : x \in Saved' \cup unsaved' \/ Pending(x)'
    <3> SUFFICES ASSUME NEW x \in ToSet(accepted), x # m, x \notin Saved, x \notin unsaved
                 PROVE  Pending(x)'
      BY <1>3
    <3>1. PICK d \in Counters : desk[d].pc = "save" /\ MessageOf(d) = x
      BY <1>1 DEF Truthful, Pending
    <3>2. d # c
      BY <1>2, <3>1
    <3> QED
      BY <1>4, <3>1, <3>2 DEF Pending, MessageOf
  <2> QED
    BY <1>1, <1>3, <2>1 DEF Truthful, Injective
<1>7. TableInv'
  <2>1. unsaved' \in SUBSET Message
    BY <1>1, <1>3 DEF Typing
  <2> QED
    BY <1>1, <1>3, <1>4, <2>1, NoticesKeepTable DEF Typing
<1>8. NoticeInv'
  BY <1>1, <1>2, <1>3, <1>4, <1>5, <1>6, NotifierStep DEF Told
<1> QED
  BY <1>7, <1>8

-----------------------------------------------------------------------------
(* The theorems.                                                           *)

DInv == TableInv /\ NoticeInv

LEMMA DayBookInit == Init => DInv
<1> SUFFICES ASSUME Init PROVE DInv
  OBVIOUS
<1>1. Typing
  BY DayBookAssumption DEF Init, Typing, Time, Creating, NotCreating, Notifying, Idle
<1>2. /\ book = <<>> /\ queue = [s \in Services |-> <<>>] /\ notices = <<>> /\ accepted = <<>>
      /\ unsaved = {} /\ \A c \in Counters : desk[c].pc = "idle"
      /\ \A t \in Tickets : ~Born(t) /\ creating[t].pc = "none"
  BY DEF Init, Idle, NotCreating, NoTicket, Born
<1>3. RowsSound
  BY <1>2 DEF RowsSound, BookSound, QueueSound, CreatingSound, Injective, At
<1>4. NumbersSound /\ \A t \in Tickets : DatesSound(t)
  BY <1>2 DEF NumbersSound, NumberIsRank, CountValid, DatesSound, At
<1>5. NoticeInv
  <2>1. ToSet(accepted) = {} /\ Saved = {}
    BY <1>2 DEF ToSet, Saved
  <2> QED
    BY <1>2, <2>1 DEF NoticeInv, Told, DeskSound, DesksApart, Truthful, Busy, Injective
<1> QED
  BY <1>1, <1>3, <1>4, <1>5 DEF DInv, TableInv

LEMMA DayBookStep == DInv /\ [Next]_vars => DInv'
<1> SUFFICES ASSUME TableInv, NoticeInv, [Next]_vars
             PROVE  TableInv' /\ NoticeInv'
  BY DEF DInv
<1> USE DEF TicketStatus
<1>1. Typing
  BY DEF TableInv
<1>2. ASSUME TableInv', CallsGrow, settings' = settings, notices' = notices,
             accepted' = accepted, unsaved' = unsaved, desk' = desk
      PROVE  TableInv' /\ NoticeInv'
  BY <1>1, <1>2, QuietKeepsNotices
<1>3. ASSUME NEW t \in Tickets, NEW u \in Users, NEW s \in Services, TakeNumber(t, u, s)
      PROVE  TableInv' /\ NoticeInv'
  BY <1>1, <1>2, <1>3, TakeNumberKeepsTable, CallsUnchanged DEF TakeNumber, rowVars, noticeVars
<1>4. ASSUME NEW t \in Tickets, Insert(t)
      PROVE  TableInv' /\ NoticeInv'
  <2>1. \A x \in Tickets : tickets[x].status = "DONE" => tickets'[x].status = "DONE"
    BY <1>4, InsertEffect, BornIsTicket, <1>1 DEF Born, UNBORN
  <2> QED
    BY <1>1, <1>2, <1>4, <2>1, InsertKeepsTable, CallsUnchanged DEF Insert, noticeVars
<1>5. ASSUME NEW t \in Tickets, LogCreation(t)
      PROVE  TableInv' /\ NoticeInv'
  <2>1. TableInv' /\ CallsGrow
    <3>1. \A x \in Tickets : Calls(x) \in Nat /\ Calls(x)' = Calls(x)
      BY <1>5, LogCreationKeepsTable
    <3>2. \A x \in Tickets : tickets'[x].status = tickets[x].status
      BY <1>5 DEF LogCreation
    <3> QED
      BY <1>5, <3>1, <3>2, LogCreationKeepsTable DEF CallsGrow
  <2> QED
    BY <1>2, <1>5, <2>1 DEF LogCreation, noticeVars
<1>6. ASSUME NEW t \in Tickets, Enqueue(t)
      PROVE  TableInv' /\ NoticeInv'
  BY <1>1, <1>2, <1>6, EnqueueKeepsTable, CallsUnchanged DEF Enqueue, noticeVars
<1>7. ASSUME NEW t \in Tickets, Estimate(t)
      PROVE  TableInv' /\ NoticeInv'
  BY <1>1, <1>2, <1>7, EstimateKeepsTable, CallsUnchanged DEF Estimate, noticeVars
<1>8. ASSUME NEW t \in Tickets, NEW to \in TicketStatus, Moved(t, to) PROVE CallsGrow
  BY <1>1, <1>8, MovedKeeps DEF CallsGrow
<1>9. ASSUME NEW t \in Tickets, Cancel(t)
      PROVE  TableInv' /\ NoticeInv'
  <2>1. Moved(t, "CANCELLED")
    BY <1>1, <1>9, MoveEffect DEF TableInv, Cancel
  <2> QED
    BY <1>2, <1>8, <1>9, <2>1, CancelKeepsTable DEF Cancel, noticeVars
<1>10. ASSUME NEW t \in Tickets, StartServing(t)
       PROVE  TableInv' /\ NoticeInv'
  BY <1>2, <1>8, <1>10, StartServingKeepsTable DEF StartServing, noticeVars
<1>11. ASSUME NEW t \in Tickets, MarkAbsent(t)
       PROVE  TableInv' /\ NoticeInv'
  BY <1>2, <1>8, <1>11, MarkAbsentKeepsTable DEF MarkAbsent, noticeVars
<1>12. ASSUME NEW t \in Tickets, ReturnToQueue(t)
       PROVE  TableInv' /\ NoticeInv'
  BY <1>2, <1>8, <1>12, ReturnToQueueKeepsTable DEF ReturnToQueue, noticeVars
<1>13. ASSUME NEW c \in Counters, NEW s \in Services, CallNext(c, s)
       PROVE  TableInv' /\ NoticeInv'
  BY <1>13, CallNextKeepsTable, CallNextKeepsNotices
<1>14. ASSUME NEW c \in Counters, NEW t \in Tickets, Complete(c, t)
       PROVE  TableInv' /\ NoticeInv'
  BY <1>14, CompleteKeepsTable, CompleteKeepsNotices
<1>15. ASSUME NEW c \in Counters, Send(c) \/ Save(c) \/ SaveFails(c)
       PROVE  TableInv' /\ NoticeInv'
  BY <1>15, SendKeeps, SaveKeeps, SaveFailsKeeps
<1>16. CASE Tick
  BY <1>1, <1>2, <1>16, TickKeepsTable, CallsUnchanged DEF Tick, rowVars, noticeVars
<1>17. CASE UNCHANGED vars
  <2>1. TableInv'
    BY <1>1, <1>17, NoticesKeepTable DEF vars, noticeVars, Typing
  <2> QED
    BY <1>1, <1>2, <1>17, <2>1, CallsUnchanged DEF vars, rowVars, noticeVars
<1> QED
  BY <1>3, <1>4, <1>5, <1>6, <1>7, <1>9, <1>10, <1>11, <1>12, <1>13, <1>14, <1>15, <1>16, <1>17
     DEF Next

LEMMA DayBookAlways == Spec => []DInv
<1>1. Init => DInv
  BY DayBookInit
<1>2. DInv /\ [Next]_vars => DInv'
  BY DayBookStep
<1> QED
  BY <1>1, <1>2, PTL DEF Spec

\* A queue is not longer than the book.
LEMMA QueueFits ==
  ASSUME TableInv, NEW s \in Services
  PROVE  Len(queue[s]) \in Nat /\ Len(book) \in Nat /\ Len(queue[s]) <= Len(book)
<1> DEFINE q == queue[s]
           Q == 1 .. Len(q)
           B == 1 .. Len(book)
           f == [i \in Q |-> CHOOSE j \in B : book[j] = q[i]]
<1>1. /\ q \in Seq(Tickets) /\ DOMAIN q = Q /\ Len(q) \in Nat
      /\ DOMAIN book = B /\ Len(book) \in Nat
  BY LenProperties DEF TableInv, Typing
<1>2. Injective(q) /\ \A i \in Q : q[i] \in Tickets /\ Enqueued(s, q[i])
  BY <1>1 DEF TableInv, RowsSound, QueueSound
<1>3. ASSUME NEW i \in Q PROVE \E j \in B : book[j] = q[i]
  <2>1. Born(q[i])
    BY <1>2 DEF Enqueued, Born, UNBORN
  <2> QED
    BY <1>1, <1>2, <2>1 DEF TableInv, RowsSound, BookSound
<1>4. \A i \in Q : f[i] \in B /\ book[f[i]] = q[i]
  BY <1>3
<1>5. f \in [Q -> B]
  BY <1>4
<1> HIDE DEF f
<1>6. \A i, k \in Q : f[i] = f[k] => i = k
  BY <1>1, <1>2, <1>4 DEF Injective
<1>7. f \in Injection(Q, B)
  BY <1>5, <1>6 DEF Injection, IsInjective
<1>8. IsFiniteSet(B) /\ Cardinality(B) = Len(book) /\ Cardinality(Q) = Len(q)
  <2>1. 1 \in Int /\ Len(book) \in Int /\ Len(q) \in Int
    BY <1>1
  <2>2. /\ IsFiniteSet(B) /\ Cardinality(B) = IF 1 > Len(book) THEN 0 ELSE Len(book) - 1 + 1
        /\ Cardinality(Q) = IF 1 > Len(q) THEN 0 ELSE Len(q) - 1 + 1
    BY <2>1, FS_Interval
  <2> QED
    BY <1>1, <2>2
<1>9. Cardinality(Q) <= Cardinality(B)
  BY <1>7, <1>8, FS_Injection
<1> QED
  BY <1>1, <1>8, <1>9

\* Types, in every reachable state: in particular get_ticket answers with a
\* position and an estimate that are not negative, whatever became of the
\* ticket since, and with a position that is not beyond the tickets there are.
THEOREM DayBookTypeCorrect == Spec => []TypeOK
<1>1. DInv => TypeOK
  <2> SUFFICES ASSUME DInv PROVE TypeOK
    OBVIOUS
  <2>1. TableInv /\ Typing /\ QueueSound /\ BookSound
    BY DEF DInv, TableInv, RowsSound
  <2>2. ASSUME NEW t \in ToSet(book)
        PROVE  GetTicket(t).position \in 0 .. Len(book) /\ GetTicket(t).eta \in Nat
    <3>1. t \in Tickets /\ Born(t)
      BY <2>1 DEF ToSet, Typing, BookSound
    <3>2. tickets[t].service \in Services
      BY <2>1, <3>1, BornIsTicket, TicketFields
    <3>3. PICK n \in Nat : n = Len(queue[tickets[t].service]) /\ n <= Len(book) /\ Len(book) \in Nat
      BY <2>1, <3>2, QueueFits
    <3>4. Rank(t) = None \/ Rank(t) \in 0 .. n - 1
      BY <2>1, <3>1, <3>3, RankType
    <3>5. QueuePosition(t) \in 0 .. Len(book)
      BY <3>3, <3>4 DEF QueuePosition
    <3>6. Eta(QueuePosition(t)) \in Nat
      BY <3>3, <3>5, EtaType
    <3> QED
      BY <3>5, <3>6 DEF GetTicket
  <2> QED
    BY <2>1, <2>2 DEF TypeOK, Typing
<1> QED
  BY <1>1, DayBookAlways, PTL

\* A ticket's number is its rank among the tickets of its day with its prefix,
\* in any number of services, days and requests, unless another request had
\* counted with it or midnight passed between its count and its insert.
THEOREM NumberAlwaysRank == Spec => []NumberIsRank
<1>1. DInv => NumberIsRank
  BY DEF DInv, TableInv, NumbersSound
<1> QED
  BY <1>1, DayBookAlways, PTL

\* So two tickets of a day and a prefix never show one number, unless the
\* number of one of them was so crowded.
NumbersDistinct ==
  \A i, j \in DOMAIN book :
    /\ i # j /\ book[i] \notin crowded /\ book[j] \notin crowded
    /\ Day(tickets[book[i]].created) = Day(tickets[book[j]].created)
    /\ PrefixOf[tickets[book[i]].service] = PrefixOf[tickets[book[j]].service]
    => tickets[book[i]].sequence # tickets[book[j]].sequence

LEMMA EarlierIsSmaller ==
  ASSUME DInv, NEW i \in DOMAIN book, NEW j \in DOMAIN book, i < j,
         book[i] \notin crowded, book[j] \notin crowded,
         Day(tickets[book[i]].created) = Day(tickets[book[j]].created),
         PrefixOf[tickets[book[i]].service] = PrefixOf[tickets[book[j]].service]
  PROVE  tickets[book[i]].sequence # tickets[book[j]].sequence
<1>1. /\ DOMAIN book = 1 .. Len(book) /\ Len(book) \in Nat /\ book[j] \in Tickets
      /\ Born(book[j])
  BY LenProperties DEF DInv, TableInv, Typing, RowsSound, BookSound
<1>2. /\ tickets[book[i]].sequence = Cardinality(Peers(i))
      /\ tickets[book[j]].sequence = Cardinality(Peers(j))
  BY DEF DInv, TableInv, NumbersSound, NumberIsRank, Peers
<1>3. i \in Int /\ j \in Int /\ i < j
  BY <1>1
<1>4. IsFiniteSet(Peers(j))
  <2>1. 1 \in Int
    OBVIOUS
  <2>2. IsFiniteSet(1 .. j)
    BY <1>3, <2>1, FS_Interval
  <2>3. Peers(j) \in SUBSET (1 .. j)
    BY DEF Peers
  <2> QED
    BY <2>2, <2>3, FS_Subset
<1>5. Peers(i) \in SUBSET Peers(j)
  <2>1. 1 .. i \subseteq 1 .. j
    BY <1>3
  <2> QED
    BY <2>1 DEF Peers
<1>6. j \in Peers(j) /\ j \notin Peers(i)
  <2>1. j \in 1 .. j /\ j \notin 1 .. i
    BY <1>1, <1>3
  <2> QED
    BY <1>1, <2>1 DEF Peers, InDay, Born
<1>7. Cardinality(Peers(j)) # Cardinality(Peers(i))
  BY <1>4, <1>5, <1>6, FS_Subset
<1> QED
  BY <1>2, <1>7

\* Numbers given out on one day with one prefix are distinct, but for crowded
\* ones.
THEOREM NumbersAlwaysDistinct == Spec => []NumbersDistinct
<1>1. DInv => NumbersDistinct
  <2> SUFFICES ASSUME DInv, NEW i \in DOMAIN book, NEW j \in DOMAIN book, i # j,
                      book[i] \notin crowded, book[j] \notin crowded,
                      Day(tickets[book[i]].created) = Day(tickets[book[j]].created),
                      PrefixOf[tickets[book[i]].service] = PrefixOf[tickets[book[j]].service]
               PROVE  tickets[book[i]].sequence # tickets[book[j]].sequence
    BY DEF NumbersDistinct
  <2>1. DOMAIN book = 1 .. Len(book) /\ Len(book) \in Nat
    BY LenProperties DEF DInv, TableInv, Typing
  <2>2. i < j \/ j < i
    BY <2>1
  <2> QED
    BY <2>2, EarlierIsSmaller
<1> QED
  BY <1>1, DayBookAlways, PTL

\* The dates on a ticket are in the order of its life, however often it was
\* absent, returned and called again.
THEOREM DatesAlwaysOrdered == Spec => [](\A t \in ToSet(book) : TimelineOrdered(t))
<1>1. DInv => \A t \in ToSet(book) : TimelineOrdered(t)
  <2> SUFFICES ASSUME DInv, NEW t \in ToSet(book) PROVE TimelineOrdered(t)
    OBVIOUS
  <2>1. t \in Tickets /\ Born(t) /\ DatesSound(t)
    BY DEF DInv, TableInv, RowsSound, BookSound, ToSet, Typing
  <2> DEFINE times == <<tickets[t].created, tickets[t].called, tickets[t].served, tickets[t].done>>
  <2>2. /\ times[2] # None => times[1] <= times[2]
        /\ times[3] # None => times[2] <= times[3]
        /\ times[4] # None => times[3] <= times[4]
    BY <2>1 DEF DatesSound
  <2>3. Len(times) = 4 /\ \A i \in 2 .. 4 : i = 2 \/ i = 3 \/ i = 4
    OBVIOUS
  <2> HIDE DEF times
  <2>4. Reached(t, times)
    BY <2>2, <2>3 DEF Reached
  <2> QED
    BY <2>4 DEF TimelineOrdered, times
<1> QED
  BY <1>1, DayBookAlways, PTL

\* A client is told once and truthfully: no message is accepted twice or has
\* two rows, a row SENT is of a message accepted or simulated, and what was
\* accepted has its row, or a counter is about to save it, or the database
\* refused it; with any number of counters notifying at once.
THEOREM NoticesAlwaysTruthful == Spec => []NoticesTruthful
<1>1. DInv => NoticesTruthful
  <2> SUFFICES ASSUME DInv PROVE NoticesTruthful
    OBVIOUS
  <2>1. Truthful
    BY DEF DInv, NoticeInv
  <2>2. \A m : m \in Saved <=> NoticesOf(m) # {}
    BY DEF Saved, NoticesOf
  <2>3. ASSUME NEW m \in ToSet(accepted)
        PROVE  /\ Occurrences(accepted, m) = 1
               /\ NoticesOf(m) # {} \/ Pending(m) \/ m \in unsaved
    <3>1. PICK k \in DOMAIN accepted : accepted[k] = m
      BY DEF ToSet
    <3>2. {i \in DOMAIN accepted : accepted[i] = m} = {k}
      BY <2>1, <3>1 DEF Truthful, Injective
    <3>3. Cardinality({k}) = 1
      BY FS_Singleton
    <3> QED
      BY <2>1, <2>2, <3>2, <3>3 DEF Truthful, Occurrences
  <2>4. ASSUME NEW i \in DOMAIN notices
        PROVE  /\ NoticesOf(notices[i].message) = {i}
               /\ notices[i].status = "SENT" /\ notices[i].message.channel # "IN_APP"
                  => settings.development \/ notices[i].message \in ToSet(accepted)
    BY <2>1 DEF Truthful, NoticesOf
  <2> QED
    BY <2>3, <2>4 DEF NoticesTruthful
<1> QED
  BY <1>1, DayBookAlways, PTL

-----------------------------------------------------------------------------
(* The figures.  What the log has of an action is in step with the tickets *)
(* that have come to the status of that action; the totals are compared,   *)
(* so that no sum over the tickets is needed.                              *)

RowsOf(action) == {i \in DOMAIN log : log[i].action = action}
DoneRows(c) == {i \in DOMAIN log : log[i].action = "DONE" /\ log[i].counter = c}
DoneTickets(c) == {t \in Tickets : tickets[t].status = "DONE" /\ tickets[t].counter = c}

\* The tickets whose TICKET_CREATED row is written.
HasRow(t) == Born(t) /\ ~At(t, "log")
WithRow == {t \in Tickets : HasRow(t)}

RowsDated == \A i \in DOMAIN log : log[i].at <= now /\ Born(log[i].ticket)
CreatedCounted == Cardinality(RowsOf("CREATED")) = Cardinality(WithRow)
FinalCounted ==
  \A a \in TerminalActions : Cardinality(RowsOf(a)) = Cardinality(WithStatus(a))
AbsentBelowCalled ==
  Cardinality(RowsOf("ABSENT")) + Cardinality(WithStatus("CALLED")) <= Cardinality(RowsOf("CALLED"))
DoneCounted == \A c \in Counters : Cardinality(DoneRows(c)) = Cardinality(DoneTickets(c))
FirstWait ==
  \A i \in RowsOf("CALLED"), t \in Tickets :
    log[i].ticket = t /\ Calls(t) = 1 => log[i].elapsed = tickets[t].called - tickets[t].created

FigInv ==
  /\ RowsDated /\ CreatedCounted /\ FinalCounted /\ AbsentBelowCalled /\ DoneCounted /\ FirstWait

\* The rows of an action are finitely many; a row adds itself.
LEMMA RowsType ==
  ASSUME log \in Seq(Row), NEW a
  PROVE  /\ IsFiniteSet(RowsOf(a)) /\ Cardinality(RowsOf(a)) \in Nat
         /\ IsFiniteSet(DoneRows(a)) /\ Cardinality(DoneRows(a)) \in Nat
<1>1. DOMAIN log = 1 .. Len(log) /\ Len(log) \in Nat /\ IsFiniteSet(1 .. Len(log))
  BY LenProperties, FS_Interval
<1>2. RowsOf(a) \in SUBSET (1 .. Len(log)) /\ DoneRows(a) \in SUBSET (1 .. Len(log))
  BY <1>1 DEF RowsOf, DoneRows
<1> QED
  BY <1>1, <1>2, FS_Subset, FS_CardinalityType

LEMMA RowsAppend ==
  ASSUME log \in Seq(Row), NEW row \in Row, log' = Append(log, row), NEW a
  PROVE  Cardinality(RowsOf(a)') =
           IF row.action = a THEN Cardinality(RowsOf(a)) + 1 ELSE Cardinality(RowsOf(a))
<1>1. IsFiniteSet(RowsOf(a)) /\ Cardinality(RowsOf(a)) \in Nat
  BY RowsType
<1>2. /\ DOMAIN log' = 1 .. Len(log) + 1
      /\ DOMAIN log = 1 .. Len(log) /\ Len(log) \in Nat
      /\ \A i \in 1 .. Len(log) : log'[i] = log[i]
      /\ log'[Len(log) + 1] = row
  BY AppendEffect
<1>3. CASE row.action = a
  <2>1. RowsOf(a)' = RowsOf(a) \cup {Len(log) + 1} /\ Len(log) + 1 \notin RowsOf(a)
    BY <1>2, <1>3 DEF RowsOf
  <2> QED
    BY <1>1, <1>3, <2>1, FS_AddElement
<1>4. CASE row.action # a
  <2>1. RowsOf(a)' = RowsOf(a)
    BY <1>2, <1>4 DEF RowsOf
  <2> QED
    BY <1>4, <2>1
<1> QED
  BY <1>3, <1>4

LEMMA DoneRowsAppend ==
  ASSUME log \in Seq(Row), NEW row \in Row, log' = Append(log, row), NEW c
  PROVE  Cardinality(DoneRows(c)') =
           IF row.action = "DONE" /\ row.counter = c
           THEN Cardinality(DoneRows(c)) + 1 ELSE Cardinality(DoneRows(c))
<1>1. IsFiniteSet(DoneRows(c)) /\ Cardinality(DoneRows(c)) \in Nat
  BY RowsType
<1>2. /\ DOMAIN log' = 1 .. Len(log) + 1
      /\ DOMAIN log = 1 .. Len(log) /\ Len(log) \in Nat
      /\ \A i \in 1 .. Len(log) : log'[i] = log[i]
      /\ log'[Len(log) + 1] = row
  BY AppendEffect
<1>3. CASE row.action = "DONE" /\ row.counter = c
  <2>1. DoneRows(c)' = DoneRows(c) \cup {Len(log) + 1} /\ Len(log) + 1 \notin DoneRows(c)
    BY <1>2, <1>3 DEF DoneRows
  <2> QED
    BY <1>1, <1>3, <2>1, FS_AddElement
<1>4. CASE ~(row.action = "DONE" /\ row.counter = c)
  <2>1. DoneRows(c)' = DoneRows(c)
    BY <1>2, <1>4 DEF DoneRows
  <2> QED
    BY <1>4, <2>1
<1> QED
  BY <1>3, <1>4

\* The three shapes of a step, as the figures see it.
KeepsTicket(x) ==
  /\ tickets'[x].status = tickets[x].status /\ tickets'[x].counter = tickets[x].counter
  /\ tickets'[x].called = tickets[x].called /\ tickets'[x].created = tickets[x].created

LogsNothing ==
  /\ log' = log /\ now' \in Int /\ now <= now'
  /\ \A x \in Tickets :
       /\ HasRow(x)' <=> HasRow(x)
       /\ Born(x) => KeepsTicket(x)
       /\ ~Born(x) => tickets'[x].status \in {UNBORN, "WAITING"}

LogsCreation(t) ==
  /\ LogRow(t, "CREATED", None) \in Row /\ log' = Append(log, LogRow(t, "CREATED", None))
  /\ now' = now /\ tickets' = tickets /\ Born(t)
  /\ WithRow' = WithRow \cup {t} /\ t \notin WithRow

LogsMove(t, to, counter) ==
  /\ Moved(t, to) /\ LogRow(t, ActionOf(to), counter) \in Row
  /\ log' = Append(log, LogRow(t, ActionOf(to), counter))
  /\ now' = now /\ creating' = creating
  /\ to = "DONE" => counter = None
  /\ IF to = "CALLED" THEN tickets'[t].called = now
     ELSE tickets'[t].called = tickets[t].called /\ tickets'[t].counter = tickets[t].counter

LEMMA StatusesFinite ==
  ASSUME NEW s
  PROVE  IsFiniteSet(WithStatus(s)) /\ Cardinality(WithStatus(s)) \in Nat
<1>1. WithStatus(s) \in SUBSET Tickets
  BY DEF WithStatus
<1> QED
  BY <1>1, DayBookAssumption, FS_Subset, FS_CardinalityType

LEMMA FinalStatuses ==
  ASSUME NEW a \in TerminalActions
  PROVE  a \notin {UNBORN, "WAITING", "CALLED", "CREATED", "RETURNED", "ABSENT"}
BY DEF TerminalActions, UNBORN

LEMMA RowFields ==
  ASSUME log \in Seq(Row), NEW i \in DOMAIN log
  PROVE  log[i].ticket \in Tickets /\ log[i].at \in Int /\ 0 <= log[i].at
<1>1. log[i] \in Row
  OBVIOUS
<1>2. log[i].ticket \in Tickets /\ log[i].at \in Time
  BY <1>1 DEF Row
<1>3. \A x \in Time : x \in Int /\ 0 <= x
  BY TimeIsInt
<1> QED
  BY <1>2, <1>3

LEMMA NothingKeepsFigures ==
  ASSUME Typing, FigInv, LogsNothing
  PROVE  FigInv'
<1>1. /\ \A a : RowsOf(a)' = RowsOf(a)
      /\ \A c : DoneRows(c)' = DoneRows(c)
      /\ \A t : Calls(t)' = Calls(t)
  BY DEF LogsNothing, RowsOf, DoneRows, Calls
<1>2. WithRow' = WithRow
  BY DEF LogsNothing, WithRow
<1>3. \A s : s \notin {UNBORN, "WAITING"} => WithStatus(s)' = WithStatus(s)
  BY DEF LogsNothing, WithStatus, Born, KeepsTicket
<1>4. \A c : DoneTickets(c)' = DoneTickets(c)
  BY DEF LogsNothing, DoneTickets, Born, KeepsTicket, UNBORN
<1>5. /\ DOMAIN log' = DOMAIN log
      /\ \A i \in DOMAIN log : log'[i] = log[i] /\ log[i].ticket \in Tickets /\ log[i].at \in Int
  BY RowFields DEF LogsNothing, Typing
<1>6. \A x \in Tickets : Born(x) => Born(x)'
  BY DEF LogsNothing, Born, KeepsTicket
<1>7. RowsDated'
  <2>1. now \in Int /\ now' \in Int /\ now <= now'
    BY TimeIsInt DEF Typing, LogsNothing
  <2>2. ASSUME NEW i \in DOMAIN log' PROVE log'[i].at <= now' /\ Born(log[i].ticket)'
    <3>1. PICK x \in Tickets : x = log[i].ticket /\ x = log'[i].ticket
      BY <1>5
    <3>2. log[i].at <= now /\ Born(x)
      BY <1>5, <3>1 DEF FigInv, RowsDated
    <3>3. Born(x)'
      BY <1>6, <3>2
    <3> QED
      BY <1>5, <2>1, <3>1, <3>2, <3>3 DEF Born
  <2> QED
    BY <2>2 DEF RowsDated
<1>8. FirstWait'
  <2> SUFFICES ASSUME NEW i \in RowsOf("CALLED"), NEW t \in Tickets, log[i].ticket = t,
                      Calls(t) = 1
               PROVE  log[i].elapsed = tickets'[t].called - tickets'[t].created
    BY <1>1, <1>5 DEF FirstWait, RowsOf
  <2>1. Born(t) /\ log[i].elapsed = tickets[t].called - tickets[t].created
    BY DEF FigInv, FirstWait, RowsDated, RowsOf
  <2> QED
    BY <2>1 DEF LogsNothing, KeepsTicket
<1>9. CreatedCounted'
  BY <1>1, <1>2 DEF FigInv, CreatedCounted
<1>10. FinalCounted'
  BY <1>1, <1>3, FinalStatuses DEF FigInv, FinalCounted
<1>11. AbsentBelowCalled'
  BY <1>1, <1>3 DEF FigInv, AbsentBelowCalled, UNBORN
<1>12. DoneCounted'
  BY <1>1, <1>4 DEF FigInv, DoneCounted
<1> QED
  BY <1>7, <1>8, <1>9, <1>10, <1>11, <1>12 DEF FigInv

LEMMA CreationKeepsFigures ==
  ASSUME Typing, FigInv, NEW t \in Tickets, LogsCreation(t)
  PROVE  FigInv'
<1> DEFINE row == LogRow(t, "CREATED", None)
<1>1. /\ row \in Row /\ row.action = "CREATED" /\ row.ticket = t /\ row.at = now
      /\ log \in Seq(Row) /\ log' = Append(log, row) /\ now \in Int /\ now' = now
  BY TimeIsInt DEF LogsCreation, LogRow, Typing
<1>2. /\ DOMAIN log' = 1 .. Len(log) + 1 /\ DOMAIN log = 1 .. Len(log) /\ Len(log) \in Nat
      /\ \A i \in DOMAIN log : log'[i] = log[i]
      /\ log'[Len(log) + 1] = row
  BY <1>1, AppendEffect
<1> HIDE DEF row
<1>3. /\ \A a : a # "CREATED" => Cardinality(RowsOf(a)') = Cardinality(RowsOf(a))
      /\ Cardinality(RowsOf("CREATED")') = Cardinality(RowsOf("CREATED")) + 1
      /\ \A c : Cardinality(DoneRows(c)') = Cardinality(DoneRows(c))
      /\ \A x : Calls(x)' = Calls(x)
  BY <1>1, RowsAppend, DoneRowsAppend, CallsAppend
<1>4. /\ \A s : WithStatus(s)' = WithStatus(s)
      /\ \A c : DoneTickets(c)' = DoneTickets(c)
      /\ \A x : Born(x)' = Born(x)
  BY DEF LogsCreation, WithStatus, DoneTickets, Born
<1>5. RowsDated'
  <2>1. tickets' = tickets /\ tickets[t].status # UNBORN
    BY DEF LogsCreation, Born
  <2>2. \A i \in DOMAIN log : log[i].at <= now /\ tickets[log[i].ticket].status # UNBORN
    BY DEF FigInv, RowsDated, Born
  <2>3. row.at <= now
    BY <1>1
  <2>4. ASSUME NEW i \in DOMAIN log'
        PROVE  log'[i].at <= now /\ tickets[log'[i].ticket].status # UNBORN
    <3>1. CASE i \in DOMAIN log
      BY <1>2, <2>2, <3>1
    <3>2. CASE i \notin DOMAIN log
      <4>1. i = Len(log) + 1
        BY <1>2, <3>2
      <4> QED
        BY <1>1, <1>2, <2>1, <2>3, <4>1
    <3> QED
      BY <3>1, <3>2
  <2> QED
    BY <1>1, <2>1, <2>4 DEF RowsDated, Born
<1>6. CreatedCounted'
  <2>1. IsFiniteSet(WithRow)
    <3>1. WithRow \in SUBSET Tickets
      BY DEF WithRow
    <3> QED
      BY <3>1, DayBookAssumption, FS_Subset
  <2>2. Cardinality(WithRow') = Cardinality(WithRow) + 1
    BY <2>1, FS_AddElement DEF LogsCreation
  <2> QED
    BY <1>3, <2>2 DEF FigInv, CreatedCounted
<1>7. FinalCounted'
  BY <1>3, <1>4, FinalStatuses DEF FigInv, FinalCounted
<1>8. AbsentBelowCalled'
  BY <1>3, <1>4 DEF FigInv, AbsentBelowCalled
<1>9. DoneCounted'
  BY <1>3, <1>4 DEF FigInv, DoneCounted
<1>10. FirstWait'
  <2>1. RowsOf("CALLED")' = RowsOf("CALLED")
    BY <1>1, <1>2 DEF RowsOf
  <2>2. \A i \in RowsOf("CALLED") : log'[i] = log[i]
    BY <1>2 DEF RowsOf
  <2> QED
    BY <1>3, <2>1, <2>2 DEF FigInv, FirstWait, LogsCreation
<1> QED
  BY <1>5, <1>6, <1>7, <1>8, <1>9, <1>10 DEF FigInv

\* How a move changes the sets of tickets that are counted.
LEMMA MoveCounts ==
  ASSUME Typing, NEW t \in Tickets, NEW to \in TicketStatus, NEW counter, LogsMove(t, to, counter),
         NEW s
  PROVE  Cardinality(WithStatus(s)') =
           IF s = to THEN Cardinality(WithStatus(s)) + 1
           ELSE IF s = tickets[t].status THEN Cardinality(WithStatus(s)) - 1
           ELSE Cardinality(WithStatus(s))
<1>1. IsFiniteSet(WithStatus(s)) /\ Cardinality(WithStatus(s)) \in Nat
  BY StatusesFinite
<1>2. /\ tickets'[t].status = to /\ \A x \in Tickets \ {t} : tickets'[x] = tickets[x]
      /\ tickets[t].status # to
  BY DEF LogsMove, Moved, MayMove, ALLOWED_TRANSITIONS, TicketStatus
<1>3. CASE s = to
  <2>1. WithStatus(s)' = WithStatus(s) \cup {t} /\ t \notin WithStatus(s)
    BY <1>2, <1>3 DEF WithStatus
  <2> QED
    BY <1>1, <1>3, <2>1, FS_AddElement
<1>4. CASE s # to /\ s = tickets[t].status
  <2>1. WithStatus(s)' = WithStatus(s) \ {t} /\ t \in WithStatus(s)
    BY <1>2, <1>4 DEF WithStatus
  <2> QED
    BY <1>1, <1>4, <2>1, FS_RemoveElement
<1>5. CASE s # to /\ s # tickets[t].status
  <2>1. WithStatus(s)' = WithStatus(s)
    BY <1>2, <1>5 DEF WithStatus
  <2> QED
    BY <1>5, <2>1
<1> QED
  BY <1>3, <1>4, <1>5

LEMMA MoveCountsDone ==
  ASSUME Typing, NEW t \in Tickets, NEW to \in TicketStatus, NEW counter, LogsMove(t, to, counter),
         NEW c
  PROVE  Cardinality(DoneTickets(c)') =
           IF to = "DONE" /\ tickets[t].counter = c THEN Cardinality(DoneTickets(c)) + 1
           ELSE Cardinality(DoneTickets(c))
<1>1. IsFiniteSet(DoneTickets(c)) /\ Cardinality(DoneTickets(c)) \in Nat
  <2>1. DoneTickets(c) \in SUBSET Tickets
    BY DEF DoneTickets
  <2> QED
    BY <2>1, DayBookAssumption, FS_Subset, FS_CardinalityType
<1>2. /\ tickets'[t].status = to /\ \A x \in Tickets \ {t} : tickets'[x] = tickets[x]
      /\ tickets[t].status # "DONE"
      /\ to = "DONE" => tickets'[t].counter = tickets[t].counter
  BY DEF LogsMove, Moved, MayMove, ALLOWED_TRANSITIONS, TicketStatus
<1>3. CASE to = "DONE" /\ tickets[t].counter = c
  <2>1. DoneTickets(c)' = DoneTickets(c) \cup {t} /\ t \notin DoneTickets(c)
    BY <1>2, <1>3 DEF DoneTickets
  <2> QED
    BY <1>1, <1>3, <2>1, FS_AddElement
<1>4. CASE ~(to = "DONE" /\ tickets[t].counter = c)
  <2>1. DoneTickets(c)' = DoneTickets(c)
    BY <1>2, <1>4 DEF DoneTickets
  <2> QED
    BY <1>4, <2>1
<1> QED
  BY <1>3, <1>4

LEMMA MoveKeepsFigures ==
  ASSUME Typing, FigInv, NEW t \in Tickets, NEW to \in TicketStatus,
         NEW counter \in Counters \cup {None}, LogsMove(t, to, counter)
  PROVE  FigInv'
<1> DEFINE row == LogRow(t, ActionOf(to), counter)
<1>1. /\ row \in Row /\ row.action = ActionOf(to) /\ row.ticket = t /\ row.at = now
      /\ to = "DONE" => row.counter = tickets[t].counter
      /\ to = "CALLED" => row.elapsed = now - tickets[t].created
      /\ log \in Seq(Row) /\ log' = Append(log, row) /\ now \in Int /\ now' = now
  BY TimeIsInt DEF LogsMove, LogRow, Typing, ActionOf
<1>2. /\ DOMAIN log' = 1 .. Len(log) + 1 /\ DOMAIN log = 1 .. Len(log) /\ Len(log) \in Nat
      /\ \A i \in DOMAIN log : log'[i] = log[i]
      /\ log'[Len(log) + 1] = row
  BY <1>1, AppendEffect
<1> HIDE DEF row
<1>3. /\ tickets[t].status \in TicketStatus /\ tickets[t].status # UNBORN
      /\ tickets[t].status # to /\ tickets'[t].status = to /\ to # UNBORN
      /\ \A x \in Tickets \ {t} : tickets'[x] = tickets[x]
      /\ tickets'[t].created = tickets[t].created
      /\ tickets[t].status \notin TerminalActions
      /\ to = "ABSENT" => tickets[t].status = "CALLED"
      /\ ActionOf(to) # "CREATED" /\ \A s \in TicketStatus \ {"WAITING"} : ActionOf(to) = s <=> to = s
  BY DEF LogsMove, Moved, MayMove, ALLOWED_TRANSITIONS, TicketStatus, UNBORN, TerminalActions,
         ActionOf
<1>4. /\ \A a : Cardinality(RowsOf(a)) \in Nat
      /\ \A a : Cardinality(RowsOf(a)') = IF ActionOf(to) = a THEN Cardinality(RowsOf(a)) + 1
                                          ELSE Cardinality(RowsOf(a))
  BY <1>1, RowsAppend, RowsType
<1>5. /\ \A s : Cardinality(WithStatus(s)) \in Nat
      /\ \A s : Cardinality(WithStatus(s)') =
               IF s = to THEN Cardinality(WithStatus(s)) + 1
               ELSE IF s = tickets[t].status THEN Cardinality(WithStatus(s)) - 1
               ELSE Cardinality(WithStatus(s))
  BY StatusesFinite, MoveCounts
<1>6. \A x \in Tickets : Born(x)' <=> Born(x)
  BY <1>3 DEF Born
<1>7. RowsDated'
  <2>1. ASSUME NEW i \in DOMAIN log', NEW x, x = log'[i].ticket
        PROVE  log'[i].at <= now /\ x \in Tickets /\ Born(x)
    <3>1. CASE i \in DOMAIN log
      BY <1>1, <1>2, <2>1, <3>1, RowFields DEF FigInv, RowsDated
    <3>2. CASE i \notin DOMAIN log
      <4>1. i = Len(log) + 1
        BY <1>2, <3>2
      <4> QED
        BY <1>1, <1>2, <1>3, <2>1, <4>1 DEF Born
    <3> QED
      BY <3>1, <3>2
  <2>2. ASSUME NEW i \in DOMAIN log' PROVE log'[i].at <= now' /\ Born(log[i].ticket)'
    <3>1. log'[i].at <= now /\ \A x : x = log'[i].ticket => x \in Tickets /\ Born(x)
      BY <2>1
    <3>2. \A x : x = log'[i].ticket => tickets'[x].status # UNBORN
      BY <1>6, <3>1 DEF Born
    <3> QED
      BY <1>1, <3>1, <3>2 DEF Born
  <2> QED
    BY <2>2 DEF RowsDated
<1>8. CreatedCounted'
  <2>1. WithRow' = WithRow
    BY <1>6 DEF WithRow, HasRow, At, LogsMove
  <2> QED
    BY <1>3, <1>4, <2>1 DEF FigInv, CreatedCounted
<1>9. FinalCounted'
  <2> SUFFICES ASSUME NEW a \in TerminalActions
               PROVE  Cardinality(RowsOf(a)') = Cardinality(WithStatus(a)')
    BY DEF FinalCounted
  <2>1. a \in TicketStatus \ {"WAITING"} /\ a # tickets[t].status
    BY <1>3 DEF TerminalActions, TicketStatus
  <2>2. Cardinality(RowsOf(a)) = Cardinality(WithStatus(a))
    BY DEF FigInv, FinalCounted
  <2> QED
    BY <1>3, <1>4, <1>5, <2>1, <2>2
<1>10. AbsentBelowCalled'
  <2>1. /\ Cardinality(RowsOf("ABSENT")') =
             IF to = "ABSENT" THEN Cardinality(RowsOf("ABSENT")) + 1
             ELSE Cardinality(RowsOf("ABSENT"))
        /\ Cardinality(RowsOf("CALLED")') =
             IF to = "CALLED" THEN Cardinality(RowsOf("CALLED")) + 1
             ELSE Cardinality(RowsOf("CALLED"))
    BY <1>3, <1>4 DEF TicketStatus
  <2>2. Cardinality(RowsOf("ABSENT")) + Cardinality(WithStatus("CALLED"))
          <= Cardinality(RowsOf("CALLED"))
    BY DEF FigInv, AbsentBelowCalled
  <2>3. Cardinality(WithStatus("CALLED")') =
          IF to = "CALLED" THEN Cardinality(WithStatus("CALLED")) + 1
          ELSE IF tickets[t].status = "CALLED" THEN Cardinality(WithStatus("CALLED")) - 1
          ELSE Cardinality(WithStatus("CALLED"))
    BY <1>5
  <2>4. /\ Cardinality(RowsOf("ABSENT")) \in Nat /\ Cardinality(RowsOf("CALLED")) \in Nat
        /\ Cardinality(WithStatus("CALLED")) \in Nat
    BY <1>4, <1>5
  <2> QED
    BY <1>3, <2>1, <2>2, <2>3, <2>4 DEF AbsentBelowCalled
<1>11. DoneCounted'
  <2> SUFFICES ASSUME NEW c \in Counters
               PROVE  Cardinality(DoneRows(c)') = Cardinality(DoneTickets(c)')
    BY DEF DoneCounted
  <2>1. Cardinality(DoneRows(c)) = Cardinality(DoneTickets(c))
    BY DEF FigInv, DoneCounted
  <2>2. row.action = "DONE" <=> to = "DONE"
    BY <1>1, <1>3 DEF TicketStatus
  <2>3. Cardinality(DoneRows(c)') = IF row.action = "DONE" /\ row.counter = c
                                   THEN Cardinality(DoneRows(c)) + 1 ELSE Cardinality(DoneRows(c))
    BY <1>1, DoneRowsAppend
  <2>4. Cardinality(DoneTickets(c)') =
           IF to = "DONE" /\ tickets[t].counter = c THEN Cardinality(DoneTickets(c)) + 1
           ELSE Cardinality(DoneTickets(c))
    BY MoveCountsDone
  <2> QED
    BY <1>1, <2>1, <2>2, <2>3, <2>4
<1>12. FirstWait'
  <2> SUFFICES ASSUME NEW i \in DOMAIN log', log'[i].action = "CALLED", NEW x \in Tickets,
                      log'[i].ticket = x, Calls(x)' = 1
               PROVE  log'[i].elapsed = tickets'[x].called - tickets'[x].created
    BY DEF FirstWait, RowsOf
  <2>1. Calls(x) \in Nat /\ Calls(x)' = IF x = t /\ to = "CALLED" THEN Calls(x) + 1 ELSE Calls(x)
    BY CallsType DEF LogsMove, Moved, Typing
  <2>2. CASE i \in DOMAIN log /\ ~(x = t /\ to = "CALLED")
    <3>1. log[i].elapsed = tickets[x].called - tickets[x].created
      BY <1>2, <2>1, <2>2 DEF FigInv, FirstWait, RowsOf
    <3>2. tickets'[x].called = tickets[x].called /\ tickets'[x].created = tickets[x].created
      BY <1>3, <2>2 DEF LogsMove
    <3> QED
      BY <1>2, <2>2, <3>1, <3>2
  <2>3. CASE i \in DOMAIN log /\ x = t /\ to = "CALLED"
    <3> DEFINE I == {k \in DOMAIN log : log[k].ticket = x /\ log[k].action = "CALLED"}
    <3>1. Calls(x) = 0
      BY <2>1, <2>3
    <3>2. Cardinality(I) = 0 /\ IsFiniteSet(I)
      BY <1>1, <3>1, CallsType DEF Calls
    <3>3. i \in I
      BY <1>2, <2>3
    <3> QED
      BY <3>2, <3>3, FS_EmptySet
  <2>4. CASE i \notin DOMAIN log
    <3>1. i = Len(log) + 1
      BY <1>2, <2>4
    <3>2. log'[i] = row /\ x = t /\ ActionOf(to) = "CALLED"
      BY <1>1, <1>2, <3>1
    <3>3. to = "CALLED"
      BY <1>3, <3>2 DEF TicketStatus
    <3> QED
      BY <1>1, <1>3, <3>2, <3>3 DEF LogsMove
  <2> QED
    BY <2>2, <2>3, <2>4
<1> QED
  BY <1>7, <1>8, <1>9, <1>10, <1>11, <1>12 DEF FigInv

\* Every step has one of the three shapes.
LEMMA ShapeOfMove ==
  ASSUME TableInv, NEW t \in Tickets, NEW to \in TicketStatus,
         NEW counter \in Counters \cup {None}, NEW columns, Move(t, to, counter, columns),
         tickets[t] \in Ticket =>
           /\ columns \in Ticket /\ columns.created = tickets[t].created
           /\ columns.service = tickets[t].service /\ columns.sequence = tickets[t].sequence,
         IF to = "CALLED" THEN columns.called = now
         ELSE columns.called = tickets[t].called /\ columns.counter = tickets[t].counter,
         to = "DONE" => counter = None, UNCHANGED <<now, creating>>
  PROVE  LogsMove(t, to, counter)
<1>1. Typing /\ DatesSound(t)
  BY DEF TableInv
<1>2. Moved(t, to) /\ tickets'[t] = [columns EXCEPT !.status = to]
  BY <1>1, MoveEffect
<1>3. tickets[t] \in Ticket /\ Born(t)
  BY <1>1, MoverIsBorn DEF Move
<1>4. ActionOf(to) \in Actions
  BY DEF ActionOf, Actions, TicketStatus
<1>5. LogRow(t, ActionOf(to), counter) \in Row
  BY <1>1, <1>3, <1>4, LogRowType
<1>6. tickets'[t].called = columns.called /\ tickets'[t].counter = columns.counter
  BY <1>2, <1>3 DEF Ticket
<1> QED
  BY <1>2, <1>5, <1>6 DEF LogsMove, Move

LEMMA ShapeOfCreation ==
  ASSUME TableInv, NEW t \in Tickets, LogCreation(t)
  PROVE  LogsCreation(t)
<1>1. Typing /\ DatesSound(t) /\ CreatingSound(t)
  BY DEF TableInv, RowsSound
<1>2. /\ creating[t].pc = "log" /\ creating' = [creating EXCEPT ![t].pc = "enqueue"]
      /\ log' = Append(log, LogRow(t, "CREATED", None))
      /\ now' = now /\ tickets' = tickets
  BY DEF LogCreation, At
<1>3. Born(t)
  BY <1>1, <1>2 DEF CreatingSound
<1>4. LogRow(t, "CREATED", None) \in Row
  BY <1>1, <1>3, LogRowType DEF Actions
<1>5. creating'[t].pc = "enqueue" /\ \A x \in Tickets \ {t} : creating'[x] = creating[x]
  BY <1>1, <1>2 DEF Typing, Creating
<1>6. WithRow' = WithRow \cup {t} /\ t \notin WithRow
  BY <1>2, <1>3, <1>5 DEF WithRow, HasRow, At, Born
<1> QED
  BY <1>2, <1>3, <1>4, <1>6 DEF LogsCreation

LEMMA ShapeOfInsert ==
  ASSUME TableInv, NEW t \in Tickets, Insert(t)
  PROVE  LogsNothing
<1>1. /\ ~Born(t) /\ tickets'[t].status = "WAITING"
      /\ \A x \in Tickets \ {t} : tickets'[x] = tickets[x]
  BY InsertEffect
<1>2. creating' = [creating EXCEPT ![t].pc = "log"] /\ log' = log /\ now' = now
  BY DEF Insert
<1>3. creating'[t].pc = "log" /\ \A x \in Tickets \ {t} : creating'[x] = creating[x]
  BY <1>2 DEF TableInv, Typing, Creating
<1>4. \A x \in Tickets : HasRow(x)' <=> HasRow(x)
  BY <1>1, <1>3 DEF HasRow, At, Born
<1>5. now' \in Int /\ now <= now'
  BY <1>2, TimeIsInt DEF TableInv, Typing
<1>6. ASSUME NEW x \in Tickets
      PROVE  /\ Born(x) => KeepsTicket(x)
             /\ ~Born(x) => tickets'[x].status \in {UNBORN, "WAITING"}
  BY <1>1 DEF KeepsTicket, Born
<1> QED
  BY <1>2, <1>4, <1>5, <1>6 DEF LogsNothing

\* Steps that write neither log nor tickets, nor begin or end a creation's row.
LEMMA ShapeOfRest ==
  ASSUME TableInv, log' = log, now' \in Int, now <= now',
         \A x \in Tickets : KeepsTicket(x),
         \A x \in Tickets : Born(x) => (At(x, "log")' <=> At(x, "log"))
  PROVE  LogsNothing
<1>1. \A x \in Tickets : Born(x)' <=> Born(x)
  BY DEF KeepsTicket, Born
<1>2. \A x \in Tickets : HasRow(x)' <=> HasRow(x)
  BY <1>1 DEF HasRow
<1>3. \A x \in Tickets : ~Born(x) => tickets'[x].status = UNBORN
  BY DEF KeepsTicket, Born
<1> QED
  BY <1>2, <1>3 DEF LogsNothing

LEMMA StepShape ==
  ASSUME TableInv, Next
  PROVE  \/ LogsNothing
         \/ \E t \in Tickets : LogsCreation(t)
         \/ \E t \in Tickets, to \in TicketStatus, counter \in Counters \cup {None} :
              LogsMove(t, to, counter)
<1> DEFINE Shape == \/ LogsNothing
                    \/ \E t \in Tickets : LogsCreation(t)
                    \/ \E t \in Tickets, to \in TicketStatus, counter \in Counters \cup {None} :
                         LogsMove(t, to, counter)
<1>1. /\ Typing /\ now \in Int /\ now <= now /\ now + 1 \in Int /\ now <= now + 1
      /\ tickets \in [Tickets -> Ticket \cup {NoTicket}] /\ creating \in [Tickets -> Creating]
      /\ {"CALLED", "SERVING", "ABSENT", "DONE", "CANCELLED", "WAITING"} \subseteq TicketStatus
      /\ None \in Counters \cup {None}
  BY TimeIsInt DEF TableInv, Typing, TicketStatus
<1>2. tickets' = tickets => \A x \in Tickets : KeepsTicket(x)
  BY DEF KeepsTicket
<1>3. ASSUME NEW t \in Tickets, NEW u \in Users, NEW s \in Services, TakeNumber(t, u, s)
      PROVE  LogsNothing
  <2>1. tickets' = tickets /\ log' = log /\ now' = now /\ tickets[t] = NoTicket
    BY <1>3 DEF TakeNumber, rowVars
  <2>2. ~Born(t) /\ \A x \in Tickets \ {t} : creating'[x] = creating[x]
    BY <1>1, <1>3, <2>1 DEF TakeNumber, Born, NoTicket
  <2> QED
    BY <1>1, <1>2, <2>1, <2>2, ShapeOfRest DEF At
<1>4. ASSUME NEW t \in Tickets, Enqueue(t) PROVE LogsNothing
  <2>1. /\ tickets' = tickets /\ log' = log /\ now' = now /\ creating[t].pc = "enqueue"
        /\ creating' = [creating EXCEPT ![t].pc = "rank"]
    BY <1>4 DEF Enqueue, At
  <2>2. creating'[t].pc = "rank" /\ \A x \in Tickets \ {t} : creating'[x] = creating[x]
    BY <1>1, <2>1 DEF Creating
  <2> QED
    BY <1>1, <1>2, <2>1, <2>2, ShapeOfRest DEF At
<1>5. ASSUME NEW t \in Tickets, Estimate(t) PROVE LogsNothing
  <2> DEFINE eta == Eta(PositionAdded(t))
  <2>1. /\ tickets' = [tickets EXCEPT ![t].eta = eta] /\ log' = log /\ now' = now
        /\ creating[t].pc = "rank" /\ creating' = [creating EXCEPT ![t] = NotCreating]
    BY <1>5 DEF Estimate, At
  <2> HIDE DEF eta
  <2>2. creating'[t].pc = "none" /\ \A x \in Tickets \ {t} : creating'[x] = creating[x]
    BY <1>1, <2>1 DEF NotCreating
  <2>3. tickets'[t] = [tickets[t] EXCEPT !.eta = eta]
        /\ \A x \in Tickets \ {t} : tickets'[x] = tickets[x]
    BY <1>1, <2>1
  <2>4. tickets[t] \in Ticket \/ tickets[t] = NoTicket
    BY <1>1
  <2>5. KeepsTicket(t)
    BY <2>3, <2>4 DEF KeepsTicket, Ticket, NoTicket
  <2>6. \A x \in Tickets : KeepsTicket(x)
    BY <2>3, <2>5 DEF KeepsTicket
  <2> QED
    BY <1>1, <2>1, <2>2, <2>6, ShapeOfRest DEF At
<1>6. ASSUME NEW t \in Tickets, Cancel(t) PROVE LogsMove(t, "CANCELLED", None)
  BY <1>1, <1>6, ShapeOfMove DEF Cancel
<1>7. ASSUME NEW t \in Tickets, MarkAbsent(t) PROVE LogsMove(t, "ABSENT", None)
  BY <1>1, <1>7, ShapeOfMove DEF MarkAbsent
<1>8. ASSUME NEW t \in Tickets, ReturnToQueue(t) PROVE LogsMove(t, "WAITING", None)
  BY <1>1, <1>8, ShapeOfMove DEF ReturnToQueue
<1>9. ASSUME NEW t \in Tickets, StartServing(t) PROVE LogsMove(t, "SERVING", None)
  <2> DEFINE columns == [tickets[t] EXCEPT !.served = now]
  <2>1. tickets[t] \in Ticket
    BY <1>1, <1>9, MoverIsBorn DEF StartServing, Move
  <2>2. /\ columns \in Ticket /\ columns.created = tickets[t].created
        /\ columns.service = tickets[t].service /\ columns.sequence = tickets[t].sequence
        /\ columns.called = tickets[t].called /\ columns.counter = tickets[t].counter
    BY <1>1, <2>1 DEF Ticket, Typing
  <2>3. Move(t, "SERVING", None, columns) /\ UNCHANGED <<now, creating>>
    BY <1>9 DEF StartServing
  <2> HIDE DEF columns
  <2> QED
    BY <1>1, <2>2, <2>3, ShapeOfMove
<1>10. ASSUME NEW c \in Counters, NEW t \in Tickets, Complete(c, t)
       PROVE  LogsMove(t, "DONE", None)
  <2> DEFINE actual  == IF tickets[t].served # None THEN now - tickets[t].served ELSE None
             columns == [tickets[t] EXCEPT !.done = now, !.actual = actual]
  <2>1. Move(t, "DONE", None, columns) /\ UNCHANGED <<now, creating>>
    BY <1>10 DEF Complete
  <2>2. tickets[t] \in Ticket /\ DatesSound(t) /\ Born(t)
    BY <1>1, <2>1, MoverIsBorn DEF TableInv, Move
  <2>3. actual \in Time \cup {None} /\ now \in Time
    BY <1>1, <2>2, TicketFields, DayBookAssumption DEF DatesSound, Time, Typing
  <2> HIDE DEF actual
  <2>4. /\ columns \in Ticket /\ columns.created = tickets[t].created
        /\ columns.service = tickets[t].service /\ columns.sequence = tickets[t].sequence
        /\ columns.called = tickets[t].called /\ columns.counter = tickets[t].counter
    BY <2>2, <2>3 DEF Ticket
  <2> HIDE DEF columns
  <2> QED
    BY <1>1, <2>1, <2>4, ShapeOfMove
<1>11. ASSUME NEW c \in Counters, NEW s \in Services, CallNext(c, s)
       PROVE  \E t \in Tickets : LogsMove(t, "CALLED", c)
  <2>1. PICK t \in Tickets : t = Head(queue[s])
    BY <1>11, CallNextKeepsTable
  <2> DEFINE columns == [tickets[t] EXCEPT !.called = now, !.counter = c]
  <2>2. Move(t, "CALLED", c, columns) /\ UNCHANGED <<now, creating>>
    BY <1>11, <2>1 DEF CallNext
  <2>3. tickets[t] \in Ticket
    BY <1>1, <2>2, MoverIsBorn DEF Move
  <2>4. /\ columns \in Ticket /\ columns.created = tickets[t].created
        /\ columns.service = tickets[t].service /\ columns.sequence = tickets[t].sequence
        /\ columns.called = now
    BY <1>1, <2>3 DEF Ticket, Typing
  <2> HIDE DEF columns
  <2>5. c \in Counters \cup {None}
    OBVIOUS
  <2> QED
    BY <1>1, <2>2, <2>4, <2>5, ShapeOfMove
<1>12. ASSUME NEW c \in Counters, Send(c) \/ Save(c) \/ SaveFails(c) PROVE LogsNothing
  <2>1. tickets' = tickets /\ log' = log /\ now' = now /\ creating' = creating
    BY <1>12 DEF Send, Save, SaveFails, rowVars
  <2> QED
    BY <1>1, <1>2, <2>1, ShapeOfRest DEF At
<1>13. CASE Tick
  <2>1. tickets' = tickets /\ log' = log /\ now' = now + 1 /\ creating' = creating
    BY <1>13 DEF Tick, rowVars
  <2> QED
    BY <1>1, <1>2, <2>1, ShapeOfRest DEF At
<1> QED
  BY <1>1, <1>3, <1>4, <1>5, <1>6, <1>7, <1>8, <1>9, <1>10, <1>11, <1>12, <1>13,
     ShapeOfInsert, ShapeOfCreation DEF Next

LEMMA FiguresStep ==
  ASSUME TableInv, FigInv, [Next]_vars
  PROVE  FigInv'
<1>1. Typing
  BY DEF TableInv
<1>2. CASE Next
  BY <1>1, <1>2, StepShape, NothingKeepsFigures, CreationKeepsFigures, MoveKeepsFigures
<1>3. CASE UNCHANGED vars
  <2>1. LogsNothing
    BY <1>1, <1>3, ShapeOfRest, TimeIsInt
       DEF vars, rowVars, Typing, KeepsTicket, At
  <2> QED
    BY <1>1, <2>1, NothingKeepsFigures
<1> QED
  BY <1>2, <1>3

LEMMA FiguresInit == Init => FigInv
<1> SUFFICES ASSUME Init PROVE FigInv
  OBVIOUS
<1>1. /\ log = <<>> /\ DOMAIN log = {}
      /\ \A t \in Tickets : tickets[t].status = UNBORN
  BY DEF Init, NoTicket
<1>2. /\ \A a : RowsOf(a) = {} /\ \A c : DoneRows(c) = {}
      /\ \A s : s # UNBORN => WithStatus(s) = {}
      /\ \A c : DoneTickets(c) = {}
      /\ WithRow = {}
  BY <1>1 DEF RowsOf, DoneRows, WithStatus, DoneTickets, WithRow, HasRow, Born, UNBORN
<1>3. Cardinality({}) = 0
  BY FS_EmptySet
<1>4. RowsDated /\ FirstWait
  BY <1>1, <1>2 DEF RowsDated, FirstWait
<1>5. CreatedCounted /\ DoneCounted
  BY <1>2 DEF CreatedCounted, DoneCounted
<1>6. FinalCounted
  <2>1. \A a \in TerminalActions : a # UNBORN
    BY FinalStatuses
  <2> QED
    BY <1>2, <2>1 DEF FinalCounted
<1>7. AbsentBelowCalled
  <2>1. RowsOf("ABSENT") = {} /\ RowsOf("CALLED") = {} /\ WithStatus("CALLED") = {}
    BY <1>2 DEF UNBORN
  <2> QED
    BY <1>3, <2>1 DEF AbsentBelowCalled
<1> QED
  BY <1>4, <1>5, <1>6, <1>7 DEF FigInv

LEMMA FiguresAlways == Spec => []FigInv
<1>1. DInv => TableInv
  BY DEF DInv
<1>2. TableInv /\ FigInv /\ [Next]_vars => FigInv'
  BY FiguresStep
<1> QED
  BY <1>1, <1>2, FiguresInit, DayBookAlways, PTL DEF Spec

LEMMA RateIsPercentage ==
  ASSUME NEW a \in Nat, NEW c \in Nat, c > 0, a <= c
  PROVE  (a * 100) \div c \in 0 .. 100
<1> DEFINE n == a * 100
<1>1. n \in Nat /\ n <= 100 * c
  OBVIOUS
<1> HIDE DEF n
<1>2. PICK q : q = n \div c
  OBVIOUS
<1>3. q \in Int /\ c * q <= n /\ n < c * q + c
  BY <1>1, <1>2
<1>4. c * q <= c * 100
  BY <1>1, <1>3
<1>5. q <= 100
  BY <1>3, <1>4
<1>6. q >= 0
  BY <1>1, <1>3
<1> QED
  BY <1>2, <1>3, <1>5, <1>6 DEF n

\* Over the whole time, all rows count.
LEMMA RowsOfWholeTime ==
  ASSUME Typing, FigInv, NEW a
  PROVE  Rows(log, WholeTime, a) = RowsOf(a)
<1>1. \A i \in DOMAIN log : 0 <= log[i].at /\ log[i].at <= now
  BY RowFields DEF Typing, FigInv, RowsDated
<1>2. WholeTime.from = 0 /\ WholeTime.to = now
  BY DEF WholeTime
<1> QED
  BY <1>1, <1>2 DEF Rows, RowsOf

LEMMA CountOfWholeTime ==
  ASSUME Typing, FigInv, NEW a
  PROVE  Count(log, WholeTime, a) = Cardinality(RowsOf(a))
BY RowsOfWholeTime DEF Count

\* Over the whole time, in any number of tickets, services and days: the summary
\* counts each ticket once as created and by its final status, its absence rate is
\* a percentage, and a ticket called once waited from its creation to its call.
THEOREM SummaryAlwaysAgrees == Spec => []SummaryAgrees
<1>1. DInv /\ FigInv => SummaryAgrees
  <2> SUFFICES ASSUME DInv, FigInv PROVE SummaryAgrees
    OBVIOUS
  <2> DEFINE summary == AgencySummary(log, WholeTime)
             logged == {t \in ToSet(book) : ~At(t, "log")}
  <2>1. Typing /\ BookSound
    BY DEF DInv, TableInv, RowsSound
  <2>2. summary.total_tickets = Cardinality(logged)
    <3>1. logged = WithRow
      BY <2>1 DEF ToSet, WithRow, HasRow, BookSound, Typing
    <3>2. summary.total_tickets = Count(log, WholeTime, "CREATED")
      BY DEF AgencySummary
    <3> QED
      BY <2>1, <3>1, <3>2, CountOfWholeTime DEF FigInv, CreatedCounted
  <2>3. ASSUME NEW a \in TerminalActions
        PROVE  Cardinality(WithStatus(a)) =
                 IF a \in DOMAIN summary.tickets_by_status
                 THEN summary.tickets_by_status[a] ELSE 0
    <3>1. summary.tickets_by_status = TicketsByFinalStatus(log, WholeTime)
      BY DEF AgencySummary
    <3>2. /\ a \in DOMAIN TicketsByFinalStatus(log, WholeTime) <=> RowsOf(a) # {}
          /\ RowsOf(a) # {} => TicketsByFinalStatus(log, WholeTime)[a] = Cardinality(RowsOf(a))
      BY <2>1, RowsOfWholeTime, CountOfWholeTime DEF TicketsByFinalStatus
    <3>3. Cardinality(WithStatus(a)) = Cardinality(RowsOf(a))
      BY DEF FigInv, FinalCounted
    <3> QED
      BY <3>1, <3>2, <3>3, FS_EmptySet
  <2>4. summary.absence_rate \in 0 .. 100
    <3>1. summary.absence_rate =
            IF Count(log, WholeTime, "CALLED") > 0
            THEN (Count(log, WholeTime, "ABSENT") * 100) \div Count(log, WholeTime, "CALLED") ELSE 0
      BY DEF AgencySummary
    <3>2. PICK a, c : a = Count(log, WholeTime, "ABSENT") /\ c = Count(log, WholeTime, "CALLED")
      OBVIOUS
    <3>3. a \in Nat /\ c \in Nat /\ a <= c
      <4>1. log \in Seq(Row)
        BY <2>1 DEF Typing
      <4>2. /\ a = Cardinality(RowsOf("ABSENT")) /\ c = Cardinality(RowsOf("CALLED"))
            /\ Cardinality(WithStatus("CALLED")) \in Nat /\ a \in Nat /\ c \in Nat
        BY <2>1, <3>2, <4>1, CountOfWholeTime, RowsType, StatusesFinite
      <4> QED
        BY <4>2 DEF FigInv, AbsentBelowCalled
    <3> HIDE DEF summary
    <3> QED
      BY <3>1, <3>2, <3>3, RateIsPercentage
  <2>5. ASSUME NEW i \in Rows(log, WholeTime, "CALLED"), Calls(log[i].ticket) = 1
        PROVE  log[i].elapsed = tickets[log[i].ticket].called - tickets[log[i].ticket].created
    <3>1. i \in RowsOf("CALLED") /\ i \in DOMAIN log
      BY <2>1, RowsOfWholeTime DEF RowsOf
    <3>2. log[i].ticket \in Tickets
      BY <2>1, <3>1, RowFields DEF Typing
    <3> QED
      BY <2>5, <3>1, <3>2 DEF FigInv, FirstWait
  <2> QED
    BY <2>2, <2>3, <2>4, <2>5 DEF SummaryAgrees
<1> QED
  BY <1>1, DayBookAlways, FiguresAlways, PTL

\* Each ticket done counts, in get_counter_performance, for the counter that
\* called it last.
THEOREM CountersAlwaysAgree == Spec => []CountersAgree
<1>1. DInv /\ FigInv => CountersAgree
  <2> SUFFICES ASSUME DInv, FigInv, NEW c \in Counters
               PROVE  Cardinality({t \in WithStatus("DONE") : tickets[t].counter = c}) =
                        IF c \in DOMAIN CounterPerformance(log, WholeTime)
                        THEN CounterPerformance(log, WholeTime)[c] ELSE 0
    BY DEF CountersAgree
  <2> DEFINE done == {i \in Rows(log, WholeTime, "DONE") : log[i].counter # None}
  <2>1. Typing
    BY DEF DInv, TableInv
  <2>2. {t \in WithStatus("DONE") : tickets[t].counter = c} = DoneTickets(c)
    BY DEF WithStatus, DoneTickets
  <2>3. {i \in done : log[i].counter = c} = DoneRows(c)
    BY <2>1, RowsOfWholeTime, NoneIsNoNumber DEF RowsOf, DoneRows
  <2>4. /\ c \in DOMAIN CounterPerformance(log, WholeTime) <=> DoneRows(c) # {}
        /\ c \in DOMAIN CounterPerformance(log, WholeTime) =>
             CounterPerformance(log, WholeTime)[c] = Cardinality(DoneRows(c))
    <3>1. c \in {log[i].counter : i \in done} <=> DoneRows(c) # {}
      BY <2>3
    <3> QED
      BY <2>3, <3>1 DEF CounterPerformance
  <2>5. Cardinality(DoneTickets(c)) = Cardinality(DoneRows(c))
    BY DEF FigInv, DoneCounted
  <2> QED
    BY <2>2, <2>4, <2>5, FS_EmptySet
<1> QED
  BY <1>1, DayBookAlways, FiguresAlways, PTL

-----------------------------------------------------------------------------
(* The sum over a finite set.  SumFunctionOnSet is a recursive function; what *)
(* holds of it for every finite set follows from a minimal counterexample.    *)

\* The recursive function of SumFunctionOnSet(g, S).
IsSum(iter, g, S) ==
  iter = [s \in SUBSET S |-> IF s = {} THEN 0
                             ELSE g[CHOOSE x \in s : TRUE] + iter[s \ {CHOOSE x \in s : TRUE}]]

LEMMA SumIsChosen ==
  ASSUME NEW g, NEW S
  PROVE  SumFunctionOnSet(g, S) = (CHOOSE iter : IsSum(iter, g, S))[S]
  BY DEF SumFunctionOnSet, FoldFunctionOnSet, MapThenFoldSet, IsSum

\* Every non-empty set of subsets of a finite set has a minimal member.
LEMMA MinimalSubset ==
  ASSUME NEW S, IsFiniteSet(S), NEW T \in SUBSET (SUBSET S), T # {}
  PROVE  \E s \in T : \A r \in SUBSET s : r # s => r \notin T
<1>1. IsWellFoundedOn(StrictSubsetOrdering(S), FiniteSubsetsOf(S))
  BY FS_StrictSubsetOrderingWellFounded
<1>2. FiniteSubsetsOf(S) = SUBSET S
  BY FS_Subset DEF FiniteSubsetsOf
<1>3. PICK s \in T : \A r \in T : <<r, s>> \notin StrictSubsetOrdering(S)
  BY <1>1, <1>2, WFMin
<1>4. ASSUME NEW r \in SUBSET s, r # s
      PROVE  r \notin T
  <2>1. SUFFICES ASSUME r \in T PROVE FALSE
    OBVIOUS
  <2>2. <<r, s>> \in StrictSubsetOrdering(S)
    BY <1>4, <2>1 DEF StrictSubsetOrdering
  <2> QED
    BY <1>3, <2>1, <2>2
<1> QED
  BY <1>4

\* Two such functions agree where both are defined.
LEMMA SumUnique ==
  ASSUME NEW g, NEW S, NEW R, IsFiniteSet(S), NEW i, NEW j, IsSum(i, g, S), IsSum(j, g, R),
         NEW s \in SUBSET S, s \in SUBSET R
  PROVE  i[s] = j[s]
<1> DEFINE T == {r \in SUBSET s : i[r] # j[r]}
<1>1. SUFFICES ASSUME T # {} PROVE FALSE
  OBVIOUS
<1>2. IsFiniteSet(s) /\ T \in SUBSET (SUBSET s)
  BY FS_Subset
<1>3. PICK r \in T : \A q \in SUBSET r : q # r => q \notin T
  <2> HIDE DEF T
  <2> QED
    BY <1>1, <1>2, MinimalSubset
<1> DEFINE c == CHOOSE x \in r : TRUE
<1>4. /\ i[r] = IF r = {} THEN 0 ELSE g[c] + i[r \ {c}]
      /\ j[r] = IF r = {} THEN 0 ELSE g[c] + j[r \ {c}]
  <2>1. r \in SUBSET S /\ r \in SUBSET R
    OBVIOUS
  <2> QED
    BY <2>1 DEF IsSum
<1>5. r # {}
  BY <1>4
<1>6. c \in r
  BY <1>5
<1>7. r \ {c} \in SUBSET r /\ r \ {c} # r
  BY <1>6
<1>8. i[r \ {c}] = j[r \ {c}]
  <2> HIDE DEF c
  <2>1. r \ {c} \notin T
    BY <1>3, <1>7
  <2> QED
    BY <2>1, <1>7
<1> QED
  BY <1>4, <1>5, <1>8

\* It exists for a finite set.
LEMMA SumExists ==
  ASSUME NEW g, NEW S, IsFiniteSet(S)
  PROVE  \E iter : IsSum(iter, g, S)
<1> DEFINE T == {s \in SUBSET S : ~ \E iter : IsSum(iter, g, s)}
<1>1. SUFFICES ASSUME T # {} PROVE FALSE
  OBVIOUS
<1>2. PICK s \in T : \A r \in SUBSET s : r # s => r \notin T
  <2>1. T \in SUBSET (SUBSET S)
    OBVIOUS
  <2> HIDE DEF T
  <2> QED
    BY <1>1, <2>1, MinimalSubset
<1> DEFINE F(r) == CHOOSE iter : IsSum(iter, g, r)
           V(r) == F(r)[r]
           c(r) == CHOOSE x \in r : TRUE
           it == [r \in SUBSET s |-> IF r = {} THEN 0 ELSE g[c(r)] + V(r \ {c(r)})]
<1>3. ASSUME NEW r \in SUBSET s, r # s
      PROVE  IsSum(F(r), g, r)
  <2>1. r \notin T /\ r \in SUBSET S
    BY <1>2, <1>3
  <2>2. \E iter : IsSum(iter, g, r)
    BY <2>1
  <2> QED
    BY <2>2
<1>4. ASSUME NEW r \in SUBSET s, r # {}
      PROVE  c(r) \in r /\ r \ {c(r)} \in SUBSET s /\ r \ {c(r)} # s /\ r \ {c(r)} \in SUBSET r
  BY <1>4
<1>5. ASSUME NEW q \in SUBSET s, q # s
      PROVE  V(q) = IF q = {} THEN 0 ELSE g[c(q)] + V(q \ {c(q)})
  <2>1. IsSum(F(q), g, q)
    BY <1>3, <1>5
  <2>2. F(q)[q] = IF q = {} THEN 0 ELSE g[c(q)] + F(q)[q \ {c(q)}]
    <3> HIDE DEF F
    <3> QED
      BY <2>1 DEF IsSum
  <2>3. ASSUME q # {}
        PROVE  F(q)[q \ {c(q)}] = F(q \ {c(q)})[q \ {c(q)}]
    <3>1. c(q) \in q /\ q \ {c(q)} \in SUBSET s /\ q \ {c(q)} # s /\ q \ {c(q)} \in SUBSET q
      BY <1>4, <2>3
    <3>2. IsSum(F(q \ {c(q)}), g, q \ {c(q)})
      BY <1>3, <3>1
    <3>3. IsFiniteSet(q)
      BY FS_Subset
    <3> HIDE DEF F, c
    <3> QED
      BY <2>1, <3>1, <3>2, <3>3, SumUnique
  <2> QED
    BY <2>2, <2>3
<1>6. IsSum(it, g, s)
  <2>1. ASSUME NEW r \in SUBSET s
        PROVE  it[r] = IF r = {} THEN 0 ELSE g[c(r)] + it[r \ {c(r)}]
    <3>1. it[r] = IF r = {} THEN 0 ELSE g[c(r)] + V(r \ {c(r)})
      OBVIOUS
    <3>2. ASSUME r # {}
          PROVE  V(r \ {c(r)}) = it[r \ {c(r)}]
      <4>1. r \ {c(r)} \in SUBSET s /\ r \ {c(r)} # s
        BY <1>4, <3>2
      <4> DEFINE q == r \ {c(r)}
      <4>2. V(q) = IF q = {} THEN 0 ELSE g[c(q)] + V(q \ {c(q)})
        BY <1>5, <4>1
      <4>3. it[q] = IF q = {} THEN 0 ELSE g[c(q)] + V(q \ {c(q)})
        <5> HIDE DEF q, V, c
        <5> QED
          BY <4>1 DEF q
      <4> QED
        BY <4>2, <4>3
    <3> QED
      BY <3>1, <3>2
  <2>2. it = [r \in SUBSET s |-> it[r]]
    OBVIOUS
  <2> HIDE DEF it
  <2> QED
    BY <2>1, <2>2 DEF IsSum
<1> QED
  BY <1>6

\* The equation of a sum.
LEMMA SumEquation ==
  ASSUME NEW g, NEW S, IsFiniteSet(S)
  PROVE  LET c == CHOOSE x \in S : TRUE
         IN  SumFunctionOnSet(g, S) = IF S = {} THEN 0 ELSE g[c] + SumFunctionOnSet(g, S \ {c})
<1> DEFINE F(r) == CHOOSE iter : IsSum(iter, g, r)
           c == CHOOSE x \in S : TRUE
<1>1. /\ SumFunctionOnSet(g, S) = F(S)[S]
      /\ SumFunctionOnSet(g, S \ {c}) = F(S \ {c})[S \ {c}]
  BY SumIsChosen
<1>2. IsFiniteSet(S \ {c})
  BY FS_Subset
<1>3. IsSum(F(S), g, S) /\ IsSum(F(S \ {c}), g, S \ {c})
  BY <1>2, SumExists
<1>4. F(S)[S] = IF S = {} THEN 0 ELSE g[c] + F(S)[S \ {c}]
  <2> HIDE DEF F
  <2> QED
    BY <1>3 DEF IsSum
<1>5. F(S)[S \ {c}] = F(S \ {c})[S \ {c}]
  <2> HIDE DEF F, c
  <2> QED
    BY <1>3, SumUnique
<1> QED
  BY <1>1, <1>4, <1>5

\* g[x] is the number of members of I with the key x, one of S.
Shares(g, I, k, S) ==
  /\ \A i \in I : k[i] \in S
  /\ \A x \in S : g[x] = Cardinality({i \in I : k[i] = x})

\* The numbers of members with each key add up to the number of members.
LEMMA SumOfShares ==
  ASSUME NEW I, IsFiniteSet(I), NEW S, IsFiniteSet(S), NEW k, NEW g, Shares(g, I, k, S)
  PROVE  SumFunctionOnSet(g, S) = Cardinality(I)
<1> DEFINE In(R) == {i \in I : k[i] \in R}
           T == {R \in SUBSET S : SumFunctionOnSet(g, R) # Cardinality(In(R))}
<1>1. SUFFICES ASSUME T # {} PROVE FALSE
  <2>1. In(S) = I
    BY DEF Shares
  <2> QED
    BY <2>1
<1>2. PICK R \in T : \A Q \in SUBSET R : Q # R => Q \notin T
  <2>1. T \in SUBSET (SUBSET S)
    OBVIOUS
  <2> HIDE DEF T
  <2> QED
    BY <1>1, <2>1, MinimalSubset
<1> DEFINE c == CHOOSE x \in R : TRUE
<1>3. SumFunctionOnSet(g, R) = IF R = {} THEN 0 ELSE g[c] + SumFunctionOnSet(g, R \ {c})
  <2>1. IsFiniteSet(R)
    BY FS_Subset
  <2> QED
    BY <2>1, SumEquation
<1>4. R # {}
  <2>1. ASSUME R = {} PROVE Cardinality(In(R)) = 0
    <3>1. In(R) = {}
      BY <2>1
    <3> QED
      BY <3>1, FS_EmptySet
  <2> QED
    BY <2>1, <1>3
<1>5. c \in R
  BY <1>4
<1>6. SumFunctionOnSet(g, R \ {c}) = Cardinality(In(R \ {c}))
  <2> HIDE DEF c
  <2>1. R \ {c} \in SUBSET R /\ R \ {c} # R /\ R \ {c} \in SUBSET S
    BY <1>5
  <2>2. R \ {c} \notin T
    BY <1>2, <2>1
  <2> QED
    BY <2>1, <2>2
<1>7. g[c] + Cardinality(In(R \ {c})) = Cardinality(In(R))
  <2> HIDE DEF c
  <2> DEFINE A == {i \in I : k[i] = c}
  <2>1. g[c] = Cardinality(A)
    BY <1>5 DEF Shares
  <2>2. IsFiniteSet(A) /\ IsFiniteSet(In(R \ {c}))
    BY FS_Subset
  <2>3. A \cup In(R \ {c}) = In(R) /\ A \cap In(R \ {c}) = {}
    BY <1>5
  <2> DEFINE B == In(R \ {c})
  <2> HIDE DEF A, B
  <2>4. /\ Cardinality(A \cup B) = Cardinality(A) + Cardinality(B) - Cardinality(A \cap B)
        /\ Cardinality(A) \in Nat /\ Cardinality(B) \in Nat
    BY <2>2, FS_Union, FS_CardinalityType DEF B
  <2>5. Cardinality(A \cap B) = 0
    BY <2>3, FS_EmptySet DEF B
  <2>6. Cardinality(A \cup B) = Cardinality(In(R))
    BY <2>3, Zenon DEF B
  <2>7. Cardinality(A) + Cardinality(B) = Cardinality(In(R))
    <3> HIDE DEF In
    <3> QED
      BY <2>4, <2>5, <2>6
  <2> QED
    BY <2>1, <2>7 DEF B
<1> QED
  BY <1>3, <1>4, <1>6, <1>7

-----------------------------------------------------------------------------
(* The volumes of any period.                                              *)

\* Any period: the services that have a row share out the tickets created.
LEMMA ServicesShareOut ==
  ASSUME log \in Seq(Row), NEW period
  PROVE  LET stats == ServiceStats(log, period)
         IN  SumFunction([s \in DOMAIN stats |-> stats[s].total_tickets]) = Count(log, period, "CREATED")
<1> DEFINE I == Rows(log, period, "CREATED")
           C == Rows(log, period, "CALLED")
           listed == {log[i].service : i \in I \cup C}
           k == [i \in I |-> log[i].service]
           g == [s \in listed |-> Cardinality({i \in I : log[i].service = s})]
           stats == ServiceStats(log, period)
<1>1. IsFiniteSet(I \cup C)
  <2>1. DOMAIN log = 1 .. Len(log) /\ Len(log) \in Nat /\ IsFiniteSet(1 .. Len(log))
    BY LenProperties, FS_Interval
  <2>2. I \cup C \in SUBSET (1 .. Len(log))
    BY <2>1 DEF Rows
  <2> QED
    BY <2>1, <2>2, FS_Subset
<1>2. IsFiniteSet(I)
  <2> HIDE DEF I, C
  <2> QED
    BY <1>1, FS_Subset
<1>3. IsFiniteSet(listed)
  <2> DEFINE f == [i \in I \cup C |-> log[i].service]
  <2>1. f \in Surjection(I \cup C, listed)
    <3> HIDE DEF I, C
    <3> QED
      BY DEF Surjection
  <2> HIDE DEF f, I, C, listed
  <2> QED
    BY <1>1, <2>1, FS_Surjection
<1>4. /\ DOMAIN stats = listed
      /\ \A s \in listed : stats[s].total_tickets = Cardinality({i \in I : log[i].service = s})
  BY DEF ServiceStats
<1>5. [s \in DOMAIN stats |-> stats[s].total_tickets] = g
  <2> HIDE DEF stats, listed, I
  <2> QED
    BY <1>4
<1>6. Shares(g, I, k, listed)
  <2>1. ASSUME NEW s
        PROVE  {i \in I : k[i] = s} = {i \in I : log[i].service = s}
    <3> HIDE DEF I
    <3> QED
      OBVIOUS
  <2>2. ASSUME NEW s \in listed
        PROVE  g[s] = Cardinality({i \in I : k[i] = s})
    <3>1. g[s] = Cardinality({i \in I : log[i].service = s})
      <4> HIDE DEF listed, I
      <4> QED
        OBVIOUS
    <3> HIDE DEF g, k, I, listed
    <3> QED
      BY <2>1, <3>1
  <2>3. ASSUME NEW i \in I
        PROVE  k[i] \in listed
    <3> HIDE DEF I, C
    <3> QED
      OBVIOUS
  <2> HIDE DEF g, k, I, listed
  <2> QED
    BY <2>2, <2>3 DEF Shares
<1>7. SumFunctionOnSet(g, listed) = Cardinality(I)
  <2> HIDE DEF g, listed, I, k
  <2> QED
    BY <1>2, <1>3, <1>6, SumOfShares
<1>8. SumFunction(g) = SumFunctionOnSet(g, listed)
  BY DEF SumFunction
<1> QED
  BY <1>5, <1>7, <1>8 DEF Count

\* Any period: so do the hours of the day.
LEMMA HoursShareOut ==
  ASSUME log \in Seq(Row), NEW period
  PROVE  SumFunction(HourlyDistribution(log, period)) = Count(log, period, "CREATED")
<1> DEFINE I == Rows(log, period, "CREATED")
           k == [i \in I |-> HourOf(log[i].at)]
           g == HourlyDistribution(log, period)
<1>1. IsFiniteSet(I)
  <2>1. DOMAIN log = 1 .. Len(log) /\ Len(log) \in Nat /\ IsFiniteSet(1 .. Len(log))
    BY LenProperties, FS_Interval
  <2>2. I \in SUBSET (1 .. Len(log))
    BY <2>1 DEF Rows
  <2> QED
    BY <2>1, <2>2, FS_Subset
<1>2. IsFiniteSet(Hours)
  BY DayBookAssumption, FS_Interval DEF Hours
<1>3. \A i \in I : k[i] \in Hours
  <2> SUFFICES ASSUME NEW i \in I PROVE HourOf(log[i].at) \in Hours
    OBVIOUS
  <2>1. log[i].at \in Nat
    BY RowFields, TimeIsInt DEF Rows
  <2> QED
    BY <2>1, DayBookAssumption DEF HourOf, Hours
<1>4. DOMAIN g = Hours /\ \A h \in Hours : g[h] = Cardinality({i \in I : k[i] = h})
  <2>1. \A h : {i \in I : k[i] = h} = {i \in I : HourOf(log[i].at) = h}
    OBVIOUS
  <2>2. g = [h \in Hours |-> Cardinality({i \in I : HourOf(log[i].at) = h})]
    BY DEF HourlyDistribution
  <2> HIDE DEF g, I
  <2> QED
    BY <2>1, <2>2
<1>5. SumFunctionOnSet(g, Hours) = Cardinality(I)
  <2> HIDE DEF g, I, k
  <2>1. Shares(g, I, k, Hours)
    BY <1>3, <1>4 DEF Shares
  <2> QED
    BY <1>1, <1>2, <2>1, SumOfShares
<1> QED
  BY <1>4, <1>5 DEF SumFunction, Count

\* Any period: there is a busiest hour just when a ticket was created.
LEMMA BusiestIsSome ==
  ASSUME log \in Seq(Row), NEW period, NEW h \in BusiestHour(log, period)
  PROVE  h = None <=> Count(log, period, "CREATED") = 0
<1> DEFINE I == Rows(log, period, "CREATED")
<1>1. IsFiniteSet(I)
  <2>1. DOMAIN log = 1 .. Len(log) /\ Len(log) \in Nat /\ IsFiniteSet(1 .. Len(log))
    BY LenProperties, FS_Interval
  <2>2. I \in SUBSET (1 .. Len(log))
    BY <2>1 DEF Rows
  <2> QED
    BY <2>1, <2>2, FS_Subset
<1>2. Count(log, period, "CREATED") = 0 <=> I = {}
  BY <1>1, FS_EmptySet DEF Count
<1>3. None \notin Hours
  BY NoneIsNoNumber, DayBookAssumption DEF Hours
<1>4. h = None <=> I = {}
  BY <1>3 DEF BusiestHour
<1> QED
  BY <1>2, <1>4

\* In any period from an hour up to now, also the default one, the services and
\* the hours of get_service_stats and get_hourly_distribution share out the tickets
\* created, and get_agency_summary has a busiest hour if there is any.
THEOREM VolumesAlwaysAgree == Spec => []VolumesAgree
<1>1. DInv => VolumesAgree
  <2>1. SUFFICES ASSUME log \in Seq(Row) PROVE VolumesAgree
    BY DEF DInv, TableInv, Typing
  <2>2. \A period :
          /\ LET stats == ServiceStats(log, period)
             IN  SumFunction([s \in DOMAIN stats |-> stats[s].total_tickets])
                   = Count(log, period, "CREATED")
          /\ SumFunction(HourlyDistribution(log, period)) = Count(log, period, "CREATED")
          /\ \A h \in BusiestHour(log, period) : h = None <=> Count(log, period, "CREATED") = 0
    BY <2>1, ServicesShareOut, HoursShareOut, BusiestIsSome
  <2> QED
    BY <2>2 DEF VolumesAgree
<1> QED
  BY <1>1, DayBookAlways, PTL

-----------------------------------------------------------------------------
(* A user's history.                                                       *)

\* The rank of each place of a set of places, the last place first.
RankOf(own) == [i \in own |-> Cardinality({j \in own : j >= i})]

\* The rank from the top in a set of places: each place has one, each number up
\* to the number of places is one place's.
LEMMA Ranks ==
  ASSUME NEW N \in Nat, NEW own \in SUBSET (1 .. N), NEW rank, rank = RankOf(own)
  PROVE  /\ IsFiniteSet(own) /\ Cardinality(own) \in Nat /\ Cardinality(own) <= N
         /\ \A i \in own : rank[i] \in 1 .. Cardinality(own)
         /\ \A i, j \in own : i < j => rank[i] > rank[j]
         /\ \A n \in 1 .. Cardinality(own) : \E i \in own : rank[i] = n
<1> DEFINE Up(i) == {j \in own : j >= i}
<1>1. IsFiniteSet(1 .. N) /\ Cardinality(1 .. N) = N
  BY FS_Interval
<1>2. IsFiniteSet(own) /\ Cardinality(own) \in Nat /\ Cardinality(own) <= N
  BY <1>1, FS_Subset, FS_CardinalityType
<1>3. ASSUME NEW i \in own
      PROVE  /\ rank[i] = Cardinality(Up(i)) /\ i \in Up(i) /\ Up(i) \in SUBSET own
             /\ IsFiniteSet(Up(i))
  <2>1. i \in Up(i) /\ Up(i) \in SUBSET own
    OBVIOUS
  <2>2. IsFiniteSet(Up(i))
    BY <1>2, <2>1, FS_Subset
  <2>3. rank[i] = Cardinality(Up(i))
    BY DEF RankOf
  <2> QED
    BY <2>1, <2>2, <2>3
<1>4. ASSUME NEW i \in own
      PROVE  rank[i] \in 1 .. Cardinality(own)
  <2> HIDE DEF Up
  <2>1. Cardinality(Up(i)) \in Nat /\ Cardinality(Up(i)) <= Cardinality(own)
    BY <1>2, <1>3, FS_Subset, FS_CardinalityType
  <2>2. Cardinality(Up(i)) # 0
    BY <1>3, FS_EmptySet
  <2> QED
    BY <1>2, <1>3, <2>1, <2>2
<1>5. ASSUME NEW i \in own, NEW j \in own, i < j
      PROVE  rank[i] > rank[j]
  <2>1. Up(j) \in SUBSET Up(i) /\ i \notin Up(j)
    <3>1. \A k \in own : k \in Int
      OBVIOUS
    <3>2. \A k \in own : k >= j => k >= i
      BY <1>5, <3>1
    <3>3. ~(i >= j)
      BY <1>5, <3>1
    <3> QED
      BY <3>2, <3>3
  <2> HIDE DEF Up
  <2>2. /\ Cardinality(Up(i)) # Cardinality(Up(j)) /\ Cardinality(Up(j)) <= Cardinality(Up(i))
        /\ Cardinality(Up(i)) \in Nat /\ Cardinality(Up(j)) \in Nat
    BY <1>3, <2>1, FS_Subset, FS_CardinalityType
  <2> QED
    BY <1>3, <2>2
<1>6. ASSUME NEW i \in own, NEW j \in own, rank[i] = rank[j]
      PROVE  i = j
  <2>1. rank[i] \in Int /\ rank[j] \in Int /\ i \in Int /\ j \in Int
    BY <1>4
  <2>2. ~(i < j) /\ ~(j < i)
    BY <1>5, <1>6, <2>1
  <2> QED
    BY <2>1, <2>2
<1>7. rank \in Injection(own, 1 .. Cardinality(own))
  <2>1. rank = [i \in own |-> rank[i]]
    BY DEF RankOf
  <2> QED
    BY <1>4, <1>6, <2>1 DEF Injection, IsInjective
<1>8. rank \in Surjection(own, 1 .. Cardinality(own))
  <2>1. IsFiniteSet(1 .. Cardinality(own)) /\ Cardinality(1 .. Cardinality(own)) = Cardinality(own)
    BY <1>2, FS_Interval
  <2> QED
    BY <1>2, <1>7, <2>1, FS_Injection
<1>9. \A n \in 1 .. Cardinality(own) : \E i \in own : rank[i] = n
  BY <1>8 DEF Surjection
<1> QED
  BY <1>2, <1>4, <1>5, <1>9

\* A list in the order of ranks: of the elements of b at the places in own, the
\* last first.
Latest(b, own) ==
  [n \in 1 .. Cardinality(own) |-> b[CHOOSE i \in own : Cardinality({j \in own : j >= i}) = n]]

LEMMA LatestPlaces ==
  ASSUME NEW S, NEW b \in Seq(S), NEW own \in SUBSET DOMAIN b
  PROVE  /\ Latest(b, own) \in Seq(S) /\ Len(Latest(b, own)) = Cardinality(own)
         /\ IsFiniteSet(own) /\ Cardinality(own) \in Nat /\ Cardinality(own) <= Len(b)
         /\ \A i \in own : RankOf(own)[i] \in 1 .. Cardinality(own) /\ Latest(b, own)[RankOf(own)[i]] = b[i]
         /\ \A n \in 1 .. Cardinality(own) : \E i \in own : RankOf(own)[i] = n
         /\ \A i, j \in own : i < j => RankOf(own)[i] > RankOf(own)[j]
<1> DEFINE N == Cardinality(own)
           at(n) == CHOOSE i \in own : Cardinality({j \in own : j >= i}) = n
           mine == [n \in 1 .. N |-> b[at(n)]]
<1>1. DOMAIN b = 1 .. Len(b) /\ Len(b) \in Nat
  BY LenProperties
<1>2. /\ IsFiniteSet(own) /\ N \in Nat /\ N <= Len(b)
      /\ \A i \in own : RankOf(own)[i] \in 1 .. N
      /\ \A n \in 1 .. N : \E i \in own : RankOf(own)[i] = n
      /\ \A i, j \in own : i < j => RankOf(own)[i] > RankOf(own)[j]
  <2>1. own \in SUBSET (1 .. Len(b))
    BY <1>1 
  <2> QED
    BY <1>1, <2>1, Ranks
<1>3. Latest(b, own) = mine
  BY DEF Latest
<1>4. ASSUME NEW n \in 1 .. N
      PROVE  at(n) \in own /\ RankOf(own)[at(n)] = n
  <2>1. PICK i \in own : RankOf(own)[i] = n
    BY <1>2
  <2>2. Cardinality({j \in own : j >= i}) = n
    BY <2>1 DEF RankOf
  <2>3. at(n) \in own /\ Cardinality({j \in own : j >= at(n)}) = n
    BY <2>2
  <2> HIDE DEF at
  <2> QED
    BY <2>3 DEF RankOf
<1>5. ASSUME NEW n \in 1 .. N
      PROVE  mine[n] = b[at(n)] /\ b[at(n)] \in S
  <2> HIDE DEF at, N
  <2> QED
    BY <1>4
<1>6. mine \in Seq(S) /\ Len(mine) = N
  <2> DEFINE m(n) == b[at(n)]
  <2>1. N \in Nat /\ \A n \in 1 .. N : m(n) \in S
    BY <1>2, <1>5
  <2>2. mine = [n \in 1 .. N |-> m(n)]
    OBVIOUS
  <2> HIDE DEF mine, N, m
  <2> QED
    BY <2>1, <2>2
<1>7. ASSUME NEW i \in own
      PROVE  mine[RankOf(own)[i]] = b[i]
  <2> HIDE DEF mine, at, N
  <2>1. PICK n : n = RankOf(own)[i]
    OBVIOUS
  <2>2. n \in 1 .. N
    BY <1>2, <2>1
  <2>3. at(n) \in own /\ RankOf(own)[at(n)] = n
    BY <1>4, <2>2
  <2>4. at(n) \in Int /\ i \in Int /\ n \in Int
    BY <1>1, <2>2, <2>3
  <2>5. ~(at(n) < i) /\ ~(i < at(n))
    BY <1>2, <2>1, <2>3, <2>4
  <2>6. at(n) = i
    BY <2>4, <2>5
  <2> QED
    BY <1>5, <2>1, <2>2, <2>6
<1> HIDE DEF mine
<1> QED
  BY <1>2, <1>3, <1>6, <1>7

\* The places of a user's tickets in the book.
Own(u) == {i \in DOMAIN book : tickets[book[i]].user = u}

\* get_history lists the user's tickets by the rank of their places.
LEMMA NewestIsLatest == ASSUME NEW u PROVE Newest(u) = Latest(book, Own(u)) /\ Own(u) \in SUBSET DOMAIN book
BY DEF Newest, Latest, Own

\* The lesser of two numbers.
LEMMA MinOfTwo ==
  ASSUME NEW a \in Int, NEW b \in Int
  PROVE  Min({a, b}) = IF a <= b THEN a ELSE b
BY DEF Min

\* LIMIT and OFFSET: what follows the first offset tickets of a list, PageSize of
\* them at most.
IsPage(items, mine, offset) ==
  items = SubSeq(mine, offset + 1, Min({offset + PageSize, Len(mine)}))

\* A page of a list: PageSize places after an offset, or those that there are.
LEMMA PageItems ==
  ASSUME NEW mine \in Seq(Tickets), NEW offset \in Nat, NEW items, IsPage(items, mine, offset)
  PROVE  /\ items # <<>> <=> offset < Len(mine)
         /\ \A i \in DOMAIN items :
              i \in 1 .. PageSize /\ offset + i \in 1 .. Len(mine) /\ items[i] = mine[offset + i]
         /\ \A t : Contains(items, t)
                     <=> \E n \in 1 .. Len(mine) : mine[n] = t /\ offset < n /\ n <= offset + PageSize
<1> DEFINE L == Len(mine)
           last == Min({offset + PageSize, L})
<1>1. L \in Nat /\ DOMAIN mine = 1 .. L /\ PageSize \in Nat /\ PageSize > 0
  BY DayBookAssumption, LenProperties
<1>2. last = IF offset + PageSize <= L THEN offset + PageSize ELSE L
  BY <1>1, MinOfTwo
<1>3. /\ last \in Nat /\ last <= L /\ last <= offset + PageSize
      /\ \A n \in Nat : n <= L /\ n <= offset + PageSize => n <= last
      /\ offset < L <=> offset < last
  <2> HIDE DEF last, L
  <2>1. CASE offset + PageSize <= L
    BY <1>1, <1>2, <2>1
  <2>2. CASE ~(offset + PageSize <= L)
    <3>1. last = L
      BY <1>2, <2>2
    <3> QED
      BY <1>1, <2>2, <3>1
  <2> QED
    BY <2>1, <2>2
<1>4. \A i \in offset + 1 .. last : mine[i] \in Tickets
  BY <1>1, <1>3
<1> HIDE DEF last
<1>5. /\ items \in Seq(Tickets)
      /\ Len(items) = IF offset + 1 <= last THEN last - offset ELSE 0
      /\ \A i \in 1 .. last - offset : items[i] = mine[offset + i]
  <2>1. offset + 1 \in Int /\ last \in Int /\ items = SubSeq(mine, offset + 1, last)
    BY <1>3 DEF last, IsPage
  <2>2. /\ SubSeq(mine, offset + 1, last) \in Seq(Tickets)
        /\ Len(SubSeq(mine, offset + 1, last)) = IF offset + 1 <= last THEN last - (offset + 1) + 1 ELSE 0
        /\ \A i \in 1 .. last - (offset + 1) + 1 : SubSeq(mine, offset + 1, last)[i] = mine[(offset + 1) + i - 1]
    BY <1>4, <2>1, SubSeqProperties
  <2> QED
    BY <1>3, <2>1, <2>2
<1>6. items # <<>> <=> offset < L
  <2>1. items # <<>> <=> Len(items) # 0
    BY <1>5, EmptySeq
  <2>2. Len(items) # 0 <=> offset < last
    BY <1>3, <1>5
  <2> QED
    BY <1>3, <2>1, <2>2
<1>7. ASSUME NEW t
      PROVE  Contains(items, t)
               <=> \E n \in 1 .. L : mine[n] = t /\ offset < n /\ n <= offset + PageSize
  <2>1. ASSUME Contains(items, t)
        PROVE  \E n \in 1 .. L : mine[n] = t /\ offset < n /\ n <= offset + PageSize
    <3>1. PICK i \in 1 .. Len(items) : items[i] = t
      BY <2>1 DEF Contains
    <3>2. i \in 1 .. last - offset /\ offset + i \in 1 .. L
      BY <1>1, <1>3, <1>5, <3>1
    <3>3. mine[offset + i] = t
      BY <1>5, <3>1, <3>2
    <3>4. offset < offset + i /\ offset + i <= offset + PageSize
      BY <1>1, <1>3, <3>2
    <3> QED
      BY <3>2, <3>3, <3>4
  <2>2. ASSUME NEW n \in 1 .. L, mine[n] = t, offset < n, n <= offset + PageSize
        PROVE  Contains(items, t)
    <3>1. n <= last
      BY <1>1, <1>3, <2>2
    <3>2. n - offset \in 1 .. last - offset /\ n - offset \in 1 .. Len(items)
      BY <1>1, <1>3, <1>5, <2>2, <3>1
    <3>3. items[n - offset] = mine[offset + (n - offset)]
      BY <1>5, <3>2
    <3> QED
      BY <2>2, <3>2, <3>3 DEF Contains
  <2> QED
    BY <2>1, <2>2
<1>8. ASSUME NEW i \in DOMAIN items
      PROVE  i \in 1 .. PageSize /\ offset + i \in 1 .. L /\ items[i] = mine[offset + i]
  <2>1. DOMAIN items = 1 .. Len(items)
    BY <1>5, LenProperties
  <2>2. i \in 1 .. last - offset
    BY <1>3, <1>5, <2>1
  <2>3. i <= PageSize /\ offset + i <= L
    BY <1>1, <1>3, <2>2
  <2> QED
    BY <1>1, <1>5, <2>2, <2>3
<1> QED
  BY <1>6, <1>7, <1>8

\* Which page a place is on.
LEMMA PageOfPlace ==
  ASSUME NEW n \in Nat, n >= 1
  PROVE  \E q \in 1 .. n : \A p \in Nat \ {0} :
           (p - 1) * PageSize < n /\ n <= (p - 1) * PageSize + PageSize <=> p = q
<1>1. PageSize \in Nat /\ PageSize > 0
  BY DayBookAssumption
<1>2. PICK d \in Nat : d * PageSize <= n - 1 /\ n - 1 < d * PageSize + PageSize
  <2>1. PICK m : m = n - 1
    OBVIOUS
  <2>2. m \in Nat
    BY <2>1
  <2>3. PICK d : d = m \div PageSize
    OBVIOUS
  <2>4. d \in Int /\ PageSize * d <= m /\ m < PageSize * d + PageSize
    BY <1>1, <2>2, <2>3
  <2>5. d >= 0
    BY <1>1, <2>2, <2>4
  <2>6. d * PageSize = PageSize * d
    BY <1>1, <2>4
  <2> QED
    BY <2>1, <2>4, <2>5, <2>6
<1>3. d + 1 \in 1 .. n
  <2>1. d <= d * PageSize
    BY <1>1
  <2>2. d * PageSize \in Int
    BY <1>1
  <2> QED
    BY <1>2, <2>1, <2>2
<1>4. ASSUME NEW p \in Nat \ {0}, p = d + 1
      PROVE  (p - 1) * PageSize < n /\ n <= (p - 1) * PageSize + PageSize
  <2>1. (p - 1) * PageSize = d * PageSize /\ d * PageSize \in Int
    BY <1>1, <1>4
  <2> QED
    BY <1>1, <1>2, <2>1
<1>5. ASSUME NEW p \in Nat \ {0}, (p - 1) * PageSize < n, n <= (p - 1) * PageSize + PageSize
      PROVE  p = d + 1
  <2> DEFINE e == p - 1
  <2>1. e \in Nat /\ e * PageSize < n /\ n <= e * PageSize + PageSize
    BY <1>5
  <2> HIDE DEF e
  <2>2. ASSUME e < d PROVE FALSE
    <3>1. (e + 1) * PageSize <= d * PageSize
      BY <1>1, <2>1, <2>2
    <3>2. (e + 1) * PageSize = e * PageSize + PageSize /\ e * PageSize \in Int /\ d * PageSize \in Int
      BY <1>1, <2>1
    <3> QED
      BY <1>1, <1>2, <2>1, <3>1, <3>2
  <2>3. ASSUME d < e PROVE FALSE
    <3>1. (d + 1) * PageSize <= e * PageSize
      BY <1>1, <2>1, <2>3
    <3>2. (d + 1) * PageSize = d * PageSize + PageSize /\ e * PageSize \in Int /\ d * PageSize \in Int
      BY <1>1, <2>1
    <3> QED
      BY <1>1, <1>2, <2>1, <3>1, <3>2
  <2>4. e = d
    BY <2>1, <2>2, <2>3
  <2> QED
    BY <2>4 DEF e
<1> QED
  BY <1>3, <1>4, <1>5

\* The tickets of the book are in the order of their creation.
BookDated ==
  \A i, j \in DOMAIN book : i <= j => tickets[book[i]].created <= tickets[book[j]].created

\* A user's tickets, the newest first: each of those in the book once, in the order
\* of their creation.
LEMMA NewestComplete ==
  ASSUME book \in Seq(Tickets), Injective(book), BookDated, NEW u
  PROVE  /\ Newest(u) \in Seq(Tickets) /\ Len(Newest(u)) \in Nat /\ Len(Newest(u)) <= Len(book)
         /\ Injective(Newest(u))
         /\ \A t \in ToSet(book) : tickets[t].user = u => \E n \in 1 .. Len(Newest(u)) : Newest(u)[n] = t
         /\ \A n, k \in 1 .. Len(Newest(u)) :
              n < k => tickets[Newest(u)[k]].created <= tickets[Newest(u)[n]].created
<1> DEFINE own == Own(u)
           N == Cardinality(own)
           mine == Newest(u)
<1>1. /\ mine \in Seq(Tickets) /\ Len(mine) = N
      /\ N \in Nat /\ N <= Len(book)
      /\ \A i \in own : RankOf(own)[i] \in 1 .. N /\ mine[RankOf(own)[i]] = book[i]
      /\ \A n \in 1 .. N : \E i \in own : RankOf(own)[i] = n
      /\ \A i, j \in own : i < j => RankOf(own)[i] > RankOf(own)[j]
  BY NewestIsLatest, LatestPlaces
<1>2. \A i \in own : i \in Int /\ i \in DOMAIN book
  BY LenProperties DEF Own
<1> HIDE DEF mine, own
<1>3. ASSUME NEW n \in 1 .. N, NEW k \in 1 .. N, n < k
      PROVE  mine[n] # mine[k] /\ tickets[mine[k]].created <= tickets[mine[n]].created
  <2>1. PICK i \in own : RankOf(own)[i] = n
    BY <1>1
  <2>2. PICK j \in own : RankOf(own)[j] = k
    BY <1>1
  <2>3. i \in Int /\ j \in Int /\ i \in DOMAIN book /\ j \in DOMAIN book /\ n \in Int /\ k \in Int
    BY <1>2
  <2>4. ~(i < j)
    <3>1. i < j => n > k
      BY <1>1, <2>1, <2>2
    <3> QED
      BY <1>3, <2>3, <3>1
  <2>5. i # j
    BY <1>3, <2>1, <2>2, <2>3
  <2>6. j <= i
    BY <2>3, <2>4
  <2>7. mine[n] = book[i] /\ mine[k] = book[j]
    BY <1>1, <2>1, <2>2
  <2> QED
    BY <2>3, <2>5, <2>6, <2>7 DEF Injective, BookDated
<1>4. Injective(mine)
  <2> SUFFICES ASSUME NEW n \in 1 .. N, NEW k \in 1 .. N, mine[n] = mine[k], n # k
               PROVE  FALSE
    BY <1>1, LenProperties DEF Injective
  <2>1. n < k \/ k < n
    OBVIOUS
  <2> QED
    BY <1>3, <2>1
<1>5. ASSUME NEW t \in ToSet(book), tickets[t].user = u
      PROVE  \E n \in 1 .. N : mine[n] = t
  <2>1. PICK i \in DOMAIN book : book[i] = t
    BY DEF ToSet
  <2>2. i \in own
    BY <1>5, <2>1 DEF Own, own
  <2> QED
    BY <1>1, <2>1, <2>2
<1> QED
  BY <1>1, <1>3, <1>4, <1>5 DEF mine

\* As many as the user has in the table.
LEMMA NewestCounts ==
  ASSUME Typing, BookSound, NEW u \in Users
  PROVE  Len(Newest(u)) = Cardinality({t \in Tickets : tickets[t].user = u})
<1> DEFINE T == {t \in Tickets : tickets[t].user = u}
           f == [i \in Own(u) |-> book[i]]
<1>1. book \in Seq(Tickets) /\ Injective(book)
  BY DEF Typing, BookSound
<1>2. Len(Newest(u)) = Cardinality(Own(u)) /\ IsFiniteSet(Own(u))
  BY <1>1, NewestIsLatest, LatestPlaces
<1>3. \A t \in T : \E i \in Own(u) : book[i] = t
  <2> SUFFICES ASSUME NEW t \in T PROVE \E i \in Own(u) : book[i] = t
    OBVIOUS
  <2>1. tickets[t] # NoTicket
    BY NoneIsNoNumber DEF NoTicket
  <2>2. Born(t)
    BY <2>1, BornIsTicket
  <2>3. PICK i \in DOMAIN book : book[i] = t
    BY <2>2 DEF BookSound
  <2> QED
    BY <2>3 DEF Own
<1>4. \A i \in Own(u) : book[i] \in T /\ i \in DOMAIN book
  BY <1>1 DEF Own
<1>5. f \in Bijection(Own(u), T)
  <2> HIDE DEF T
  <2> QED
    BY <1>1, <1>3, <1>4 DEF Bijection, Injection, Surjection, IsInjective, Injective
<1>6. Cardinality(T) = Cardinality(Own(u))
  <2> HIDE DEF f, T
  <2> QED
    BY <1>2, <1>5, FS_Bijection DEF ExistsBijection
<1> QED
  BY <1>2, <1>6

\* The response of get_history for a list of tickets.
HistoryOf(mine, page) ==
  LET offset == (page - 1) * PageSize
  IN  [ items    |-> SubSeq(mine, offset + 1, Min({offset + PageSize, Len(mine)})),
        total    |-> Len(mine),
        has_next |-> offset + PageSize < Len(mine) ]

\* The fields of that response.
LEMMA HistoryPage ==
  ASSUME NEW mine, NEW p \in Nat \ {0}
  PROVE  /\ (p - 1) * PageSize \in Nat
         /\ IsPage(HistoryOf(mine, p).items, mine, (p - 1) * PageSize)
         /\ HistoryOf(mine, p).has_next <=> (p - 1) * PageSize + PageSize < Len(mine)
         /\ HistoryOf(mine, p).total = Len(mine)
<1> DEFINE offset == (p - 1) * PageSize
           items == SubSeq(mine, offset + 1, Min({offset + PageSize, Len(mine)}))
           total == Len(mine)
           more == offset + PageSize < Len(mine)
           h == HistoryOf(mine, p)
<1>1. offset \in Nat
  BY DayBookAssumption
<1>2. h = [items |-> items, total |-> total, has_next |-> more]
  BY DEF HistoryOf
<1>3. h.items = items /\ h.total = total
  <2> HIDE DEF items, total, more, h
  <2> QED
    BY <1>2
<1>4. h.has_next = more
  <2> HIDE DEF items, total, more, h
  <2> QED
    BY <1>2, Zenon
<1>5. IsPage(h.items, mine, offset)
  BY <1>3 DEF IsPage
<1> HIDE DEF h
<1>6. h.has_next <=> offset + PageSize < Len(mine)
  BY <1>4, Zenon
<1> QED
  BY <1>1, <1>3, <1>5, <1>6 DEF h

\* The history of a user: has_next says whether there is a next page; each of
\* the user's tickets is on one page, and none comes after an older one.
LEMMA HistoryIsComplete ==
  ASSUME Typing, BookSound, BookDated
  PROVE  HistoryComplete
<1> SUFFICES ASSUME NEW u \in Users
             PROVE  /\ \A page \in 1 .. Len(book) + 1 :
                         History(u, page).has_next <=> History(u, page + 1).items # <<>>
                    /\ History(u, 1).total = Cardinality({t \in Tickets : tickets[t].user = u})
                    /\ \A t \in ToSet(book) : tickets[t].user = u =>
                         Cardinality({p \in 1 .. Len(book) : Contains(History(u, p).items, t)}) = 1
                    /\ \A p, q \in 1 .. Len(book) :
                         LET former == History(u, p).items
                             latter == History(u, q).items
                         IN  \A i \in DOMAIN former, j \in DOMAIN latter :
                               p < q \/ (p = q /\ i < j) =>
                                 tickets[latter[j]].created <= tickets[former[i]].created
  BY DEF HistoryComplete
<1> DEFINE mine == Newest(u)
<1>1. /\ mine \in Seq(Tickets) /\ Len(mine) \in Nat /\ Len(mine) <= Len(book) /\ Injective(mine)
      /\ \A t \in ToSet(book) : tickets[t].user = u => \E n \in 1 .. Len(mine) : mine[n] = t
      /\ \A n, k \in 1 .. Len(mine) : n < k => tickets[mine[k]].created <= tickets[mine[n]].created
      /\ DOMAIN mine = 1 .. Len(mine) /\ Len(book) \in Nat
  BY NewestComplete, LenProperties DEF Typing, BookSound
<1>2. PageSize \in Nat /\ PageSize > 0
  BY DayBookAssumption
<1>3. ASSUME NEW p \in Nat \ {0}
      PROVE  /\ (p - 1) * PageSize \in Nat /\ IsPage(History(u, p).items, mine, (p - 1) * PageSize)
             /\ History(u, p).has_next <=> (p - 1) * PageSize + PageSize < Len(mine)
             /\ History(u, p).total = Len(mine)
  BY HistoryPage DEF History, HistoryOf
<1>4. Len(mine) = Cardinality({t \in Tickets : tickets[t].user = u})
  BY NewestCounts
<1> HIDE DEF mine
<1>5. History(u, 1).total = Cardinality({t \in Tickets : tickets[t].user = u})
  <2>1. 1 \in Nat \ {0}
    OBVIOUS
  <2>2. History(u, 1).total = Len(mine)
    BY <1>3, <2>1
  <2> QED
    BY <1>4, <2>2
<1>6. ASSUME NEW page \in 1 .. Len(book) + 1
      PROVE  History(u, page).has_next <=> History(u, page + 1).items # <<>>
  <2>1. page \in Nat \ {0} /\ page + 1 \in Nat \ {0}
    BY <1>1
  <2> DEFINE offset == ((page + 1) - 1) * PageSize
  <2>2. offset \in Nat /\ IsPage(History(u, page + 1).items, mine, offset)
    BY <1>3, <2>1
  <2>3. offset = (page - 1) * PageSize + PageSize
    BY <1>2, <2>1
  <2> HIDE DEF offset
  <2>4. History(u, page + 1).items # <<>> <=> offset < Len(mine)
    BY <1>1, <2>2, PageItems
  <2> QED
    BY <1>3, <2>1, <2>3, <2>4
<1>7. ASSUME NEW t \in ToSet(book), tickets[t].user = u
      PROVE  Cardinality({p \in 1 .. Len(book) : Contains(History(u, p).items, t)}) = 1
  <2> DEFINE On(p) == Contains(History(u, p).items, t)
  <2>1. PICK n \in 1 .. Len(mine) : mine[n] = t
    BY <1>1, <1>7
  <2>2. \A k \in 1 .. Len(mine) : mine[k] = t => k = n
    BY <1>1, <2>1 DEF Injective
  <2>3. PICK q \in 1 .. n : \A p \in Nat \ {0} :
          (p - 1) * PageSize < n /\ n <= (p - 1) * PageSize + PageSize <=> p = q
    <3>1. n \in Nat /\ n >= 1
      BY <1>1
    <3> QED
      BY <3>1, PageOfPlace
  <2>4. ASSUME NEW p \in Nat \ {0}
        PROVE  On(p) <=> p = q
    <3> DEFINE offset == (p - 1) * PageSize
    <3>1. offset \in Nat /\ IsPage(History(u, p).items, mine, offset)
      BY <1>3
    <3>2. offset < n /\ n <= offset + PageSize <=> p = q
      BY <2>3
    <3> HIDE DEF offset
    <3>3. On(p) <=> \E k \in 1 .. Len(mine) : mine[k] = t /\ offset < k /\ k <= offset + PageSize
      BY <1>1, <3>1, PageItems
    <3> QED
      BY <2>1, <2>2, <3>2, <3>3
  <2>5. q \in 1 .. Len(book)
    BY <1>1
  <2> HIDE DEF On
  <2>6. {p \in 1 .. Len(book) : On(p)} = {q}
    BY <1>1, <2>4, <2>5
  <2>7. Cardinality({q}) = 1
    BY FS_Singleton
  <2> QED
    BY <2>6, <2>7, Zenon DEF On
<1>8. ASSUME NEW p \in 1 .. Len(book), NEW q \in 1 .. Len(book),
             NEW i \in DOMAIN History(u, p).items, NEW j \in DOMAIN History(u, q).items,
             p < q \/ (p = q /\ i < j)
      PROVE  tickets[History(u, q).items[j]].created <= tickets[History(u, p).items[i]].created
  <2> DEFINE a == (p - 1) * PageSize
             b == (q - 1) * PageSize
  <2>1. p \in Nat \ {0} /\ q \in Nat \ {0}
    BY <1>1
  <2>2. /\ a \in Nat /\ IsPage(History(u, p).items, mine, a)
        /\ b \in Nat /\ IsPage(History(u, q).items, mine, b)
    BY <1>3, <2>1
  <2>3. p < q => a + PageSize <= b
    <3>1. ASSUME NEW c \in Nat, NEW d \in Nat, c < d PROVE c * PageSize + PageSize <= d * PageSize
      <4>1. (c + 1) * PageSize <= d * PageSize
        BY <1>2, <3>1
      <4>2. (c + 1) * PageSize = c * PageSize + PageSize
        BY <1>2
      <4> QED
        BY <4>1, <4>2
    <3>2. p - 1 \in Nat /\ q - 1 \in Nat /\ (p < q => p - 1 < q - 1)
      BY <2>1
    <3> QED
      BY <3>1, <3>2
  <2>4. p = q => a = b
    OBVIOUS
  <2> HIDE DEF a, b
  <2>5. /\ i \in 1 .. PageSize /\ a + i \in 1 .. Len(mine) /\ History(u, p).items[i] = mine[a + i]
        /\ j \in 1 .. PageSize /\ b + j \in 1 .. Len(mine) /\ History(u, q).items[j] = mine[b + j]
    BY <1>1, <2>2, PageItems
  <2>6. a + i < b + j
    BY <1>2, <1>8, <2>2, <2>3, <2>4, <2>5
  <2> QED
    BY <1>1, <2>5, <2>6
<1> QED
  BY <1>5, <1>6, <1>7, <1>8

\* A ticket of the table keeps its user and its creation date.
SameOwners ==
  \A x \in Tickets :
    Born(x) => tickets'[x].user = tickets[x].user /\ tickets'[x].created = tickets[x].created

\* A transition changes neither.
LEMMA OwnersOfMove ==
  ASSUME Typing, NEW t \in Tickets, NEW to, NEW counter, NEW columns, Move(t, to, counter, columns),
         tickets[t] \in Ticket =>
           columns \in Ticket /\ columns.user = tickets[t].user /\ columns.created = tickets[t].created
  PROVE  SameOwners
<1>1. tickets[t] \in Ticket
  BY MoverIsBorn DEF Move
<1>2. /\ tickets'[t] = [columns EXCEPT !.status = to]
      /\ \A x \in Tickets \ {t} : tickets'[x] = tickets[x]
  BY DEF Move, Typing
<1>3. tickets'[t].user = columns.user /\ tickets'[t].created = columns.created
  BY <1>1, <1>2 DEF Ticket
<1> QED
  BY <1>1, <1>2, <1>3 DEF SameOwners

\* A step enters at most one ticket in the book, the last and the newest.
LEMMA BookStep ==
  ASSUME TableInv, Next
  PROVE  /\ SameOwners
         /\ \/ book' = book
            \/ \E t \in Tickets : ~Born(t) /\ book' = Append(book, t) /\ tickets'[t].created = now
<1> DEFINE Kept == SameOwners /\ book' = book
<1>1. Typing /\ (tickets' = tickets => SameOwners) /\ now \in Time
  BY DEF TableInv, SameOwners, Typing
<1>2. ASSUME NEW t \in Tickets, NEW u \in Users, NEW s \in Services, TakeNumber(t, u, s)
      PROVE  Kept
  BY <1>1, <1>2 DEF TakeNumber, rowVars
<1>3. ASSUME NEW t \in Tickets, Insert(t)
      PROVE  SameOwners /\ ~Born(t) /\ book' = Append(book, t) /\ tickets'[t].created = now
  BY <1>3, InsertEffect DEF SameOwners
<1>4. ASSUME NEW t \in Tickets, LogCreation(t) \/ Enqueue(t)
      PROVE  Kept
  BY <1>1, <1>4 DEF LogCreation, Enqueue
<1>5. ASSUME NEW t \in Tickets, Estimate(t)
      PROVE  Kept
  <2> DEFINE eta == Eta(PositionAdded(t))
  <2>1. tickets' = [tickets EXCEPT ![t].eta = eta] /\ book' = book
    BY <1>5 DEF Estimate
  <2> HIDE DEF eta
  <2>2. /\ tickets'[t] = [tickets[t] EXCEPT !.eta = eta]
        /\ \A x \in Tickets \ {t} : tickets'[x] = tickets[x]
    BY <1>1, <2>1 DEF Typing
  <2>3. Born(t) => tickets'[t].user = tickets[t].user /\ tickets'[t].created = tickets[t].created
    BY <1>1, <2>2, BornIsTicket DEF Ticket
  <2> QED
    BY <2>1, <2>2, <2>3 DEF SameOwners
<1>6. ASSUME NEW t \in Tickets, Cancel(t) \/ MarkAbsent(t) \/ ReturnToQueue(t)
      PROVE  Kept
  BY <1>1, <1>6, OwnersOfMove DEF Cancel, MarkAbsent, ReturnToQueue
<1>7. ASSUME NEW t \in Tickets, StartServing(t)
      PROVE  Kept
  <2> DEFINE columns == [tickets[t] EXCEPT !.served = now]
  <2>1. Move(t, "SERVING", None, columns) /\ book' = book
    BY <1>7 DEF StartServing
  <2>2. tickets[t] \in Ticket =>
          columns \in Ticket /\ columns.user = tickets[t].user /\ columns.created = tickets[t].created
    BY <1>1 DEF Ticket
  <2> HIDE DEF columns
  <2> QED
    BY <1>1, <2>1, <2>2, OwnersOfMove
<1>8. ASSUME NEW c \in Counters, NEW t \in Tickets, Complete(c, t)
      PROVE  Kept
  <2> DEFINE actual  == IF tickets[t].served # None THEN now - tickets[t].served ELSE None
             columns == [tickets[t] EXCEPT !.done = now, !.actual = actual]
  <2>1. Move(t, "DONE", None, columns) /\ book' = book
    BY <1>8 DEF Complete
  <2>2. tickets[t] \in Ticket /\ DatesSound(t) /\ Born(t)
    BY <1>1, <2>1, MoverIsBorn DEF TableInv, Move
  <2>3. actual \in Time \cup {None}
    BY <1>1, <2>2, TicketFields, DayBookAssumption DEF DatesSound, Time
  <2> HIDE DEF actual
  <2>4. columns \in Ticket /\ columns.user = tickets[t].user /\ columns.created = tickets[t].created
    BY <1>1, <2>2, <2>3 DEF Ticket
  <2> HIDE DEF columns
  <2> QED
    BY <1>1, <2>1, <2>4, OwnersOfMove
<1>9. ASSUME NEW c \in Counters, NEW s \in Services, CallNext(c, s)
      PROVE  Kept
  <2>1. PICK t \in Tickets : t = Head(queue[s])
    BY <1>9, CallNextKeepsTable
  <2> DEFINE columns == [tickets[t] EXCEPT !.called = now, !.counter = c]
  <2>2. Move(t, "CALLED", c, columns) /\ book' = book
    BY <1>9, <2>1 DEF CallNext
  <2>3. tickets[t] \in Ticket =>
          columns \in Ticket /\ columns.user = tickets[t].user /\ columns.created = tickets[t].created
    BY <1>1 DEF Ticket
  <2> HIDE DEF columns
  <2> QED
    BY <1>1, <2>2, <2>3, OwnersOfMove
<1>10. ASSUME NEW c \in Counters, Send(c) \/ Save(c) \/ SaveFails(c)
       PROVE  Kept
  BY <1>1, <1>10 DEF Send, Save, SaveFails, rowVars
<1>11. ASSUME Tick PROVE Kept
  BY <1>1, <1>11 DEF Tick, rowVars
<1> QED
  BY <1>2, <1>3, <1>4, <1>5, <1>6, <1>7, <1>8, <1>9, <1>10, <1>11 DEF Next

\* The book stays in the order of creation: a ticket entered in it is dated now,
\* and no other is dated later.
LEMMA BookDatedInit == Init => BookDated
BY DEF Init, BookDated

LEMMA BookDatedStep == TableInv /\ BookDated /\ [Next]_vars => BookDated'
<1> SUFFICES ASSUME TableInv, BookDated, [Next]_vars PROVE BookDated'
  OBVIOUS
<1>1. /\ book \in Seq(Tickets) /\ DOMAIN book = 1 .. Len(book) /\ Len(book) \in Nat
      /\ \A i \in DOMAIN book : book[i] \in Tickets /\ Born(book[i])
      /\ \A x \in Tickets : Born(x) => tickets[x].created <= now
  BY LenProperties DEF TableInv, Typing, RowsSound, BookSound, DatesSound
<1>2. CASE SameOwners /\ book' = book
  BY <1>1, <1>2 DEF BookDated, SameOwners
<1>3. ASSUME SameOwners, NEW t \in Tickets, book' = Append(book, t), tickets'[t].created = now
      PROVE  BookDated'
  <2>1. /\ DOMAIN book' = 1 .. Len(book) + 1 /\ book'[Len(book) + 1] = t
        /\ \A i \in 1 .. Len(book) : book'[i] = book[i]
    BY <1>1, <1>3, AppendEffect
  <2>2. \A i \in 1 .. Len(book) : tickets'[book'[i]].created = tickets[book[i]].created
    BY <1>1, <1>3, <2>1 DEF SameOwners
  <2>3. now <= now
    BY TimeIsInt DEF TableInv, Typing
  <2> SUFFICES ASSUME NEW i \in 1 .. Len(book) + 1, NEW j \in 1 .. Len(book) + 1, i <= j
               PROVE  tickets'[book'[i]].created <= tickets'[book'[j]].created
    BY <2>1 DEF BookDated
  <2>4. CASE j \in 1 .. Len(book)
    <3>1. i \in 1 .. Len(book)
      BY <1>1, <2>4
    <3> QED
      BY <1>1, <2>2, <2>4, <3>1 DEF BookDated
  <2>5. CASE j = Len(book) + 1 /\ i \in 1 .. Len(book)
    BY <1>1, <1>3, <2>1, <2>2, <2>5
  <2>6. CASE j = Len(book) + 1 /\ i = Len(book) + 1
    BY <1>3, <2>1, <2>3, <2>6
  <2> QED
    BY <1>1, <2>4, <2>5, <2>6
<1>4. CASE UNCHANGED vars
  <2>1. SameOwners /\ book' = book
    BY <1>4 DEF vars, rowVars, SameOwners
  <2> QED
    BY <1>2, <2>1
<1>5. CASE Next
  BY <1>2, <1>3, <1>5, BookStep
<1> QED
  BY <1>4, <1>5

LEMMA BookAlwaysDated == Spec => []BookDated
<1>1. DInv => TableInv
  BY DEF DInv
<1> QED
  BY <1>1, BookDatedInit, BookDatedStep, DayBookAlways, PTL DEF Spec

\* get_history leaves out no ticket of the user and repeats none, lists the newest
\* first across the pages, counts them all, and has_next says whether the next page
\* has any, whatever the size of a page.
THEOREM HistoryAlwaysComplete == Spec => []HistoryComplete
<1>1. DInv /\ BookDated => HistoryComplete
  BY HistoryIsComplete DEF DInv, TableInv, RowsSound
<1> QED
  BY <1>1, DayBookAlways, BookAlwaysDated, PTL

-----------------------------------------------------------------------------
(* A history read page by page.                                            *)

\* What a step that enters a ticket does to the rank of another.
LEMMA RankAfterStep ==
  ASSUME NEW N \in Nat, NEW own \in SUBSET (1 .. N), NEW own1, own1 = own \/ own1 = own \cup {N + 1},
         NEW i \in own
  PROVE  RankOf(own1)[i] \in {RankOf(own)[i], RankOf(own)[i] + 1} /\ i \in own1
<1> DEFINE up  == {j \in own : j >= i}
           up1 == {j \in own1 : j >= i}
<1>1. RankOf(own)[i] = Cardinality(up) /\ RankOf(own1)[i] = Cardinality(up1) /\ i \in own1
  BY DEF RankOf
<1>2. CASE own1 = own
  BY <1>1, <1>2
<1>3. CASE own1 = own \cup {N + 1}
  <2>1. i \in Int /\ N + 1 >= i
    OBVIOUS
  <2>2. N + 1 \notin up
    OBVIOUS
  <2>3. up1 = up \cup {N + 1}
    BY <1>3, <2>1
  <2>4. IsFiniteSet(up)
    <3>1. IsFiniteSet(own)
      <4>1. IsFiniteSet(1 .. N) /\ Cardinality(1 .. N) = N
        BY FS_Interval
      <4> QED
        BY <4>1, FS_Subset
    <3>2. \A j \in up : j \in own
      OBVIOUS
    <3>3. up \in SUBSET own
      BY <3>2
    <3> HIDE DEF up
    <3> QED
      BY <3>1, <3>3, FS_Subset
  <2>5. Cardinality(up1) = Cardinality(up) + 1
    <3> HIDE DEF up, up1
    <3> QED
      BY <2>2, <2>3, <2>4, FS_AddElement
  <2> QED
    BY <1>1, <2>5
<1> QED
  BY <1>2, <1>3

\* A step moves a ticket to the same page or to the next: a client that reads one
\* page after another misses none, even if tickets are created meanwhile.
NothingSkipped ==
  \A u \in Users, p \in 1 .. Len(book), t \in ToSet(book) :
    Contains(History(u, p).items, t) =>
      Contains(History(u, p).items, t)' \/ Contains(History(u, p + 1).items, t)'

LEMMA StepSkipsNothing ==
  ASSUME TableInv, TableInv', [Next]_vars
  PROVE  NothingSkipped
<1> SUFFICES ASSUME NEW u \in Users, NEW p \in 1 .. Len(book), NEW t \in ToSet(book),
                    Contains(History(u, p).items, t)
             PROVE  Contains(History(u, p).items, t)' \/ Contains(History(u, p + 1).items, t)'
  BY DEF NothingSkipped
<1> DEFINE own  == Own(u)
           own1 == Own(u)'
           mine  == Latest(book, own)
           mine1 == Latest(book', own1)
<1>1. /\ book \in Seq(Tickets) /\ DOMAIN book = 1 .. Len(book) /\ Len(book) \in Nat
      /\ \A i \in DOMAIN book : book[i] \in Tickets /\ Born(book[i])
      /\ book' \in Seq(Tickets)
  BY LenProperties DEF TableInv, Typing, RowsSound, BookSound
<1>2. /\ History(u, p) = HistoryOf(mine, p)
      /\ History(u, p)' = HistoryOf(mine1, p)
      /\ History(u, p + 1)' = HistoryOf(mine1, p + 1)
  BY DEF History, HistoryOf, Newest, Latest, Own
<1>3. own \in SUBSET (1 .. Len(book)) /\ own \in SUBSET DOMAIN book /\ own1 \in SUBSET DOMAIN book'
  BY <1>1 DEF Own
<1>4. /\ own1 = own \/ own1 = own \cup {Len(book) + 1}
      /\ \A i \in own : book'[i] = book[i]
  <2>1. CASE SameOwners /\ book' = book
    <3>1. own1 = own
      BY <1>1, <2>1 DEF Own, SameOwners
    <3> QED
      BY <2>1, <3>1
  <2>2. ASSUME SameOwners, NEW x \in Tickets, book' = Append(book, x)
        PROVE  /\ own1 = own \/ own1 = own \cup {Len(book) + 1}
               /\ \A i \in own : book'[i] = book[i]
    <3>1. /\ DOMAIN book' = 1 .. Len(book) + 1
          /\ \A i \in 1 .. Len(book) : book'[i] = book[i]
      BY <1>1, <2>2, AppendEffect
    <3>2. \A i \in 1 .. Len(book) : tickets'[book'[i]].user = tickets[book[i]].user
      BY <1>1, <2>2, <3>1 DEF SameOwners
    <3>3. \A i \in 1 .. Len(book) : i \in own1 <=> i \in own
      BY <1>1, <3>1, <3>2 DEF Own
    <3>4. own1 \in SUBSET (1 .. Len(book) + 1)
      BY <3>1 DEF Own
    <3>5. \A i \in 1 .. Len(book) + 1 : i \in 1 .. Len(book) \/ i = Len(book) + 1
      BY <1>1
    <3> HIDE DEF own, own1
    <3>6. own1 = own \/ own1 = own \cup {Len(book) + 1}
      BY <1>3, <3>3, <3>4, <3>5
    <3> QED
      BY <1>3, <3>1, <3>6
  <2>3. CASE UNCHANGED vars
    <3>1. SameOwners /\ book' = book
      BY <2>3 DEF vars, rowVars, SameOwners
    <3> QED
      BY <2>1, <3>1
  <2>4. CASE Next
    BY <2>1, <2>2, <2>4, BookStep
  <2> QED
    BY <2>3, <2>4
<1> HIDE DEF own, own1
<1>5. p \in Nat \ {0} /\ p + 1 \in Nat \ {0} /\ PageSize \in Nat /\ PageSize > 0
  BY <1>1, DayBookAssumption
<1> DEFINE a == (p - 1) * PageSize
           b == ((p + 1) - 1) * PageSize
<1>6. b = a + PageSize /\ a \in Nat /\ b \in Nat
  BY <1>5
<1>7. /\ IsPage(HistoryOf(mine, p).items, mine, a)
      /\ IsPage(HistoryOf(mine1, p).items, mine1, a)
      /\ IsPage(HistoryOf(mine1, p + 1).items, mine1, b)
  <2> HIDE DEF mine, mine1
  <2> QED
    BY <1>5, HistoryPage
<1> HIDE DEF a, b
<1>8. /\ mine \in Seq(Tickets) /\ Len(mine) = Cardinality(own)
      /\ \A i \in own : RankOf(own)[i] \in 1 .. Cardinality(own) /\ mine[RankOf(own)[i]] = book[i]
      /\ \A n \in 1 .. Cardinality(own) : \E i \in own : RankOf(own)[i] = n
  BY <1>1, <1>3, LatestPlaces
<1>9. /\ mine1 \in Seq(Tickets) /\ Len(mine1) = Cardinality(own1) /\ Cardinality(own1) \in Nat
      /\ \A i \in own1 : RankOf(own1)[i] \in 1 .. Cardinality(own1) /\ mine1[RankOf(own1)[i]] = book'[i]
  BY <1>1, <1>3, LatestPlaces
<1> HIDE DEF mine, mine1
<1>10. PICK n \in 1 .. Len(mine) : mine[n] = t /\ a < n /\ n <= a + PageSize
  BY <1>2, <1>6, <1>7, <1>8, PageItems
<1>11. PICK i \in own : RankOf(own)[i] = n
  BY <1>8, <1>10
<1>12. PICK k : k = RankOf(own1)[i]
  OBVIOUS
<1>13. k \in {n, n + 1} /\ i \in own1
  BY <1>1, <1>3, <1>4, <1>11, <1>12, RankAfterStep
<1>14. k \in 1 .. Len(mine1) /\ mine1[k] = t
  <2>1. mine1[k] = book'[i] /\ book'[i] = book[i] /\ book[i] = t
    BY <1>4, <1>8, <1>9, <1>10, <1>11, <1>12, <1>13
  <2> QED
    BY <1>9, <1>12, <1>13, <2>1
<1>15. (a < k /\ k <= a + PageSize) \/ (b < k /\ k <= b + PageSize)
  <2>1. n \in Int
    OBVIOUS
  <2> QED
    BY <1>5, <1>6, <1>10, <1>13, <2>1
<1>16. CASE a < k /\ k <= a + PageSize
  <2>1. Contains(HistoryOf(mine1, p).items, t)
    BY <1>6, <1>7, <1>9, <1>14, <1>16, PageItems
  <2> QED
    BY <1>2, <2>1 DEF Contains
<1>17. CASE b < k /\ k <= b + PageSize
  <2>1. Contains(HistoryOf(mine1, p + 1).items, t)
    BY <1>6, <1>7, <1>9, <1>14, <1>17, PageItems
  <2> QED
    BY <1>2, <2>1 DEF Contains
<1> QED
  BY <1>15, <1>16, <1>17

\* While tickets are created, called and served, a ticket of a user's history never
\* moves to an earlier page, so that reading on from page to page leaves none out.
THEOREM NoTicketSkipped == Spec => [][NothingSkipped]_vars
<1>1. DInv => TableInv
  BY DEF DInv
<1>2. TableInv /\ TableInv' /\ [Next]_vars => NothingSkipped
  BY StepSkipsNothing
<1> QED
  BY <1>1, <1>2, DayBookAlways, PTL DEF Spec

-----------------------------------------------------------------------------
(* All of the figures.                                                     *)

\* What is read back, as figures or as a history, agrees with the tickets, for any
\* number of tickets, services, counters and hours.
THEOREM FiguresAlwaysAgree == Spec => []FiguresAgree
<1>1. /\ \A t \in ToSet(book) : TimelineOrdered(t)
      /\ SummaryAgrees /\ VolumesAgree /\ CountersAgree /\ HistoryComplete
      => FiguresAgree
  BY DEF FiguresAgree
<1> QED
  BY <1>1, DatesAlwaysOrdered, SummaryAlwaysAgrees, VolumesAlwaysAgree, CountersAlwaysAgree,
     HistoryAlwaysComplete, PTL

=============================================================================
