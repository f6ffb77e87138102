------------------------------- MODULE DayBook -------------------------------
(***************************************************************************)
(* What a day leaves in the tables: the numbers that TicketService gives   *)
(* out (app/services/ticket_service.py), the times and counters it writes  *)
(* on a ticket and in queue_logs, what NotificationService sends and saves *)
(* (app/services/notification_service.py), and what is read back of it:    *)
(* the branch's figures (Analytics), a ticket's position, a history.       *)
(*                                                                         *)
(* QueueEngine splits the operations of agents at their awaits; here they  *)
(* are one step up to their commit, so that days can pass.  The creation   *)
(* of a ticket and the notifications that follow a commit stay split.      *)
(***************************************************************************)
EXTENDS TicketStates, Analytics, SequencesExt

CONSTANTS
  Tickets, Users, Services, Counters,
  PrefixOf,    \* ticket_prefix of each service: two may have the same
  AvgService,  \* branches.avg_service_minutes
  PageSize,    \* 20
  Settings,    \* values of settings
  LastHour,    \* bound on the clock
  MaxRows      \* bound: no agent calls or client returns once the log has that many rows

ASSUME DayBookAssumption ==
  /\ HoursPerDay \in Nat \ {0} /\ DefaultDays \in Nat \ {0}
  /\ AvgService \in Nat /\ PageSize \in Nat \ {0}
  /\ Settings \subseteq [development : BOOLEAN, firebase : BOOLEAN, phone : BOOLEAN, token : BOOLEAN]
  /\ LastHour \in Nat /\ MaxRows \in Nat
  /\ IsFiniteSet(Tickets)
  /\ None \notin Tickets \cup Users \cup Services \cup Counters \cup Int

VARIABLES
  now,       \* the hour, counted from the first day's midnight
  settings,  \* ENVIRONMENT = development; FIREBASE_SERVER_KEY is set; users have
             \* a phone, an fcm_token
  tickets,   \* rows of tickets
  book,      \* the rows of tickets in the order of their insertion
  queue,     \* Redis: the queue of each service, all of one priority
  log,       \* rows of queue_logs, in the order of their commits
  creating,  \* create_ticket: where the request for a ticket stands
  crowded,   \* history: tickets whose number was counted before another of
             \* the prefix was inserted, or before midnight
  notices,   \* rows of notifications
  accepted,  \* messages that a provider has accepted
  unsaved,   \* history: messages whose row the database refused
  desk       \* each counter: the request that is notifying a client

rowVars == <<tickets, book, queue, log>>
noticeVars == <<notices, accepted, unsaved, desk>>
vars == <<now, settings, rowVars, creating, crowded, noticeVars>>

-----------------------------------------------------------------------------
Day(time) == time \div HoursPerDay
Time == 0 .. LastHour
Numbers == 1 .. Cardinality(Tickets)

NoTicket == [ status |-> UNBORN, user |-> None, service |-> None, sequence |-> None,
              counter |-> None, eta |-> None, created |-> None, called |-> None,
              served |-> None, done |-> None, actual |-> None ]

Ticket == [ status   : TicketStatus,
            user     : Users,
            service  : Services,
            sequence : Numbers,
            counter  : Counters \cup {None},
            eta      : Nat \cup {None},
            created  : Time,
            called   : Time \cup {None},
            served   : Time \cup {None},
            done     : Time \cup {None},
            actual   : Time \cup {None} ]

Actions == {"CREATED", "RETURNED"} \cup (TicketStatus \ {"WAITING"})

Row == [ ticket : Tickets, service : Services, action : Actions,
         counter : Counters \cup {None}, elapsed : Time, at : Time ]

NotCreating == [pc |-> "none", user |-> None, service |-> None, sequence |-> None]
Creating == [ pc : {"none", "insert", "log", "enqueue", "rank"}, user : Users \cup {None},
              service : Services \cup {None}, sequence : Numbers \cup {None} ]

\* A message: the nth call of a ticket, or its end, on a channel.
Message == [ticket : Tickets, nth : Nat, channel : {"SMS", "FCM", "IN_APP"}]
Notice == [message : Message, status : {"SENT", "FAILED"}]

Idle == [pc |-> "idle", ticket |-> None, nth |-> 0, channel |-> "SMS", status |-> "SENT"]
Notifying == [ pc : {"idle", "send", "save"}, ticket : Tickets \cup {None}, nth : Nat,
               channel : {"SMS", "FCM", "IN_APP"}, status : {"SENT", "FAILED"} ]

Init ==
  /\ now = 0
  /\ settings \in Settings
  /\ tickets = [t \in Tickets |-> NoTicket] /\ book = <<>>
  /\ queue = [s \in Services |-> <<>>]
  /\ log = <<>>
  /\ creating = [t \in Tickets |-> NotCreating] /\ crowded = {}
  /\ notices = <<>> /\ accepted = <<>> /\ unsaved = {}
  /\ desk = [c \in Counters |-> Idle]

-----------------------------------------------------------------------------
(* The audit row.                                                          *)

\* STATUS_TO_LOG_ACTION.
ActionOf(status) == IF status = "WAITING" THEN "RETURNED" ELSE status

\* Mutant: no fallback on the counter of the ticket.
LogRowOfCaller(t, action, counter) ==
  [ ticket |-> t, service |-> tickets[t].service, action |-> action, counter |-> counter,
    elapsed |-> IF action = "CREATED" THEN 0 ELSE now - tickets[t].created, at |-> now ]

\* _log_action: the counter given, or else the ticket's; the time elapsed
\* since the creation, 0 when it is given so.
LogRow(t, action, counter) ==
  [ ticket |-> t, service |-> tickets[t].service, action |-> action,
    counter |-> IF counter # None THEN counter ELSE tickets[t].counter,
    elapsed |-> IF action = "CREATED" THEN 0 ELSE now - tickets[t].created, at |-> now ]

\* _transition and the commit of the operation: the status, its row and the
\* columns of the ticket that the operation writes.
Move(t, to, counter, columns) ==
  /\ MayMove(tickets[t].status, to)
  /\ tickets' = [tickets EXCEPT ![t] = [columns EXCEPT !.status = to]]
  /\ log' = Append(log, LogRow(t, ActionOf(to), counter))

-----------------------------------------------------------------------------
(* create_ticket.                                                          *)

At(t, pc) == creating[t].pc = pc

InDay(t, day) == tickets[t].status # UNBORN /\ Day(tickets[t].created) = day

\* Mutant: the tickets of the service are counted, not those of the prefix.
NextSequenceOfService(s) ==
  Cardinality({t \in Tickets : InDay(t, Day(now)) /\ tickets[t].service = s}) + 1

\* _get_next_sequence: the day's tickets of the prefix, plus one.
NextSequence(s) ==
  Cardinality({t \in Tickets :
    InDay(t, Day(now)) /\ PrefixOf[tickets[t].service] = PrefixOf[s]}) + 1

\* The checks (the user has no active ticket) and the count.
TakeNumber(t, u, s) ==
  /\ At(t, "none") /\ tickets[t] = NoTicket
  /\ \A x \in Tickets : tickets[x].user = u => tickets[x].status \notin ACTIVE_STATUSES
  /\ creating' = [creating EXCEPT ![t] = [pc |-> "insert", user |-> u, service |-> s,
                                          sequence |-> NextSequence(s)]]
  /\ UNCHANGED <<now, settings, rowVars, crowded, noticeVars>>

\* The insert; created_at is taken now.
Insert(t) ==
  LET new == creating[t]
      counted == {x \in Tickets \ {t} : At(x, "insert")
                                        /\ PrefixOf[creating[x].service] = PrefixOf[new.service]}
  IN  /\ At(t, "insert")
      /\ tickets' = [tickets EXCEPT ![t] =
           [NoTicket EXCEPT !.status = "WAITING", !.user = new.user, !.service = new.service,
                            !.sequence = new.sequence, !.created = now]]
      /\ book' = Append(book, t)
      /\ crowded' = crowded \cup counted
      /\ creating' = [creating EXCEPT ![t].pc = "log"]
      /\ UNCHANGED <<now, settings, queue, log, noticeVars>>

\* The TICKET_CREATED row, in a commit of its own.
LogCreation(t) ==
  /\ At(t, "log")
  /\ log' = Append(log, LogRow(t, "CREATED", None))
  /\ creating' = [creating EXCEPT ![t].pc = "enqueue"]
  /\ UNCHANGED <<now, settings, tickets, book, queue, crowded, noticeVars>>

Enqueue(t) ==
  LET s == creating[t].service
  IN  /\ At(t, "enqueue")
      /\ queue' = [queue EXCEPT ![s] = Append(@, t)]
      /\ creating' = [creating EXCEPT ![t].pc = "rank"]
      /\ UNCHANGED <<now, settings, tickets, book, log, crowded, noticeVars>>

\* zrank: None when the ticket is not, or no longer, in the queue.
Rank(t) ==
  LET q == queue[tickets[t].service]
  IN  IF Contains(q, t) THEN Cardinality({i \in DOMAIN q : i < SelectInSeq(q, LAMBDA x : x = t)}) ELSE None

\* add_to_queue returns (position or 0) + 1, get_queue_position 0 for None.
PositionAdded(t) == IF Rank(t) = None THEN 1 ELSE Rank(t) + 1
QueuePosition(t) == IF Rank(t) = None THEN 0 ELSE Rank(t) + 1

\* Mutant: without max(0, ...).
EtaUnclamped(position) == (position - 1) * AvgService

Eta(position) ==
  IF (position - 1) * AvgService > 0 THEN (position - 1) * AvgService ELSE 0

\* The position, the estimate and the last commit.
Estimate(t) ==
  /\ At(t, "rank")
  /\ tickets' = [tickets EXCEPT ![t].eta = Eta(PositionAdded(t))]
  /\ creating' = [creating EXCEPT ![t] = NotCreating]
  /\ UNCHANGED <<now, settings, book, queue, log, crowded, noticeVars>>

\* get_ticket.
GetTicket(t) ==
  [status |-> tickets[t].status, position |-> QueuePosition(t), eta |-> Eta(QueuePosition(t)),
   total_in_queue |-> Len(queue[tickets[t].service])]

-----------------------------------------------------------------------------
(* The operations of clients and agents.                                   *)

Bounded == Len(log) < MaxRows

Cancel(t) ==
  /\ Move(t, "CANCELLED", None, tickets[t])
  /\ queue' = [queue EXCEPT ![tickets[t].service] = RemoveFirst(@, t)]
  /\ UNCHANGED <<now, settings, book, creating, crowded, noticeVars>>

\* notify_ticket_called: SMS for a user with a phone, then FCM for one with a
\* token.
Notify(c, t, nth) ==
  desk' = [desk EXCEPT ![c] =
    IF ~settings.phone /\ ~settings.token THEN Idle
    ELSE [Idle EXCEPT !.pc = "send", !.ticket = t, !.nth = nth,
                      !.channel = IF settings.phone THEN "SMS" ELSE "FCM"]]

Calls(t) == Cardinality({i \in DOMAIN log : log[i].ticket = t /\ log[i].action = "CALLED"})

\* call_next; the head of the queue may be a ticket that cannot be called (400).
CallNext(c, s) ==
  /\ Bounded /\ desk[c].pc = "idle" /\ queue[s] # <<>>
  /\ LET t == Head(queue[s])
     IN  /\ Move(t, "CALLED", c, [tickets[t] EXCEPT !.called = now, !.counter = c])
         /\ queue' = [queue EXCEPT ![s] = Tail(@)]
         /\ Notify(c, t, Calls(t) + 1)
  /\ UNCHANGED <<now, settings, book, creating, crowded, notices, accepted, unsaved>>

StartServing(t) ==
  /\ Move(t, "SERVING", None, [tickets[t] EXCEPT !.served = now])
  /\ UNCHANGED <<now, settings, book, queue, creating, crowded, noticeVars>>

\* complete_ticket; its in-app notification is saved after the commit.
Complete(c, t) ==
  /\ desk[c].pc = "idle"
  /\ Move(t, "DONE", None, [tickets[t] EXCEPT !.done = now,
       !.actual = IF tickets[t].served # None THEN now - tickets[t].served ELSE None])
  /\ desk' = [desk EXCEPT ![c] = [Idle EXCEPT !.pc = "save", !.ticket = t, !.channel = "IN_APP"]]
  /\ UNCHANGED <<now, settings, book, queue, creating, crowded, notices, accepted, unsaved>>

MarkAbsent(t) ==
  /\ Move(t, "ABSENT", None, tickets[t])
  /\ UNCHANGED <<now, settings, book, queue, creating, crowded, noticeVars>>

ReturnToQueue(t) ==
  /\ Bounded
  /\ Move(t, "WAITING", None, tickets[t])
  /\ queue' = [queue EXCEPT ![tickets[t].service] = Append(@, t)]
  /\ UNCHANGED <<now, settings, book, creating, crowded, noticeVars>>

\* An hour passes; at midnight the counts taken are those of another day.
Tick ==
  /\ now < LastHour /\ now' = now + 1
  /\ crowded' = IF Day(now') = Day(now) THEN crowded
                ELSE crowded \cup {t \in Tickets : At(t, "insert")}
  /\ UNCHANGED <<settings, rowVars, creating, noticeVars>>

-----------------------------------------------------------------------------
(* NotificationService.                                                    *)

MessageOf(c) == [ticket |-> desk[c].ticket, nth |-> desk[c].nth, channel |-> desk[c].channel]

\* The SMS is followed by the FCM when there is one; nothing else is.
NextChannel(c) ==
  desk' = [desk EXCEPT ![c] = IF @.channel = "SMS" /\ settings.token
                              THEN [@ EXCEPT !.pc = "send", !.channel = "FCM", !.status = "SENT"]
                              ELSE Idle]

Sent(c, status) == desk' = [desk EXCEPT ![c].pc = "save", ![c].status = status]

\* Mutant: a request without an answer is sent again.
SendAgain(c) ==
  /\ desk[c].pc = "send"
  /\ IF settings.development
     THEN Sent(c, "SENT") /\ UNCHANGED accepted
     ELSE IF desk[c].channel = "FCM" /\ ~settings.firebase
     THEN NextChannel(c) /\ UNCHANGED accepted
     ELSE \/ Sent(c, "SENT") /\ accepted' = Append(accepted, MessageOf(c))
          \/ Sent(c, "FAILED") /\ UNCHANGED accepted
          \/ Len(accepted) < MaxRows /\ accepted' = Append(accepted, MessageOf(c)) /\ UNCHANGED desk
  /\ UNCHANGED <<now, settings, rowVars, creating, crowded, notices, unsaved>>

\* _send_sms, _send_fcm: simulated in development, and no FCM without a key.
\* Otherwise the provider accepts, refuses, or accepts and its answer is lost.
Send(c) ==
  /\ desk[c].pc = "send"
  /\ IF settings.development
     THEN Sent(c, "SENT") /\ UNCHANGED accepted
     ELSE IF desk[c].channel = "FCM" /\ ~settings.firebase
     THEN NextChannel(c) /\ UNCHANGED accepted
     ELSE \/ Sent(c, "SENT") /\ accepted' = Append(accepted, MessageOf(c))
          \/ Sent(c, "FAILED") /\ UNCHANGED accepted
          \/ Sent(c, "FAILED") /\ accepted' = Append(accepted, MessageOf(c))
  /\ UNCHANGED <<now, settings, rowVars, creating, crowded, notices, unsaved>>

\* _save_notification.
Save(c) ==
  /\ desk[c].pc = "save"
  /\ notices' = Append(notices, [message |-> MessageOf(c), status |-> desk[c].status])
  /\ NextChannel(c)
  /\ UNCHANGED <<now, settings, rowVars, creating, crowded, accepted, unsaved>>

\* The database refuses the row.  The session is of no use before a rollback,
\* so the FAILED row that _send_sms and _send_fcm try next is refused as well,
\* and the exception ends the notification, an FCM that was to follow included.
SaveFails(c) ==
  /\ desk[c].pc = "save"
  /\ desk' = [desk EXCEPT ![c] = Idle]
  /\ unsaved' = unsaved \cup {MessageOf(c)}
  /\ UNCHANGED <<now, settings, rowVars, creating, crowded, notices, accepted>>

Next ==
  \/ \E t \in Tickets, u \in Users, s \in Services : TakeNumber(t, u, s)
  \/ \E t \in Tickets : \/ Insert(t) \/ LogCreation(t) \/ Enqueue(t) \/ Estimate(t)
                        \/ Cancel(t) \/ StartServing(t) \/ MarkAbsent(t) \/ ReturnToQueue(t)
  \/ \E c \in Counters, s \in Services : CallNext(c, s)
  \/ \E c \in Counters, t \in Tickets : Complete(c, t)
  \/ \E c \in Counters : Send(c) \/ Save(c) \/ SaveFails(c)
  \/ Tick

Spec == Init /\ [][Next]_vars

-----------------------------------------------------------------------------
(* Properties.                                                             *)

\* Types; the response of get_ticket has a position and an estimate that are
\* not negative, whatever became of the ticket.
TypeOK ==
  /\ now \in Time /\ settings \in Settings
  /\ tickets \in [Tickets -> Ticket \cup {NoTicket}]
  /\ book \in Seq(Tickets) /\ queue \in [Services -> Seq(Tickets)]
  /\ log \in Seq(Row)
  /\ creating \in [Tickets -> Creating] /\ crowded \in SUBSET Tickets
  /\ notices \in Seq(Notice) /\ accepted \in Seq(Message) /\ unsaved \in SUBSET Message
  /\ desk \in [Counters -> Notifying]
  /\ \A t \in ToSet(book) : GetTicket(t).position \in 0 .. Len(book) /\ GetTicket(t).eta \in Nat

\* "La séquence repart à 1 chaque jour à minuit UTC": a ticket's number is its
\* rank among the tickets of its day with its prefix, unless its count was out
\* of date when its row was inserted; so two tickets of a day that show one
\* number were created at the same time, or one of them across midnight.
NumberIsRank ==
  \A i \in DOMAIN book :
    book[i] \notin crowded =>
      tickets[book[i]].sequence =
        Cardinality({j \in 1 .. i :
          /\ InDay(book[j], Day(tickets[book[i]].created))
          /\ PrefixOf[tickets[book[j]].service] = PrefixOf[tickets[book[i]].service]})

Reached(t, times) == \A i \in 2 .. Len(times) : times[i] # None => times[i - 1] <= times[i]

\* A ticket's dates are in the order of its life.
TimelineOrdered(t) ==
  LET x == tickets[t]
  IN  Reached(t, <<x.created, x.called, x.served, x.done>>)

WholeTime == [from |-> 0, to |-> now]
WithStatus(status) == {t \in Tickets : tickets[t].status = status}

\* Over the whole time the summary counts each ticket once: as created, and by
\* the status it has when that is final; no more are absent than were called;
\* a ticket called once waited from its creation to its call.
SummaryAgrees ==
  LET summary == AgencySummary(log, WholeTime)
      logged == {t \in ToSet(book) : ~At(t, "log")}
  IN  /\ summary.total_tickets = Cardinality(logged)
      /\ \A a \in TerminalActions :
           Cardinality(WithStatus(a)) =
             IF a \in DOMAIN summary.tickets_by_status THEN summary.tickets_by_status[a] ELSE 0
      /\ summary.absence_rate \in 0 .. 100
      /\ \A i \in Rows(log, WholeTime, "CALLED") :
           LET t == log[i].ticket
           IN  Calls(t) = 1 => log[i].elapsed = tickets[t].called - tickets[t].created

\* In any period up to now, also the default one, the services and the hours
\* share out the tickets created, and there is a busiest hour if there is any.
VolumesAgree ==
  \A from \in (0 .. now) \cup {None} :
    LET period == ResolveDateRange(from, None, now)
        stats == ServiceStats(log, period)
        created == [s \in DOMAIN stats |-> stats[s].total_tickets]
        hourly == HourlyDistribution(log, period)
        total == Count(log, period, "CREATED")
    IN  /\ SumFunction(created) = total
        /\ SumFunction(hourly) = total
        /\ \A h \in BusiestHour(log, period) : h = None <=> total = 0

\* Each ticket done counts for the counter that called it last.
CountersAgree ==
  LET performance == CounterPerformance(log, WholeTime)
  IN  \A c \in Counters :
        Cardinality({t \in WithStatus("DONE") : tickets[t].counter = c}) =
          IF c \in DOMAIN performance THEN performance[c] ELSE 0

\* The user's tickets, ORDER BY created_at DESC: the nth is the one that is
\* not older than n of them.
Newest(u) ==
  LET own == {i \in DOMAIN book : tickets[book[i]].user = u}
      rank(i) == Cardinality({j \in own : j >= i})
  IN  [n \in 1 .. Cardinality(own) |-> book[CHOOSE i \in own : rank(i) = n]]

\* get_history: a page of the user's tickets, the newest first.
History(u, page) ==
  LET mine == Newest(u)
      offset == (page - 1) * PageSize
  IN  [ items    |-> SubSeq(mine, offset + 1, Min({offset + PageSize, Len(mine)})),
        total    |-> Len(mine),
        has_next |-> offset + PageSize < Len(mine) ]

\* has_next says whether the next page has items; the total is that of the
\* user's tickets, each is on one page, and none comes after an older one.
HistoryComplete ==
  \A u \in Users :
    /\ \A page \in 1 .. Len(book) + 1 :
         History(u, page).has_next <=> History(u, page + 1).items # <<>>
    /\ History(u, 1).total = Cardinality({t \in Tickets : tickets[t].user = u})
    /\ \A t \in ToSet(book) :
         tickets[t].user = u =>
           Cardinality({p \in 1 .. Len(book) : Contains(History(u, p).items, t)}) = 1
    /\ \A p, q \in 1 .. Len(book) :
         LET former == History(u, p).items
             latter == History(u, q).items
         IN  \A i \in DOMAIN former, j \in DOMAIN latter :
               p < q \/ (p = q /\ i < j) => tickets[latter[j]].created <= tickets[former[i]].created

\* What is read back agrees with the tickets: "Source de données : table `queue_logs`",
\* while the tickets table says the same of its own.
FiguresAgree ==
  /\ \A t \in ToSet(book) : TimelineOrdered(t)
  /\ SummaryAgrees /\ VolumesAgree /\ CountersAgree /\ HistoryComplete

Occurrences(s, x) == Cardinality({i \in DOMAIN s : s[i] = x})
NoticesOf(m) == {i \in DOMAIN notices : notices[i].message = m}
Pending(m) == \E c \in Counters : desk[c].pc = "save" /\ MessageOf(c) = m

\* A client is told once: no message is accepted twice or has two rows.  A row
\* SENT of an SMS or a push is one that a provider accepted, or development
\* simulated.  "Appelé après chaque tentative d'envoi": what was accepted has
\* its row, unless the database refused it.
NoticesTruthful ==
  /\ \A m \in ToSet(accepted) :
       /\ Occurrences(accepted, m) = 1
       /\ NoticesOf(m) # {} \/ Pending(m) \/ m \in unsaved
  /\ \A i \in DOMAIN notices :
       LET m == notices[i].message
       IN  /\ NoticesOf(m) = {i}
           /\ notices[i].status = "SENT" /\ m.channel # "IN_APP"
              => settings.development \/ m \in ToSet(accepted)

=============================================================================
