------------------------------ MODULE Analytics ------------------------------
(***************************************************************************)
(* AnalyticsService (app/services/analytics_service.py): the figures of a  *)
(* branch, computed from queue_logs whenever they are asked for.  A row of *)
(* the log is [action, service, counter, elapsed, at]; times and durations *)
(* are in hours, `at' counted from the first day's midnight.               *)
(***************************************************************************)
EXTENDS Integers, FiniteSets, FiniteSetsExt

CONSTANTS
  HoursPerDay,  \* 24
  DefaultDays,  \* 7
  None

\* _resolve_date_range.
ResolveDateRange(from, to, now) ==
  [from |-> IF from = None THEN now - DefaultDays * HoursPerDay ELSE from,
   to   |-> IF to = None THEN now ELSE to]

\* The rows of an action in a period, both ends included.
Rows(log, period, action) ==
  {i \in DOMAIN log : log[i].action = action /\ period.from <= log[i].at /\ log[i].at <= period.to}

Count(log, period, action) == Cardinality(Rows(log, period, action))

\* func.avg(elapsed_seconds), rounded down; no row gives 0.
AvgElapsed(log, rows) ==
  LET elapsed(i) == log[i].elapsed
  IN  IF rows = {} THEN 0 ELSE MapThenSumSet(elapsed, rows) \div Cardinality(rows)

TerminalActions == {"DONE", "CANCELLED", "INCOMPLETE", "TRANSFERRED"}

\* _get_tickets_by_final_status: an action without rows is left out.
TicketsByFinalStatus(log, period) ==
  [a \in {a \in TerminalActions : Rows(log, period, a) # {}} |-> Count(log, period, a)]

Hours == 0 .. HoursPerDay - 1
HourOf(time) == time % HoursPerDay

\* get_hourly_distribution: an entry for every hour of the day.
HourlyDistribution(log, period) ==
  [h \in Hours |-> Cardinality({i \in Rows(log, period, "CREATED") : HourOf(log[i].at) = h})]

\* _get_busiest_hour: the hours that ORDER BY count DESC LIMIT 1 may return.
BusiestHour(log, period) ==
  LET volume == HourlyDistribution(log, period)
  IN  IF Rows(log, period, "CREATED") = {} THEN {None}
      ELSE {h \in Hours : \A g \in Hours : volume[g] <= volume[h]}

\* get_agency_summary.
AgencySummary(log, period) ==
  LET called == Count(log, period, "CALLED")
      absent == Count(log, period, "ABSENT")
  IN  [ total_tickets     |-> Count(log, period, "CREATED"),
        avg_wait          |-> AvgElapsed(log, Rows(log, period, "CALLED")),
        total_called      |-> called,
        total_absent      |-> absent,
        absence_rate      |-> IF called > 0 THEN (absent * 100) \div called ELSE 0,
        tickets_by_status |-> TicketsByFinalStatus(log, period),
        busiest_hour      |-> BusiestHour(log, period) ]

\* get_service_stats: the services that created or called a ticket.
ServiceStats(log, period) ==
  LET of(s, action) == {i \in Rows(log, period, action) : log[i].service = s}
      listed == {log[i].service : i \in Rows(log, period, "CREATED") \cup Rows(log, period, "CALLED")}
  IN  [s \in listed |-> [total_tickets |-> Cardinality(of(s, "CREATED")),
                         avg_wait      |-> AvgElapsed(log, of(s, "CALLED"))]]

\* get_counter_performance: the tickets done, by counter.
CounterPerformance(log, period) ==
  LET done == {i \in Rows(log, period, "DONE") : log[i].counter # None}
  IN  [c \in {log[i].counter : i \in done} |-> Cardinality({i \in done : log[i].counter = c})]

=============================================================================
