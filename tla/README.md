# TONDE backend: a verification project

TONDE is a queue-management backend (FastAPI, PostgreSQL through SQLAlchemy's
async sessions, Redis): a client takes a ticket for a service of a branch,
waits in a Redis sorted set, is called by an agent's counter, served, and told
of it over WebSocket, SMS or push. This directory holds TLA+ modules translated
from `src/app`, the TLC configurations that check them on small instances, and
proofs that TLAPS checks for every value of the constants.

Every handler of the program is a coroutine: between two `await`s nothing else
runs in its process, and at an `await` anything may, in this process or in
another one. The two stores, PostgreSQL and Redis, share no transaction. That is
where the difficulty of this code lies and what the models keep.

## 1. Inventory

| Component | Source | State | Operations | Interacts with | What is hard | What makes it correct |
|---|---|---|---|---|---|---|
| Ticket state machine | `models/ticket.py` | `tickets.status` | `ALLOWED_TRANSITIONS`, active statuses, priority scores | queue engine | none by itself: it is data | the status only moves along the table |
| Queue engine | `services/ticket_service.py`, `routers/tickets.py`, `models/queue_log.py` | `tickets`, `queue_logs` | create, get, cancel, call-next, serving, done, absent, return, history | Redis queues (calls), hub (events), notifications (calls), branches and services (reads) | interleaved requests, stale reads, partial failures between the two stores, several commits in one operation | one active ticket per user; allowed transitions only; WAITING iff queued; audit rows true and chained; FIFO by priority; a waiting ticket is called |
| Redis queues | `core/redis.py` 162-239 | one sorted set per (org, branch, service) | zadd, zrem, zrange, zrank, zcard | queue engine | the head is read, then removed in another step; score arithmetic | members are tickets of that service; the head is the oldest of the highest priority |
| Database sessions | `core/database.py` | one session per request | begin, commit, rollback on error | every service | a request may die at any await | nothing uncommitted survives |
| WebSocket hub | `websocket/queue_ws.py`, `websocket/events.py`, `routers/tickets.py` 182-327 | index by ticket, set by agency, the listener task | connect, disconnect, send, broadcast, listen, publish | Redis Pub/Sub (messages), clients (sends) | a set iterated over across awaits; clean-up of an old connection after a reconnection; lost subscriptions | rooms are exact; events reach the right clients, once, in order; an announced turn is heard |
| Numbering, position, ETA | `ticket_service.py` 117-123, 152-161, 180-219, 636-652 | ticket number of the day | count-then-insert, zrank | queue engine | two creations count the same; midnight; zrank of a ticket already called | a number is the ticket's rank in its day and prefix; position and estimate never negative |
| Authentication and sessions | `services/auth_service.py`, `core/redis.py` 64-158, `models/refresh_token.py` | OTP, attempts, block (Redis, with expiry); refresh tokens (PostgreSQL) | register_phone, verify_otp, register_email, login_email, refresh, logout, logout_all | Redis, users | concurrent refreshes of one token; refresh against logout_all; INCR then EXPIRE | one live token per session, none once it is ended; tries bounded per code; a code signs in once; no count that never ends |
| Organisations, memberships | `services/organization_service.py` | organisations, invitation codes, user_organizations | create, update, delete, invite, join, leave | users, branches | codes that expire or are replaced while used; updates that overlap a replacement | a membership begins by an invitation that is open at its commit; a replaced code stays dead |
| Employees and roles | `services/employee_service.py`, `models/user.py` | employee rows, user.role, user.org_id | create, update, deactivate | users, authorisation | two rows of state that must agree; operations on rows already INACTIVE; two employers | a user's role and org are those of the employment; staff reach only their own organisation |
| Counters | `services/counter_service.py` | counters: name, is_open, is_active | create, update, open, close, delete | branches, queue engine (only through ids in the body of call-next) | open and delete overlap; nothing ties a call to an open counter | an open counter is active; active names are distinct |
| Branches, services | `services/branch_service.py`, `services/service_service.py` | is_open, is_active, prefixes, configuration | create, update, delete, configure | queue engine reads them | check-then-insert of prefixes; reactivation | active services of a branch have distinct prefixes |
| Notifications | `services/notification_service.py` | notifications | called, done, long wait; SMS, FCM | queue engine | called after the commit, failures swallowed; answers lost, rows refused | nobody is told of what was not committed, nor twice; a row says SENT of what was accepted |
| Analytics | `services/analytics_service.py` | none: reads queue_logs | summary, service stats, counters, hours | audit trail | reads assume that rows chain | sums over the rows are those of the tickets |
| Authorisation | `core/deps.py`, `routers/` | none: reads the caller's row | role and organisation guards | users, all routers | each router writes its own guard, and they differ | no route of another organisation is open to staff |
| Rate limit, health, schemas, migrations | `core/middlewares.py`, `main.py`, `schemas/`, `migrations/` | none of their own | formatting, probes | all routers | | |

## 2. Modules

| Module | Models | Extends or instances |
|---|---|---|
| `TicketStates` | statuses, transitions, scores, active statuses | |
| `TicketLifecycle` | abstract specification: what the engine promises of tickets | `TicketStates` |
| `QueueEngine` | TicketService over PostgreSQL and Redis, split at its awaits | `TicketStates`, `TicketLifecycle` by INSTANCE |
| `MCQueueEngine` | symmetry and view for TLC | `QueueEngine` |
| `QueueEngineProofs` | inductive invariant of `Spec` | `QueueEngine` |
| `DisciplineProofs` | refinement and invariants of `DisciplinedSpec` | `QueueEngineProofs` |
| `WebSocketHub` | one process's QueueWebSocketManager and its listener | |
| `MCWebSocketHub` | which ticket each connection follows | `WebSocketHub` |
| `WebSocketHubProofs` | inductive invariant of the hub | `WebSocketHub` |
| `SessionLifecycle` | abstract specification: what AuthService promises of refresh tokens | |
| `Authentication` | AuthService over Redis and PostgreSQL, split at its awaits | `SessionLifecycle` by INSTANCE |
| `MCAuthentication` | workloads and symmetry for TLC | `Authentication` |
| `AuthenticationProofs` | inductive invariant and refinement | `Authentication` |
| `Access` | role hierarchy, guards of the routers, column-wise UPDATE | |
| `Staffing` | EmployeeService: employees and users | `Access` |
| `StaffingProofs` | inductive invariant | `Staffing` |
| `Organisations` | OrganizationService: organisations, invitations, memberships | `Access` |
| `Catalogue` | BranchService, ServiceService, CounterService | `Access` |
| `CatalogueProofs` | inductive invariant | `Catalogue` |
| `MCTenancy` | the three administration components side by side | `Organisations`; `Staffing`, `Catalogue` by INSTANCE |
| `TenancyProofs` | inductive invariant of `Organisations`; the theorems of the three carried over to their composition | `MCTenancy`; `StaffingProofs`, `CatalogueProofs` by INSTANCE |
| `Analytics` | AnalyticsService: the aggregates, as operators | |
| `DayBook` | numbers, times and counters of tickets, history, NotificationService | `TicketStates`, `Analytics` |
| `DayBookProofs` | inductive invariant | `DayBook` |
| `MCDayBook` | three scenes of DayBook for TLC | `DayBook` |

### QueueEngine

The state is the two stores and the requests in flight. `status`, `owner`,
`service` are columns of `tickets`; `created` and `audit` are the rows of
`queue_logs` (those of action TICKET_CREATED, and the others in commit order);
`queue` and `entry` are the sorted sets, a member's score being computed from
its `entry` by the formula of `add_to_queue`. A record of `req` is a suspended
coroutine: its `pc` names the await it is suspended at, and its other fields
what it has read. `from` is the status the request read, `to` the one it will
write.

| Code | Actions |
|---|---|
| `create_ticket` | `create_ticket` (branch and service checked), `CheckActive` (409), `InsertTicket` (commit), `LogCreated` (commit), `EnqueueCreated` (zadd) |
| `call_next` | `call_next` (zrange), `LoadHead` (row read, 400), `Dequeue` (zrem), `CommitMove`, `Tell` |
| `cancel_ticket` | `cancel_ticket` (row read; 404, 403, 400), `Dequeue`, `CommitMove` |
| `start_serving`, `complete_ticket`, `mark_absent` | the action of that name, `CommitMove`, and `Tell` after DONE |
| `return_to_queue` | `return_to_queue`, `Requeue` (zadd), `CommitMove` |
| PATCH on the branch | `SetOpen` |
| the worker stops, a store raises | `Fail`: the session is rolled back, what Redis has stays |

Reading a row and checking it is one action: no other request can act on what it
read before it does. Each write to a store is an action. A commit writes the
status by primary key, whatever the row holds by then.

### WebSocketHub

The event loop interleaves connections with the listener at its sends, so
`listener` records the send in progress: the connection, the members of the set
that remain, the sends that failed, and whether the set has changed size since
(Python then raises RuntimeError at the next step of the iteration). `shared`
says whether the agency's set is still the object being iterated over:
`disconnect_client` puts a new set in its place, so it never disturbs an
iteration, and `connect_client` after it does not either. A connection is `lost`
when its peer is gone and the server does not know; its handler then ends with a
`client_state` that reads DISCONNECTED (`closed`, filtered out of the set) or
still CONNECTED (`gone`, left in the set until a broadcast fails on it).
`your_turn` and `queue_update` are events to a ticket, `ticket_called` and
`broadcast_message` events to an agency. Events published while the process is
not subscribed are lost.

### Authentication

The state is the Redis keys of a phone number (`otp`, `attempts`, `sms`,
`blocked`, the counters with what is left of their time to live), the tables
`users` (`accounts`, `disabled`) and `refresh_tokens` (`holder`, `revoked`,
`expired`), and the requests in flight. `session` names the sign-in that a token
descends from: the code does not store it, but each token of a rotation replaces
the one before, which is what refresh_token.py means by "une ligne par device".

| Code | Actions |
|---|---|
| `register_phone` | `RegisterPhone` (block checked), `CountSms` (INCR, 429), `ExpireSms` (EXPIRE), `SaveOtp` and `SaveAttempts` (the two SETEX of save_otp) |
| `verify_otp` | `VerifyOtp` (block checked), `GetOtp`, `Attempt` (INCR and comparison), `Block` or `DeleteOtp`, `FindUser`, `InsertUser`, `Issue` |
| `register_email`, `login_email` | `RegisterEmail`, `InsertEmail`; `LoginEmail`, `Issue` |
| `refresh_token` | `RefreshToken` (row read), `ReadUser`, `Rotate` (commit) |
| `logout`, `logout_all` | `Logout`, `LogoutAll` (rows read), `Revoke` (commit) |
| time, an operator, a crash | `ExpireKey`, `Expire`; `Disable`; `Fail` |

Codes are told apart as generate_otp draws them in production; in development
every code is the constant `DEV_OTP` and nothing about codes is claimed. A time
to live is kept as what it outlasts: the count of tries `covers` the code stored
with it, is `short` for a code stored later. Three histories (`use`, `ended`,
`raced`) record what properties excuse, and no guard reads them.

### Access, Staffing, Organisations, Catalogue

Each operation of these services reads rows, decides, and commits; the actions
are the read with its checks, each further await, and the commit. `Flush` is the
rule of SQLAlchemy they all rest on: an UPDATE names the columns that changed
since the row was read, so two commits on one row merge column by column. A
request is `stale` once another commit has touched what it read: properties that
the code keeps only when operations do not overlap say so by that mark or by the
histories `disturbed` and `excused`, which also record the operations that no
check of the code orders (a status set by PATCH, an INACTIVE row written again, a
row reactivated or renamed). `Access` has one predicate per router, and
`StaffKeepToOwnOrg` says what they amount to together.

| Code | Actions |
|---|---|
| `EmployeeService` | `Create`, `Update`, `Deactivate`, then `ReadUser` and `Commit`; `ListEmployees` |
| `OrganizationService` | `Create`, `Insert`; `Update`, `Delete`, `Patch`; `Generate`, `Draw`, `Patch`; `Join`, `ReadMember`, `Enter`; `Leave`, `CommitLeave`; `Expire` when a date passes |
| `BranchService` | `CreateBranch`, `CheckSlug`, `InsertBranch`; `UpdateBranch`, `WriteBranch` |
| `ServiceService`, `CounterService` | `CreateItem`, `CheckLabel`, `Insert`; `Update`, `Delete`, `Open`, `Close`, then `Write` |

### Analytics and DayBook

`Analytics` is the service's queries as operators over a sequence of queue_logs
rows. `DayBook` produces such rows: it is TicketService seen over days rather
than awaits. Creation stays split (count, insert, log, enqueue, rank), because
the number is a count read before the insert; the operations of agents are one
step up to their commit, since their interleavings are QueueEngine's subject.
Each counter's request then notifies the client, channel by channel: `Send` is
the call of the provider (accepted, refused, or accepted with the answer lost),
`Save` the row of `notifications`, `SaveFails` its refusal. A refused flush
leaves the request's session unusable until a rollback that only get_db makes, so
nothing more of the notification is saved or sent.

## 3. Runs

| Run | Specification | Checks | Shows |
|---|---|---|---|
| `EngineConcurrent` | `Spec` | `TypeOK`, `QueueSound`, `AuditTruthful`, `CreationLogged`, `NoPhantomNotice` | what holds however two requests interleave, even on one ticket, and wherever one dies |
| `EngineDisciplined` | `DisciplinedSpec` | `OneActivePerUser`, `AuditChain`, `WaitingIsQueuedUnlessCrash`, `NoServedTicketInQueue`, `NoOvertaking`, `ImplementsLifecycle`, `OnlyAllowedTransitions` | what holds when requests on one ticket, and creations of one user, do not overlap |
| `EngineProgress` | `FairDisciplinedSpec` | `WaitingIsServed` | no waiting ticket is forgotten |
| `EngineStaleCommit` | `Spec` | `OnlyAllowedTransitions` is violated | two requests that read the same status both commit |
| `EngineDoubleTicket` | `Spec` | `OneActivePerUser` is violated | two creations of one user both pass the check |
| `EngineStuckQueue` | `FairSpec` | `WaitingIsServed` is violated | a cancelled ticket enters the queue and blocks its head for good |
| `HubDelivery` | `FairSpec` | `TypeOK`, `RoomExact`, `NoCrossTalk`, `InOrder`, `OnlyConnectionIsIndexed`, `QuietBroadcastReachesAll`, `TurnIsHeard` | delivery through connections, reconnections, failed sends and one loss of Redis |
| `HubBroadcast` | `Spec` | `BroadcastReachesAll` is violated | a client that joins during a broadcast ends it |
| `HubReconnect` | `Spec` | `FollowedTicketIsIndexed` is violated | the clean-up of an old connection removes the new one |
| `Sessions` | `Spec` | `TypeOK`, `OneLiveTokenPerSession`, `EndedSessionIsDead`, `TriesArePerCode`, `UsedUpCodeIsBlocked`, `CodeAcceptedOnce`, `SmsCountEnds`, `ImplementsSessionLifecycle` | what holds of codes and tokens however two requests interleave and wherever one dies |
| `Tenancy` | `MCSpec` | `TypesOK`, `UserCopiesEmployment`, `ListedOnce`, `StaffKeepToOwnOrg`, `ReplacedCodeStaysDead`, `InvitationOpensAtCommit`, `ActiveLabelsDistinct`, `OpenCounterIsActive` | the administration tables keep their rules, with every excuse the code leaves |
| `DayBook` | `MCSpec` | `TypeOK`, `NumberIsRank`, `FiguresAgree`, `NoticesTruthful` | what is numbered, counted, listed and notified agrees with what happened |

The five violations are disagreements between the code and a sentence of the
repository; each is quoted under "findings" in `PROJECT.json`.

**The discipline.** Nothing in the code prevents two requests on one ticket, or
two creations of one user, from overlapping (no row lock, no version column, no
unique index), and the three `Engine*` violations are what then happens. The
rest of the engine is still worth checking: `Discipline` says that no two
requests in flight hold the same ticket (`Holds`) and no two create for the same
user, while requests on different tickets of one queue go on interleaving. It is
exactly what per-ticket and per-user serialisation would give. What is checked
under `Spec` needs no such assumption.

**Bounds.** Two or three tickets, two users, one a member of the organisation
(only members may cancel), one service, two requests in flight, at most one of
which dies. Two requests are enough for every read-write race, as each involves a
reader and one writer in between; three tickets let two wait while a third is called, and a
fourth adds only more waiting. Two services are left to the proof of `QueueSound`, which is the only
property that relates them. `MaxEnqueues` stops clients from asking to return after
three zadds: enough for two tickets to be queued and one to return behind the
other. `ScoreUnit` is 100 where the code has 10^9 ms: arrival times stay below it,
as they do in the code for tickets of the same days. No two zadds share a
millisecond in the model; Redis breaks such a tie by ticket id. The hub has one
agency, two tickets of it, a client of the first that connects twice and one of
the second, two events and at most one loss of Redis: with that, a broadcast can
be joined, left and cleaned up half-way, and a turn can race a reconnection.
A second agency would only matter to `RoomExact` and `NoCrossTalk`, which are
proved for any number of agencies.

`Sessions`: one phone, one email, three codes, four tokens, two requests, one
crash, limits of two tries and two SMS (the code has 3 of each: what matters is to
be below, at and past a limit, and a counter stops one past it). Four tokens make
a sign-in, two rotations that race, and one more. Codes and tokens share no
key, so the two workloads are run apart. `Tenancy`: one user hired by two
organisations over two rows, a client, two invitations, two services and two
counters of one branch with two labels, two requests. `Followed` ends a behaviour
once the only user or an item is excused: nothing more is claimed of it. `DayBook`: three
tickets of two services that share a prefix (`Catalogue` shows that they can), one
counter, days of two hours over three hours, five log rows before agents and
clients stop. Its three scenes take apart what does not interact: numbers
given out side by side and across midnight, two lives in full, one client
notified under every setting.

**Excuses.** A property that the code keeps only outside a certain race names that
race and nothing wider. `raced` is set only by a commit that revokes a token already
revoked; `torn` until save_otp's second command has reset the count, and for good if a
try came before it or a crash prevented it;
`exposed` only when two verifications held one code or one died before deleting
it. Without the race, the property has no way out, and each mutant breaks it there.

**Symmetry and view.** `MCQueueEngine` declares tickets and requests
interchangeable; it is used only in runs that check invariants, action
properties and refinements without fairness, like the symmetries of the other MC
modules. Its view forgets the order of audit rows, which the engine writes and never reads: it keeps, per ticket, which rows there are and where the
last one leads, which is all that `AuditTruthful` and `NoPhantomNotice` read.
`EngineDisciplined`, which checks the order (`AuditChain`), uses no view.

**Deadlock** is not checked: clients, agents and connections may all be done.

**Fairness.** `WF` on the steps of each request: a coroutine whose await is over
is resumed by its event loop, and in these runs no request dies. `SF` on
`call_next` per service: agents press "next" as long as the queue is not empty,
but share the request slots with others, so they may be enabled only now and
again. No fairness is assumed of clients, nor of agents for the tickets they
have called. In the hub, `WF` on the listener (its task is resumed when the send
it awaits is over) and on `Resubscribe` (it retries for ever, every five
seconds). That a send ends at all is an assumption: the code sets no timeout, and a
send that never ends stops every later delivery of the process.

## 4. Proofs

All theorems hold for any finite or infinite sets of tickets, users, services,
requests, connections, agencies, phones, tokens, organisations, branches and items, and any
bounds; only `DayBook` needs its tickets to be finite in number, since its cardinalities
mean nothing otherwise. They assume `EngineAssumption`, `HubAssumption`,
`AuthAssumption` and `DayBookAssumption`, which say of what type the constants are;
the theorems of `CatalogueProofs` and `StaffingProofs` have `CatalogueConstants` and
`StaffingConstants` as hypotheses, those about `Organisations` alone have `OrganisationsConstants`,
and `TenancyAssumption` is the conjunction of the three. TLC evaluates all of them.

Hardly any property is inductive as it stands. What each proof adds is listed here; in
every module there is one lemma per action, and they are put together at the end.

### Queue engine

`QueueEngineProofs` proves `TypeOK`, `QueueSound` and `AuditTruthful` for `Spec`, from
`IInv`: `CommitMove` appends a row with the statuses a request carries, `Dequeue` and
`Requeue` trust the request's ticket and service, and `InsertTicket` must not overwrite
a row, so `IInv` adds `RequestSound` (a request works on a ticket that exists, or on a
uuid that no other request has drawn; what it will commit was allowed when it
read it) and `RowSound` (a row that exists has an owner and a service; an unborn
ticket has no audit rows). `CreationLoggedAlways` and
`NoPhantomNoticeAlways` add what a request between two commits owes: a ticket
without its creation row has the request that will write it, and a request that
tells has its row in the audit trail.

`DisciplineProofs` builds on it for `DisciplinedSpec`. `DInv` adds that a request
about to commit still sees the status it read, and that a user whose creation
has passed the check has no active ticket; the discipline keeps both through the
steps of other requests. From there `EngineImplementsLifecycle` maps each step to
a step of `TicketLifecycle` or a stutter, and `OnlyAllowedTransitions`,
`OneActivePerUser` and `AuditChain` follow.

The queue against the table: `PlaceInv` adds `InPlace`, which says for each await of a
request where its ticket is. A request about to commit CALLED or CANCELLED has taken it
out of the queue, one about to commit WAITING has put it in, and one that has not
reached its store operation yet finds the two stores in agreement. The discipline is what
lets the steps of other requests leave that alone (`OthersInPlace`).
`NoServedTicketInQueue` and `WaitingIsQueuedUnlessCrash` follow.

The order of the queue: `FifoInv` adds only that arrivals are past (`ArrivalsPast`), so
that a ticket queued later outranks nobody chosen before. `HeadIsNotOutranked` is the
arithmetic of the score: the lowest score is nobody's that another outranks.
`NoOvertaking` follows for the two awaits between the choice of a head and its removal.

### WebSocket hub

`HubInv` gives `TypeOK`, `RoomExact`, `NoCrossTalk` and `QuietBroadcastReachesAll`. It
adds that the index leads from a ticket to a connection that follows it
(`IndexSound`), and of a broadcast in progress (`SendSound`) that its members belong to
the room, that those found dead will never be open again, so that removing them costs
no open connection its place, and that everyone it has been through has heard it or is
gone.

`OrderInv` gives `InOrder`: events are numbered as they are published, the numbers in an
inbox increase and exceed the number of all that was received, and those whom a broadcast
has still to reach have received nothing as late as it. `IndexInv` gives
`OnlyConnectionIsIndexed`: every connection that the index or the listener knows has
been opened, so a clean-up or a failed send that empties an entry concerns a connection the
ticket has had.

### Authentication

`IInv` gives the types; it adds to them that a request at work on a phone carries
a phone, that the tokens it carries were issued, and that a session is named by
an issued token. `TokenChange` reduces the disjuncts of `Next` to the three that
write refresh_tokens; `OneLiveTokenPerSession`, `EndedSessionIsDead` and the refinement of
`SessionLifecycle` (`SignIn`, `Rotate`, `Revoke`, a stutter) follow from it, and
`SmsCountEnds` from the two actions that write the count.

The properties of codes need to know who holds one. `CountCovers` says that the count
stored with a code outlasts it and is at least its tries: with the comparison in
`Attempt` it gives `TriesArePerCode`, and with the request that has just reached the
limit, `UsedUpCodeIsBlocked`. `AcceptedInv` says that a stored code is one phone's and who holds it works for that
phone (`CodesApart`), and that a code that no race has exposed is held by one
verification at most, which still owes its deletion once it was accepted (`HeldOnce`):
`CodeAcceptedOnce`.

### Administration

`CInv` in `CatalogueProofs` gives `ActiveLabelsDistinct` and `OpenCounterIsActive`: what a
commit does depends on what its request read, so it adds that a request nobody has
overtaken still sees it: the row is the one it read (`WriteSound`), the label it looked
up is still free (`InsertSound`).

`SInv` in `StaffingProofs` gives `UserCopiesEmployment` and `ListedOnce`. It adds the same for an
employee: a request that is not stale has read the user's row as it is, and the
employment it will write (`RowSound`, `CreateSound`, `ReadSound`). The commit writes two rows column
by column, and the hard part is that whatever columns a PATCH names, an ordered commit leaves
the copy equal to the employment (`OrderedCommit`). `StaffKeepToOwnOrg` is then
a fact about the guards alone (`CopiesKeepStaffIn`), read from all the routers.

`OInv` in `TenancyProofs` gives `ReplacedCodeStaysDead` and `InvitationOpensAtCommit`.
It adds that a code that was drawn and not yet committed is in no row and in
no other request (`DrawSound`, `DrawsDistinct`), that rows hold distinct codes
(`CodesSound`), and that a join nobody overtook still finds its invitation open
(`JoinSound`). The second half of the module is the composition: each step of `MCSpec`
is a step of one component and a stutter of the other two, so each component's
invariant holds of it, and `TenancyTypeCorrect` and five more theorems state the
properties of the run as it checks them.

### Day book

`DInv` is `TableInv /\ NoticeInv`, and gives `TypeOK`, `NumberIsRank`, `NoticesTruthful`.
The module begins with lemmas about appending to a sequence, removing from it and
where an element is in it, which the book, the queues, the log and the notifications all need.

`TableInv` is about tickets. `BookSound`: a ticket is in the book once, from its
insert on. `QueueSound`: a queue holds a ticket once, of its own service, that
waits or is cancelled, so that a rank is at least 1 or None. `CountValid`: unless it
was crowded meanwhile, what a request counted is still the number of the day's tickets with its
prefix when it inserts. `NumberIsRank` follows, because that set, seen from the book, is
counted by the bijection between tickets and their places in it; and from it
`NumbersAlwaysDistinct`, for which ranks are stated at all: two tickets of a day and prefix
show different numbers. `DatesSound` bounds each date by the one before and by now, and gives
`DatesAlwaysOrdered`, the first conjunct of `FiguresAgree`.

`NoticeInv` is about messages. Whatever was told was begotten by a call or a completion of
the ticket, and is not begotten again (`Begot`: a ticket's n-th call is one event); two desks
at work are on different events (`DesksApart`); a desk between its provider and its row is
the one that owes the row (`DeskSound`). `NoticesTruthful` follows.

`FigInv` is about the log. It compares totals, so that no sum over the tickets is needed: the rows of
an action are as many as the tickets that have come to its status (`CreatedCounted`,
`FinalCounted`, per counter `DoneCounted`), the ABSENT rows and the tickets now CALLED together
no more than the CALLED rows, and the row of a ticket's only call has its wait (`FirstWait`).
A step logs nothing, a creation or a move (`StepShape`). `SummaryAlwaysAgrees` and
`CountersAlwaysAgree` are two more conjuncts of `FiguresAgree`.

`VolumesAlwaysAgree` is the fourth, and it does sum: over services and over hours. What a
finite sum is cannot be shown by induction on a set, since the induction theorems take a
predicate as a parameter; it is shown of a least counterexample (`WFMin`, with the strict order of
subsets `FS_StrictSubsetOrderingWellFounded`). The lemmas say that classes that
share out a finite set have sizes that add up to its own, and the services and the
hours share out the CREATED rows of any period (`ServicesShareOut`, `HoursShareOut`).

`HistoryAlwaysComplete` is the fifth. `Newest` lists a user's tickets by rank, the number of the
user's tickets entered since, itself included; `Ranks` shows that ranks are a bijection onto `1 .. n`,
against the order of the book, and `PageOfPlace` that a place is on one page. The order needs
one more invariant, `BookDated`: the book is in the order of creation, because
`SameOwners` (no step changes the user or creation date of a ticket) and `BookStep` (what
is entered is entered last, and dated now). With the five, `FiguresAlwaysAgree` is
the run's property as the run checks it.

`NoTicketSkipped` is about two requests for the history with other requests between them. Pages are offsets, and
a ticket created in between moves all the others down. `RankAfterStep`: a step keeps the
rank of a ticket or adds one; so the ticket stays on its page or goes on to the next, and a
client that reads on may meet a ticket twice, and misses none.

### What is only model-checked

- `WaitingIsServed` and `TurnIsHeard`: liveness under fairness, for which TLAPS has no
  rules of fairness and ENABLED.
- The five violations, which are single behaviours.

All the safety and action properties of the passing runs are proved. `NumbersAlwaysDistinct` and
`NoTicketSkipped` are proved besides, and are properties of no run.

## 5. Not modelled

- The activity of a service (`_get_service`): a creation for an inactive one ends before it writes anything.
- Counter WebSockets (`connect_counter`, `send_to_counter`): connections are stored and removed, and no code sends to them.
- A WebSocket handler that ends with another exception than WebSocketDisconnect (a pong sent after the listener's send has failed) skips `disconnect_client` and leaves its entries; the model's `gone` covers the set, not the index.
- Several server processes: each runs its own hub on the same Pub/Sub channel, and they share no state; the engine's requests may belong to any process.
- A branch's configuration (`get_config`, `update_config`): stored, and of its columns only `avg_service_minutes` is read by an operation. `max_daily_tickets` and `max_wait_minutes_alert` are enforced nowhere.
- `notify_long_wait_alert`, `get_queue_snapshot`, the generic cache: no caller. `counters.current_ticket_id`: no writer. `agency_id` and `counter_id` of an employee: no reader.
- `get_by_id` and the pages of `list`: reads of one table, without a decision; `list` is modelled where a property reads it (`ListEmployees`, `ListServices`, `ListCounters`, `History`).
- A crash in DayBook's creations: QueueEngine has it (`CreationLogged`). Priorities in DayBook: all tickets have one, the order of priorities is `NoOvertaking`'s.
- The order of a user's tickets created at the same instant, which `get_history` leaves to the database: `Newest` takes the order of the book.
- Role checks in `Organisations` and `Catalogue`: their actions are those of a caller whom the router let through; who that is, is `Access`, and that it stays so is `Staffing`.
- JWT decoding, password hashing, slowapi's rate limits: third-party libraries. Start-up, health, schemas, migrations: no state that an operation changes.

Three sentences of the repository that the code does not bear out, and that no run
is about: the docstring of `verify_otp` (auth_service.py:132) gives 5 as the default of
OTP_MAX_ATTEMPTS, config.py has 3; the comment "fire and forget" of the
notifications (ticket_service.py:284) stands over an `await`; and the absence rate of
`get_agency_summary` is a percentage only over periods that do not cut a ticket's
call from its absence, else it can exceed 100 (`FiguresAgree` states it for the whole time).

## 6. Plan

Done: every component that keeps state has its module, its run and its
properties; each of these modules has proofs, of every safety and action property that
its run checks.

What could follow:

1. `Staffing` with two users and two administrators, whose rights the other can
   take away while a request is in flight.
2. Several server processes, each with its hub on the same channel, and the
   engine's `Tell` as the publisher of the hub's events.
