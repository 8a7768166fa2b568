# A TLA+ development of the academy platform

This directory models the parts of the academy platform in which several
actors, a long history, or two reports of one thing decide whether the data stay
right. The modules are translated from the Python sources under
`src/backend/app`; `PROJECT.json` names, for every definition, the lines it
stands for, and lists the hazards the properties are about.

## 1. The system

The backend is a FastAPI application over PostgreSQL (SQLAlchemy, one
transaction per request: `get_db` commits when the handler returns and rolls
back when it raises), with Celery jobs started by a beat. Nothing else is
shared between processes: every interaction below is two transactions meeting
in the tables. The isolation is READ COMMITTED, and a session keeps the rows it
has read: a second select of a row in the same session does not refresh it, and
a flush writes the columns whose value changed, by primary key. Most services
read a row, test it and update it, so a test may be stale when the update is
written.

| Component | State | Operations | Hard behaviour | What makes it correct |
|---|---|---|---|---|
| Payroll months (`payroll/services/payroll_service.py`, `month_service.py`) | month settings and lifecycle, holidays, `payroll_staff_month` | edit, holidays, close, lock, reopen, recompute | months closed out of order, reopened, edited when finalised; overlapping calls | a finalised month reflects its settings and the requests that target it |
| Carry-forward ledger (`ledger_service.py`, `calc_service.py`) | append-only ledger, per-staff `seq` | apply, reverse, carry in | rows of superseded computations stay | balances within 0 and the cap; earlier carry untouched |
| Extra-day requests (`request_service.py`) | `extra_day_requests` | raise, approve, reject, cancel, expire | decisions race; approvals recompute | one active request per month; deferred days are made up |
| Device commands (`device_command_repo.py`, `biomax/aidata.py`) | `device_commands` | enqueue, hand out, settle, cancel | lost responses, late and duplicated results, racing admins | one registration in flight per user; nothing handed out twice; the queue drains |
| Provisioning (`provisioning_service.py`) | mirror and backup of the terminals | push, restore, fleet sync, refresh, snapshot, reconcile | templates looked up at hand-out; stale snapshots | restores carry what was promised; mirror and backup lose nothing by accident |
| Events, notifications (`events/`, `notifications/`) | events, marks, queue, templates, branch toggle | emit, consume, send, retry | runs overlap and die, provider times out, conditions fail | a message is queued once and sent a bounded number of times; none is lost |
| Punch ingestion, daily attendance (`attendance/`, `integrations/biomax`, `jobs/`) | punches, day rows, lecture rosters, digests | ingest, rebuild, project, mark by hand, sweep | late and repeated punches, check-then-insert, sweeps that meet | one row per day and lecture, as the log has it; hand marks stay; parents are told once |
| Registers and standing (`attendance_report_service.py`, `analytics/`, `student_repository.py`) | stored summaries | report, refresh | the same figure computed in many places | reports agree with one another |
| Staff attendance, teacher portal (`staff_daily_service.py`, `staff_late_fine_service.py`, `teacher_portal/`) | staff punches and day rows | rebuild, mark, fine, report | stale rebuilds over hand marks; several readers | register, fines, portal and payroll agree |
| Fees (`fees/`) | profiles, installments, payments | plan, pay, void, sweep, worklist, forecast | two clerks read one balance; the sweep is stale | the books agree with the money received |
| Leave, holidays (`leave_service.py`, `leave_settings_service.py`) | leave requests, quotas, holidays | apply, decide, cancel, give, delete | tests before writes, late changes of the calendar | no overlap; no application overdraws |
| Lectures (`lectures/`) | lectures, weekly timetable | schedule, copy, generate, start, complete, substitute, make up | a slot freed and taken again | nobody planned twice; dashboards agree |
| Timetable upload (`lectures/services/import_service.py`) | – | preview, import | preview and import decide separately | what is planned is allowed |
| Accounts (`auth/`, `teacher_portal/services/admin_service.py`) | users, roles, refresh tokens | login, refresh, status, role, password | rotation and lockout races, the last super admin | sessions end with the account; an admin remains |
| Tests (`tests/`) | paper, marks, answers, reviews | build, upload, resolve, publish | five ways to a mark, two examiners | a mark is told once, by its last writer |
| Students, batches, imports (`student/`, `batch/`, `academic/`) | years, courses, subjects, batches, students, jobs | import in chunks, undo, move | imports cut short, repeated, undone beside edits | keys unique; an undo leaves nothing idle and takes nothing in use |
| Teachers, staff registry (`teacher/`, `staff/`) | teachers, rights by name, staff numbers | assign, drop, import, mirror | rights by spelling; numbers chosen from a read | rights and numbers consistent |
| Study materials, ingest (`materials/`) | materials, batch links, extracted questions, ingest runs | upload, update, relink, delete, ingest page by page | a run has its own session, commits by page, may die or be joined by another | a question is stored once and counted; links are those last asked for |
| Plugins (`plugins/`) | registry, settings, what a process has loaded | register, enable, disable, delete, configure | the memory is not rolled back; a plugin is disabled under another | what the pages show is what runs |
| Morning reminders (`daily_service.py`, `notifications/`) | reminders of the day, batches chosen | fire, choose batches | firings of the beat overlap; two choose at once | a student is reminded once; the parents told are those chosen |
| On-site device-user sync, WhatsApp client, terminals, agents | – | HTTP | – | external: modelled by what `src/backend` sees of them |
| Classrooms, AI, reports, monitoring, audit, payroll export and configuration, frontend, MCP server | rows of their own | create, edit, read | little interaction | not modelled (section 5) |

Payroll reads attendance and its own requests; attendance never calls payroll.
`request_service` calls `recompute_from` when it approves onto a finalised month;
`month_service` calls `expire_covered` after a close or a recompute. Terminals and
the on-site sync drive provisioning and attendance through HTTP. Leave and
holidays decide what lectures may be planned. Everything that should reach a
parent is an event emitted by its producer and picked up by the notification job.

## 2. The modules

| Module | Models | Composition |
|---|---|---|
| `PayrollCalc` | `apply_computation`, `reverse_to`, `balance_before` as operators | no state |
| `CarryForwardLedger` | the ledger of one staff member: closes, reopenings, recomputes, a moving cap | extends `PayrollCalc` |
| `Payroll` | months, snapshots, ledgers of all staff, requests, overlapping calls | extends `PayrollCalc`; instantiates `CarryForwardLedger` per staff member (`LedgersInRange`) |
| `DeviceCommandQueue` | command queue, terminals, mirror, backup, snapshots, reconcile pages | – |
| `Notifications` | event marks, queue, runs of the job | – |
| `Fees` | plans, payments, voids, remarks, the sweep, worklist and forecast | – |
| `DailyAttendance` | one day of a batch: punches, day rows, rosters, hand marks, sweeps, messages | – |
| `Registers` | day rows of several students and every report of them | – |
| `Standing` | records of lectures, marks, stored summaries, risk list, student pages | extends `Registers` |
| `StaffAttendance` | punches and day rows of a member of staff, register, fines, faculty report, payroll's view | – |
| `StaffPortal` | the teacher portal and the office's sheets over the same days | extends `StaffAttendance` |
| `Leave` | applications, decisions, quotas, holidays | – |
| `Lectures` | lectures and the weekly timetable | extends `Leave` |
| `LectureReports` | the dashboards of a branch | extends `Lectures` |
| `Access` | accounts, roles, sessions, locks | – |
| `Tests` | one test, from its paper to its rank list | – |
| `Enrolment` | academic structure, students, imports and their undo | – |
| `Faculty` | teachers, rights, staff rows and numbers | – |
| `TimetableSheets` | preview and import of a timetable | extends `Faculty` |
| `Materials` | the library: uploads, links, deletions, ingest runs | – |
| `Plugins` | registry, settings, instances of a process | – |
| `Reminders` | the reminders of a morning and the batches chosen | – |
| `Services` | the three side by side, sharing nothing but the process | extends `Materials`, `Plugins`, `Reminders` |
| `Sums_proofs` | what sums over finite sets satisfy; relations; single rows of the ledger | used by four of the others |
| `..._proofs` | theorems (section 4) | extend the modules they are about |
| `MC...` | constants that a `.cfg` cannot write, bounds; `MCOffice`, `MCSchool`, `MCCampus` and `MCDevices` put several instances side by side | one variable chooses the instance of a behaviour, which stays with it |

**How a request is modelled.** A request that tests before it writes is a
`Begin...`, which reads and tests, and a commit, which writes what it decided;
other requests commit in between. A commit writes the columns the request
changed, to the rows it read. A violated unique index is a rollback. A request
that cannot be disturbed (a row lock, or one statement) is one step. What the
terminals, the network, the provider and the files hold is a choice over small
sets, with `\E`. Where the code keeps a promise only while requests do not
meet, a history variable records that they met (`overlapped`, `raced`,
`overtaken`, `crossed`, `met`, `disturbed`), and the property says so: it holds of
requests that follow one another, and does not catch the race it names.

**Payroll.** Quantities are half days, the unit of the code's one-decimal columns.
`ComputeMonth` nets credited dates against the required days and the make-up
days of approved requests. Half days, paid leave and late fines change only the
value of the net and are left out here (fines are in `StaffAttendance`).
Attendance is corrected between calls, unless calls overlap: a call reads it
when it commits. `RecomputedFrom` is the loop over finalised months, a recursive
function.

**DeviceCommandQueue.** A terminal's request is one step because `next_pending`
locks the row it takes (`FOR UPDATE SKIP LOCKED`). A command records how often
it was handed out and with which templates. What the terminal does (`Execute`,
`Enrol`, `Delete`), what the network does (`Lose`, the `delivered` choice of
`Poll`, `Receive` without removing the record) and what the on-site sync reads
(`ReadSnapshot`) are external. The set `wire` is unordered: records arrive in any
order, late and repeatedly. Soft-deleted mirror rows are kept with
`live = FALSE`, for the unique constraint counts them and the upsert does not
see them (`CanUpsert`).

**Notifications.** A run is one transaction: `run[w]` holds what it has written
and not committed, `View(w)` what its statements see. `Start` selects the batch,
`Consume` handles one event, `Fetch` selects the rows to deliver, `Send` and
`Settle` handle one row, `Commit` publishes everything and `Abort` throws it
away; what the provider accepted stays accepted. `Settle` waits for a row that
another run has written (its row lock). A `Malformed` condition is one whose
evaluation raises; a `Managed` template is switched on and off.

**Attendance.** A day is cut into hours, two punches of one hour being within
`DUPLICATE_WINDOW`. `DailyAttendance` keeps the terminals' log, the punch table,
the day row (Layer 1), the roster rows (Layer 2) and the digests; `Registers` and
`Standing` take the rows as given and model every figure computed from them. A
percentage is kept as its two counts. In `StaffAttendance` a mark and a rebuild
that meet may leave a torn row, some columns of each: the properties of single
rows are guarded by `met`.

**Lectures.** Plans, actuals and substitutes of a teacher follow
`lecture_service.py`; a request on lectures is one step, for two overlap as two
requests on leave do. The conflict checks look at scheduled, started and paused
lectures only, as the code does. The generator takes a weekday's slots by their
start; slots of one hour come in any order, as `ORDER BY day_of_week, start_time`
leaves them.

**Access.** A request carries the columns, tokens and grants it will write; the
roles tested are those of the access token, so any active account may be the
actor. `crossed` records a commit of a request that another had overtaken.

**Services.** A request reads and commits, as everywhere. An ingest run is a
sequence of phases: it loads its material, reads each page and commits it, counts,
and marks the material done; it may fail in any of them (`FailRun`), or die without
a word (`LoseRun`). A plugin request has three steps, for it flushes its row and
changes the memory of the process before it commits; `RollBack` undoes the row only.
A firing of the beat decides in `Fire` and stores in one commit. The history
variables name what went wrong, and where: `met` (two runs on one material), `lost`
(a run that died), `sought` (two uploads of one content), `merged` (two replacements
of links), `untidy`, `undermined` and `doubled` (plugins disturbed by a restart, a
rollback or another request, plugins that lost one they need, settings looked for
twice), `overrun` and `tangled` (firings, choices of batches).

**Imports.** `Enrolment` decides a file in `BeginImport` and commits it chunk by
chunk; `UndoImport` removes what the job created and nobody uses.
`TimetableSheets` takes the address of an account and that of the teacher's row
as one.

## 3. Properties and runs

Twelve runs; six of them pass and six show where the code does not keep what one
of its own docs or comments says. The passing runs put several instances side by
side, because what they ask is of one kind: no property of one instance looks at
the tables of another.

| Run | Instances | Properties |
|---|---|---|
| `Office` | ledger; fees; attendance of a day, by one worker and by two | `OfficeTypeOK`, `BalanceInRange`, `EarlierCarryKept`, `CapRespected`, `RecomputeExact`, `BookedSoundly`, `BooksAgree`, `OverdueMarked`, `ParentsToldOnce`, `RecordsMatchLog`, `HandMarkStays` |
| `School` | payroll, marks, answers, test, imports, staff, registers, standing, faculty, timetable | `SchoolTypeOK`, `OneActiveRequest`, `DeferralsKept`, `RequestsProgress`, `MarksSound`, `UndoLeavesNothingIdle`, `ReportsHold`, `EntriesStand` |
| `Devices` | queue, fleet, mirror | `TypeOK`, `OneIdentityInFlight`, `FacesPushedOnce`, `CopiesReconciled`, `NeverRequeued`, `QueueIsServed` |
| `Notifications` | one run at a time | `TypeOK`, `QueueMatchesConsumed`, `RepeatsBounded`, `EventsConsumed` |
| `NotificationsOverlap` | two runs that overlap | `SentWasAccepted`, `ConsumedWasQueued` |
| `Campus` | leave, lectures, timetable, sessions, roles, locks; materials (`shelf`, `ingest`), plugins, reminders (`bells`, `choices`) | `CampusTypeOK`, `OneLeaveADay`, `NoDoubleBooking`, `DashboardsAgree`, `AccountsSound`, `ServicesSound`, `OnlyOfficeOverdraws`, `OutcomesStand`, `SuperAdminRemains` |
| `PayrollDeferred` | payroll | `DeferredNotUnpaid` is violated |
| `PayrollThreads` | payroll | `RecomputeThreadsMonths` is violated |
| `DeviceSnapshot` | one terminal | `SnapshotIsMirrored` is violated |
| `NotificationsWedge` | a malformed condition | `DrainNotWedged` is violated |
| `LectureRerun` | timetable | `RerunNeverDoubleBooks` is violated |
| `RankList` | marks | `RankListInSync` is violated |

### What the properties say

*Ledger.* Balances lie between zero and a cap that the settings had
(`BalanceInRange`); an operation on a month appends rows, leaves all earlier ones
and changes what no earlier month carries (`EarlierCarryKept`); it books nothing
above the cap of the moment, unless the month started there (`CapRespected`);
after a recompute the balance is the one the month's net gives from where it
started (`RecomputeExact`).

*Payroll.* One active request per month (`OneActiveRequest`); an approved request
that targets a finalised month is in its figures, and a deferred day has an
approved request that makes it up (`DeferralsKept`); a request only moves on and
expires with its month (`RequestsProgress`).

*Fees.* Installments, profile and status tell one story of the payments
(`BookedSoundly`, `BooksAgree`, the latter also of the worklist and the
forecast); what is overdue is marked in the end (`OverdueMarked`).

*Attendance.* The day row spans the punches stored and each lecture has one
record, as the day row has it (`RecordsMatchLog`); an absence and a digest are
told once (`ParentsToldOnce`); a rebuild never overwrites a hand mark
(`HandMarkStays`). The three reports of a register, the stored summaries, the
portal, the fines and payroll agree with one another and with the rows they are
computed from (`ReportsHold`, which also says of imports, teachers and timetables that
keys are unique, counts true, and the preview keeps its word); entries by hand stand (`EntriesStand`).

*Devices.* One registration of a user in flight (`OneIdentityInFlight`); a face
that was promised arrives, and the fleet is sent it once (`FacesPushedOnce`);
mirror and backup lose nothing through reordering, and both reconcile pages agree
(`CopiesReconciled`); a command is handed out once (`NeverRequeued`) and the
queue drains (`QueueIsServed`).

*Notifications.* Messages queued are those of the events consumed
(`QueueMatchesConsumed`); repeats are bounded by retries and dead runs
(`RepeatsBounded`); every event is consumed (`EventsConsumed`); a row is SENT only
if the provider took it (`SentWasAccepted`); an event counts as consumed only when
its messages are queued (`ConsumedWasQueued`).

*Leave and lectures.* `OneLeaveADay`, `OnlyOfficeOverdraws` (an application and its
decision never spend more than the quota), `NoDoubleBooking`, `DashboardsAgree` (among
others: roster, adherence and productivity blame the same no-shows on the teachers),
`OutcomesStand` (a settled leave and a finished lecture stay so).

*Accounts.* Sessions end with the account and with its password, a refresh token
is traded once, an account has one role (`AccountsSound`); the last super admin
stays (`SuperAdminRemains`).

*Services.* `ServicesSound`: a question of a page is stored once and counted, a
material that refuses an ingest is being ingested, a content is on the shelf once,
links are those last asked for; a process has loaded what the table calls enabled,
an enabled plugin has what it needs, a setting has one row; a student is reminded
once a morning, and the parents of exactly the chosen batches are told.

*Tests and imports.* One mark per student, one file per subject, subjects that add
up, a report that matches the ranks, an answer key where the test has one
(`MarksSound`); an undo leaves nothing idle (`UndoLeavesNothingIdle`). Both name the one
case in which the code keeps less than its docstrings say, by a history variable: a
mark may have in it rows that were replaced after its student left (`lost`), and a
batch may be kept by a student who was deleted alone (`strays`); see section 5.

`Mutation:` variants stand beside the definitions they change; each is a mistake
the code could plausibly have, and each property is broken by one of them.

### Bounds and why they are enough

*Office.* Three months so that one lies between two; caps 1 and 2 and nets −3, −1,
0, 1, 3, which fall short, break even, fill and overflow a balance; at most 3
ledger rows. Fees: a student with one part of two rupees or a down payment and two
parts, two clerks who overlap, two profiles (a deleted plan and its successor), two
rupees received: enough for two payments that read one balance, with a void and
the sweep between. `PartsAssumption` says of the plans generated that no part is
negative: clerks enter no negative amount, and the rounding of `EvenSplit` leaves less
than nothing for the last part only of a fee of a few rupees. Attendance: one student, a lecture in hours 1–2, punches before
and during it, two workers. With two of them (`Together`) the start time is fixed
and the raw-punch endpoint and the digest by hand are left to the instance with
one (`Alone`), which has every action.

*School.* Payroll: one staff member, two months, one date, five calls in a row or
four that overlap, two requests. Tests: two students, two examiners, two subjects,
sheets that name a student twice or a stranger. Imports: files that repeat a key,
chunks of one row, two imports or one beside an edit. Staff days: two days, three
times of day, two sessions. Registers and standing: two students of one batch, of
two, or one of both; three lectures; four changes. Faculty and timetable: two
teachers, two spellings of one subject, three numbers, two uploads. `MCSchool`
states, at each subject, what it leaves to another.

*Devices.* "queue": one terminal, two users, three commands and two overlapping
sessions, for two registrations of one user and a bystander. "fleet": two
terminals, one user, two templates, two commands that nobody cancels. "mirror":
one terminal, two users, whole snapshots. Two records on the wire reorder; three
local changes at a terminal.

*Notifications.* Three templates on two channels, two events, a batch of one (smaller
than the backlog), two retries, one dead run; with two workers one event and a
condition that raises until an operator switches its template off, at most two
copies of a message.

*Campus.* One or two teachers, two clerks, two leaves, two lectures, two accounts,
three refresh tokens and three grants: two requests that overlap, a bystander, and
a token that was traded. The clerks of "leave" are alike: the second begins beside
the first. A no-show for another reason than the teacher is the first lecture's,
where no leave is given, and one of two lectures is not deleted. "shelf": two copies
of a test and two batches, for two requests on one content or one set of links.
"ingest": one material of one page with one question, two runs, beside a change of
its category or its deletion. "plugins": two, one of which needs the other, one
setting, two requests. "bells" and "choices": a student of two batches, two topics,
two firings, two requests that choose batches.

`CHECK_DEADLOCK FALSE` stands where bounded histories really stop: `Office`,
`School`, `Campus` and the violations on payroll, marks and the timetable. Symmetry
is over the HR users of payroll, who are treated alike, and over the workers of
`NotificationsOverlap`, which checks safety only.

### Fairness

Three liveness properties, each under the one assumption it needs:
`OverdueMarked` under weak fairness of `SelectOverdue` and `MarkOverdue` (the beat
starts the nightly sweep again and again, and a sweep ends); `QueueIsServed` under
weak fairness of `Poll(d1)` (a terminal polls every few seconds; no result is
owed); `EventsConsumed` under weak fairness of a run's steps (the beat restarts the
job; a run may die, `MaxAborts` times).

### What the violations show

- `PayrollDeferred`: a recompute writes all uncovered days and keeps the deferred
  ones, so days an approval deferred are unpaid again.
- `PayrollThreads`: after an edit a later month may start from a superseded row of
  the edited month, because the edited month itself got no new row.
- `DeviceSnapshot`: a user who left a terminal and came back meets the soft-deleted
  mirror row; the whole snapshot is refused.
- `NotificationsWedge`: failed events come first in every batch; a batch full of
  them lets nothing else be consumed.
- `LectureRerun`: a completed lecture is no conflict; a second run of the generator
  or a copy plans its slot again.
- `RankList`: a reviewed row of a subject's file becomes the mark of the whole test;
  total and columns part.

`PROJECT.json` quotes the sentence each of them contradicts.

## 4. Proofs

TLAPS proves the following for every value of the constants; the runs show the
same properties on small instances. Each proof module holds an inductive
invariant, one step per action, and the theorems at its end.

**`Sums_proofs`**. The folds of the community modules sum a table over a finite set
in an order nobody knows. What is needed of them is proved here without an induction
theorem: those of the library take an operator, which the provers cannot instantiate,
so a statement about all finite sets is shown by the least size for which it fails
(`AllNumbers`). First that the recursive function behind a fold exists (`RunningIs`)
and does not depend on the set it is defined over (`RunningSub`); then that any
element may be taken first (`TotalTake`), that sums over disjoint sets add up
(`TotalApart`, `TotalOfParts`), that a table of pairs may be summed by rows
(`TotalPairs`), that greater terms give a greater sum (`TotalGrows`); and that
`SumFunction` and `SumFunctionOnSet` are these sums (`SumOfAll`, `SumIs`). Two more
carry the reports: a relation has as many pairs by its rows as by its columns
(`CountedTwice`), and the mean of everything lies between the least and the greatest of
the means of its parts (`MeanBetween`).
At its end stand the lemmas on single rows of the carry-forward ledger that the next
two modules share (`RowsOver`, `BalanceBeforeIn`, `ApplyComputationRows`, `ReverseToRows`).

**`Ledgers_proofs`**, the ledger (`LedgerAssumption`: months and caps are natural
numbers, nets are integers). `TypeCorrect`; `AllRowsInRange` and `BalanceStaysInRange`
(`BalanceInRange`); `AppendOnly` (`EarlierCarryKept`); `CapStaysRespected`
(`CapRespected`). The invariant is that the balances of *all* rows, also superseded
ones, lie in a set `B` with 0 in it: an operation picks the balance it starts from
among them. It is proved once for any `B` that `ApplyBalance` does not leave, and used
with the integers, the range of the caps, and the values below a cap. `CapRespected`
needs no invariant over time but the same lemmas about the rows an operation writes.
`RecomputingIsExact` (`RecomputeExact`) follows the rows a recompute writes one by one
(`RowThreads`, `ComputationThreads`, `ReversalThreads`). It has the hypothesis
`~ AllowNegative`: with negative balances on, the days borrowed are in the computed
balance and in no row (section 5).

The fees (`PartsAssumption`). `BooksAreSound` (`BookedSoundly`), `BooksDoAgree`
(`BooksAgree`), `FeesTypeCorrect`, for any students, plans, clerks and payments. The
invariant `FeesInv` says, besides types, that the amounts of a plan add up to the fee
(`PlansHold`), that paid and pending of a profile do (`TotalsBalance`), that no
installment is booked above what was received for it (`BookedWithinReceived`), and what
a request under way knows (`TillKnows`): the row it read has the amount of the row in the
table, what it will book stays within that amount, and what the row says was paid had
been received. Without the last, nothing could be said of a write
that comes late. That the forecast equals what is pending (`ForecastIsPending`) is a sum
over the pairs of a plan and a part, taken by rows.

**`School_proofs`**. Payroll: `ClaimsAreSingle` (`OneActiveRequest`): calls of any
number of sessions overlap. The invariant `ClaimsInv` adds what a session that is
raising a request relies on (`Raising`): it read the number of active claims, and the
check at its end sees all that were let in meanwhile.

`PayrollTypeCorrect` (`TypeOK`, `LedgersInRange`), `DeferralsAreKept` (`DeferralsKept`)
and `RequestsDoProgress` (`RequestsProgress`), for finitely many dates of a month. The
loop of `recompute_from` is a recursive function over the months; that it exists
(`AfterIs`) and what it makes of the snapshots (`RecomputedIs`, with `Threaded`: which
months it writes, from which settings and requests, and that it leaves deferred days
alone) is shown month by month, again by the least month for which it fails. `PayTyped`
holds for overlapping calls too; it says that every finalised month has its snapshot,
and of the calls under way that the rows they name are there: a lock has the snapshot
of its month, a decision its request. `PayCalm` says, while no two calls were under way
at once, that what a call read is so when it commits (`StillSeen`), that finalised
months have absorbed what was approved (`Absorbed`) and that deferred days are made up
(`MadeUp`). The last is what makes requests progress: a pending request whose month is
covered could stay only if days of that month were deferred; then an approved request
would move them, a second active one for the month, against `OneClaim`.

Marks: `MarksAreSound` (`MarksSound`), for finitely many students, subjects and
questions. `MarksTyped` holds for overlapping requests too and says, among the types,
that every row of a subject fits what the test gives that subject (`RowFits`).
`MarksCalm` says the rest while no two requests were under way at once: a student has
one mark, a question one answer; the rows of a student in a subject come from one file
(`OneFile`); a mark that was made from rows is the sum of those that live or that were
replaced after the student left (`RowsInMarks`), and is not above its maximum
(`AddsUp`). Of the request under way it says `StillRight`: what it read of marks and
answers is so now, and what it will write adds up with the rows there will be
(`Outcome`). A sum over the rows is a sum over the subjects (`TotalOfParts`), each at
most the total of its subject. `MarkingsDoStand` (`MarkingStands`, one half of
`EntriesStand`): a resolved row stays as it was reviewed, and a test is announced once,
for the request that commits still holds the reviews as they are (`ReviewsCalm`).

**`DeviceCommandQueue_proofs`** (finitely many terminals and users). `TypeCorrect`;
`RegistrationsAreSingle` (`OneIdentityInFlight`); `HandedOutOnce` (`NeverRequeued`);
`PromisedFacesArrive` (`FaceRestoresCarryFace`, the first half of `FacesPushedOnce`);
`BackupOnlyGrows`. Three facts carry them: commands keep their identity and only
move on in status (`Progress`); a restore promised with a face has one in the backup
(`Promised`); and the backup only grows, so the promise still holds at hand-out.

`FleetIsServedOnce` is `FacesPushedOnce` as a whole, under two conditions on the
portal, not guarantees of the code: the sync is not run beside itself
(`OneFleetRun`), and a command is cancelled only while it is pending
(`NoLateCancel`). Either is needed: two runs that read before one of them commits
push the same face twice, and a push that was cancelled after its hand-out is made
again before its late confirmation comes (TLC finds both within two commands). The
invariant is `FleetInv`, what a run has read is still so when it commits, which
needs that a failed command is never confirmed later. That is `VerdictsStand`: a
terminal has one answer to a command, however often it arrives, and has none while
the command is queued or in its inbox.

**`Notifications_proofs`** (finitely many templates and workers). `TypeCorrect`;
`NoMessageIsLost` (`ConsumedWasQueued`) and `SentMeansAccepted` (`SentWasAccepted`)
for runs that overlap and die; `QueueAndMarksAgree` (`QueueMatchesConsumed`) and
`RepeatsAreBounded` (`RepeatsBounded`) under `Alone`: one worker, and no condition
that fails. `Alone` is needed: with two runs both queue what one event asks for.
The invariants speak of what a run sees, not only of what is committed:
`DoneWasQueued`, `Taken`, `OneRowEach`, and `Counted`, which bounds what the
provider accepted by the attempts noted plus the runs that died.

**`Lectures_proofs`**, leave. `TablesTyped`; `LeaveIsApart` (`OneLeaveADay`);
`SettledStays` (`SettledOnce`). `Calm` says that what a request found when it tested is
still so when it commits; it holds until two requests were under way at once
(`raced`), and breaks with them. `QuotasHold` (`OnlyOfficeOverdraws`): the days held of
a type are a sum over its live rows, and a step is followed row by row, for a row that
leaves or is settled lowers the sum (`UsedFalls`) and a row that is added raises it by
its working days (`UsedGrows`). An application that was tested against the quota finds it as it tested it when it
commits (`WithinQuota`, which `Calm` carries through `StillSo`). A holiday given only
spares days (`HolidaysSpare`).

Lectures (`LecturesAssumption`: times are in order, the days of the calendar have no
gap). `PlannedOnce` (`NoDoubleBooking`); `OutcomesAreFinal` (`OutcomesStand`, whose part
on leave is `SettledStep`); `ReportsAreTrue` (`ReportsTruthful`). The
conflict test looks only at the lectures that occupy somebody at that moment. It
suffices because a row that changes occupies nobody, stays where it was, or was
tested (`Fits`): no state that frees a slot is left for one that takes it.
`RowsAdded` is the same for a bulk request, which tests each row against the table
and against those it added before (`Admitted`). `LectureOK` carries the reports: a
lateness that is known is that of the hour recorded.

The dashboards (`ReportsAssumption`: teachers, batches and days are finitely many).
`DashboardsAlwaysAgree` (`DashboardsAgree`): each figure is a number or a sum over the
lectures shown, and each grouping, by teacher, batch, week or status, cuts the same
lectures into parts, so its columns add up to the same total (`CountOfParts`,
`TotalOfParts`); a no-show is put on the teacher or has another reason, which splits
what a teacher was assigned (`TeachersAccounted`). What it needs of a lecture is in `LectureOK`: a status the desks know,
a batch, a day, and a substitute who is not the teacher planned.

The registers (`RegistersAssumption`: finitely many students, batches and days) and
standing (`StandingAssumption`: finitely many tests). `RegistersTellOneStory`
(`RegistersAgree`) needs no more than the types of the tables, for each document is
computed from them on demand: the matrix of a batch is the relation of its students and
the days they came in on (`MatrixIs`), and sheet, summary, counts of a day and lines by
day count its rows or its columns. `StandingIsSound` (`StandingTypeOK`, `RegistersAgree`,
`StandingAgrees`) is about stored figures too. `StandingInv` says that until something
changes the summaries are those that a refresh would compute now; so every action but a
refresh must say that it changed something. Then a batch's attendance is that of its
students' sums, its score lies between the means of two of them, and batch and teacher
agree where their records are the same. The pages that are computed on demand agree at
every moment: rows that were attended, late and missed are cut by what they say
(`RowsSplit`), the buckets share out all percentages, and an order of the listed is onto,
so everybody has one place (`PlaceIs`).

**`Services_proofs`**, the library, plugins and reminders (`MaterialsAssumption`:
finitely many questions on a page). `LibraryIsSound`, `PluginsAreSound`,
`RemindersAreSound`, and `ServicesHold` (`ServicesSound`) for the three side by side;
`ServicesTypeCorrect`. `RemindersInv`: whom a firing is about to remind was not reminded
yet, and the rows a choice read are still so, unless firings or choices met.
`PluginsInv`: what an order read is
still so, and the memory is as the table says until an order is flushed and then as the
order wants it (`LoadedAsOrdered`), for each plugin that nothing disturbed. `LibraryInv`: a run that works
has its material marked and alone, knows the questions stored before it, and counted
no fewer than there are; a marked material has such a run; each part is guarded by the
one history that can break it.

The accounts (finitely many users, `AccessAssumption`). `TablesTyped`, which
includes that the failures counted stay below the limit; `SessionsAndRoles`
(`AccountsSound`); `LastOneStays` (`SuperAdminRemains`). `Calm`: each request that
nobody overtook is `Fresh`, allowed on the tables as they are now. That a last
admin remains rests on the cardinality of the active ones.

**`DailyAttendance_proofs`** (`AttendanceAssumption`). `AttendanceTold`
(`ParentsToldOnce`): whom a request reports absent it gives a new row, the row is
unique, so who was reported has a row; this half holds for overtaken requests too.
`AttendanceRecorded` (`RecordsMatchLog`) and `HandMarks` (`HandMarkStays`): `Calm`
says of the tables that a row says what the punches say, at the start time of some
moment, and of each request that nobody overtook that it is `Fresh`: what it would
leave behind now does so as well. A sweep writes ABSENT rows without reading
punches; that is right because a student without a row has none (`SweptKeeps`).
Bags stay bags of integers by an invariant of their own, `BagOK`.

The staff (`StaffAssumption`: finitely many days and minutes). `StaffRecords`: reports,
register and payroll tell one story of every day (`StaffReportsAgree`), and lectures are
credited and delayed as minutes were lost (`LecturesCredited`), whatever overlaps; that
needs only `StaffTyped`. A row tells its first and last punch (`RowsTellPunches`) while
no two sessions met: `StaffCalm` says the same of what a session is about to write, on
the punches there will be. Who is late is fined (`LateIsFined`) if every minute from the
first is in a slab and costs something (`SlabsCover`), which the code leaves to the
office; the fine counts from an hour that is not after the branch's. `MarksByHandStay`
(`MarkedByHandStays`, the other half of `EntriesStand`): a rebuild holds the rows entered
by hand as they are.

The registry of teachers and staff (`FacultyAssumption`: a range is a pair of positive
numbers, batches are finitely many). `FacultyIsSound` (`FacultySound`). That rights agree
holds in every state, for form, lock and profile all go by the name. For the staff rows
the invariant is `RegistryInv`. No number is on two live rows whatever happens
(`CodesApart`): a commit that would bring one is refused. That a teacher is mirrored
once is subtler, for nothing tests it when a request commits. `RegistryCalm` says of every request under
way that it will be refused, or that one of its rows of the teachers' department has the
next number of the department still, in which case nobody mirrored anybody since it read
the table (`BeatenOrNot`). A row that is committed takes that number, so every other open
request of the department is beaten by it (`OthersKeep`).

The timetable (`TimetableAssumption`). `TimetableIsSound` (`TimetableSound`). `SheetsInv`
keeps every subject on its course, and says, until the timetable changes under an
import, that no two lectures booked stand in each other's way (`Apart`) and that none
of those a session is about to add finds its slot taken (`Fit`). Preview and
import are compared in one state, row by row (`GoodPlan`, `AcceptKeeps`): the preview
tests a row against the timetable alone, the import against the timetable and the rows
it took before.

An upload is a fold over the rows of a sheet. A fold of the community modules is a
function chosen to satisfy its recursion; that there is one is shown for all folds at
once (`Folding`), and what holds of the empty set of rows and is handed on from each set
to the next row holds of the whole sheet (`BySubsets`).

### What stays with TLC

- Liveness (`QueueIsServed`, `EventsConsumed`, `OverdueMarked`): no proof rule under
  fairness is at hand.
- `EntriesStand` as one formula over the instances side by side: its two halves are
  proved of their components. Of `ReportsHold`, the records of the staff, the registers,
  the standing of the students, the teachers and the timetables are proved, each of its
  component; the portal and the imports are not.
- `UndoLeavesNothingIdle`, which would need the types of the rows through the folds of an
  import, and `CopiesReconciled`.
- `OfficeTypeOK`, `SchoolTypeOK` and `CampusTypeOK` put the type invariants of several
  instances together; those of the ledger, the fees, leave, accounts, services, queue
  and pipeline are proved one by one.

## 5. What is not modelled, and what is worth knowing

*Left out:* payroll configuration, export and reports; the SmartOffice agent and
the AIData proxy (HTTP alone); classrooms, AI, monitoring, audit (rows of
their own, little interaction); the files of materials and what a model reads in them,
plugin code; the fee catalogue; deleting and
rendering templates, preferences; `replay_event`; collisions of `trans_id`; quotas
of single teachers; lesson plans and the syllabus; question banks; permissions and
access tokens; several tests at once; the frontend and the MCP server. Code of
libraries, terminals and providers is modelled by how `src/` uses it and is marked
external in the map.

*Hazards no property covers:* two transactions may append ledger rows with one
`seq` (no unique constraint; what is read then depends on the order of equal rows);
rows of a channel that is switched off stay PENDING and may fill the limited fetch.

*Seen while modelling, and said nowhere else.*

- Devices: `FleetPushesOnce` holds for runs of the sync that do not overlap and
  commands nobody cancels after hand-out (`FleetIsServedOnce`). A
  cancellation that read a command as pending overwrites its confirmation, and the
  user is listed to be pushed again. A user removed by hand at a terminal, whose
  push was once confirmed, stays "awaiting face" and is not listed again.
- Attendance: a hand-marked PRESENT row projects as ABSENT/BIOMETRIC on rosters.
  `process_raw_punches` creates ABSENT rows without an event, and the sweep then
  skips them. `notify_absent_after_last_lecture` looks at day rows only.
- Staff: a mark by hand keeps the old overtime minutes; a mark and a rebuild that
  meet may leave a row with columns of both; shift changes rebuild nothing; the
  list of absentees ignores declared holidays; LATE keeps seconds, the fine does
  not. `productivity_service` reads late minutes in UTC and counts ABSENT rows that
  nobody writes. The portal and the office read different holiday tables.
- Productivity: `assigned` counts every no-show of a teacher (`lecture_repository.py:881`),
  `teacher_no_show` only those put on the teacher (895-898). What was missed for students
  or somebody outside is in no column and lowers `reliability_pct` all the same.
- Marks: `upload_subject_csv` replaces every row of its subject but makes marks anew for
  the roster alone (`test_service.py:1119-1126`, `1177-1179`). Whoever has left keeps a
  mark with replaced rows in it and stands on the rank list with a total its columns do
  not add up to, where the docstrings speak of "the sum of their per-subject" rows
  (1026-1029) and of replacing "this subject's prior marks" (1079-1081).
- Undo: `delete_student` leaves the mapping (`student_service.py:589-602`) and
  `undo_import` counts mappings (`import_service.py:2098-2107`), so a batch the import made
  outlives its last student if the office deleted one, where the code says "which have
  no other students left" (2036-2037) and "no remaining (live) student" (2088-2089).
- Reports: `branch_roster_attendance` says it "can never drift", yet matrix and
  defaulters have another basis; `get_attendance_report` counts held lectures that
  were deleted; analytics counts LATE as not present; deleted students keep
  mappings and summaries. `Registers` keeps `roll` as a set of students and batches,
  while `student_batch_mappings` has no unique constraint: a student mapped twice to one
  batch (two imports or moves that meet) may count twice where the code joins mappings.
- Lectures: the comment that only `mark_substitute` completes a no-show
  (`lecture_service.py:111-112`) is not enforced, for the table it stands in lets any
  caller do so; moving a lecture ignores leave; a substitute is not tested for conflicts; the roster's
  `sub_in` depends on the order of iteration; a cancelled lecture with a substitute
  is counted in both columns.
- Imports: `validate_import_rows` notes keys of invalid rows and looks at each row
  alone, while the comment that the preview "never marks 'ready' a row import skips"
  fails for rows that clash within one sheet; `create_academic_year` has no
  uniqueness; the first year is taken from an unordered list; deleted teachers leave
  mappings and a staff row; the number of a deleted staff row at the end of a range
  is handed out again; rights go by exact spelling while names do not.
- Payroll: with `allow_negative_balance` on, `calc_service._apply_balance` lets the
  balance of a month go below zero and leaves nothing uncovered, while
  `ledger_service.apply_computation` writes a row for the days used only: what was
  borrowed is in the snapshot and in no row, so the next month does not pay it back,
  which `docs/payroll-module.md:55-56` promises. `RecomputingIsExact` therefore assumes
  the setting off.
- Fees and payroll: the last part of an even split may be negative; a second close
  of a month that overlaps the first writes the ledger rows again; an approved
  request never expires.
- Leave: two decisions on one request overwrite each other.
- Accounts: a branch admin may grant `super_admin`; an e-mail stays taken by a
  deleted row; roles come from the token until it expires; `set_enabled` counts no
  super admins (the exception in `SuperAdminRemains`).

## 6. Plan

Done, in this order: the ledger and payroll; the device queue and provisioning; the
pipeline; attendance; fees; leave; lectures and their dashboards; accounts; tests;
imports; staff days, fines and the portal; registers and standing; faculty and
timetable uploads; materials, plugins and reminders; the proofs of section 4, in eight
modules.

Next:

1. What is left of `ReportsHold`: the portal and the imports.
2. Two hazards to add: overlapping uploads of marks, and overlapping imports of a
   timetable.
