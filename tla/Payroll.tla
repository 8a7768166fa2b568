------------------------------ MODULE Payroll ------------------------------
(***************************************************************************)
(* The payroll of one branch: the lifecycle of its months, the month-end   *)
(* calculation, the snapshot and the carry-forward ledger of every staff   *)
(* member, and the extra-day requests that move a shortfall to the next    *)
(* month (payroll/services/payroll_service.py, month_service.py,           *)
(* request_service.py).                                                    *)
(*                                                                         *)
(* An API call is two steps: Begin reads the row the handler tests, and a  *)
(* second step runs the rest of the handler on the committed state and     *)
(* commits.  In between other calls may commit: SQLAlchemy keeps the row   *)
(* as it was first read, so a later select of it does not see the change.  *)
(* "overlapped" remembers whether two calls were ever under way at once.   *)
(***************************************************************************)
EXTENDS PayrollCalc, FiniteSets, FiniteSetsExt, Functions

CONSTANTS Staff, Session, Users,
          LastMonth,         \* months are numbered 1..LastMonth
          Dates,             \* the dates of a month that anyone may work
          RequiredDays,      \* the values required_days is given
          Cap,               \* carry_forward_cap
          AllowNegative,     \* allow_negative_balance
          HolidayTreatment,  \* "credited" or "reduce_required"
          MaxCalls,          \* bound: API calls begun
          MaxRequests        \* bound: extra-day requests ever raised

ASSUME PayrollAssumption ==
    /\ LastMonth \in Nat /\ Cap \in Nat /\ RequiredDays \subseteq Nat
    /\ IsFiniteSet(Dates)
    /\ AllowNegative \in BOOLEAN
    /\ HolidayTreatment \in {"credited", "reduce_required"}
    /\ MaxCalls \in Nat /\ MaxRequests \in Nat

Months == 1 .. LastMonth

VARIABLES lifecycle,  \* of each month; "NONE" until it is set up
          required,   \* required_days of each month
          holidays,   \* the holiday dates of each month
          attended,   \* the dates each staff member worked, per month
          snap,       \* payroll_staff_month, per staff member and month
          ledger,     \* carry_forward_ledger rows, per staff member
          requests,   \* extra_day_requests, in the order raised
          call,       \* the API call each session is in, with what it read
          calls,      \* how many calls were begun
          overlapped  \* history: two calls were under way at once

vars == <<lifecycle, required, holidays, attended, snap, ledger, requests,
          call, calls, overlapped>>
books == <<lifecycle, required, holidays, snap, ledger, requests>>

Finalised == {"CLOSED", "LOCKED"}
Active    == {"PENDING", "APPROVED"}
ClosedMonths == {m \in Months : lifecycle[m] \in Finalised}

Idle == [kind |-> "idle"]
Verbs == {"close", "lock", "reopen"}

\* _TRANSITIONS
Target(state, verb) ==
    CASE state = "OPEN"   /\ verb = "close"  -> "CLOSED"
      [] state = "CLOSED" /\ verb = "lock"   -> "LOCKED"
      [] state \in Finalised /\ verb = "reopen" -> "OPEN"
      [] OTHER -> "NONE"

Init ==
    /\ lifecycle \in [Months -> {"NONE", "OPEN"}]
    /\ required \in [Months -> RequiredDays \cup {0}]
    /\ \A m \in Months : lifecycle[m] = "NONE" => required[m] = 0
    /\ holidays = [m \in Months |-> {}]
    /\ attended \in [Staff -> [Months -> SUBSET Dates]]
    /\ snap = [s \in Staff |-> <<>>]
    /\ ledger = [s \in Staff |-> <<>>]
    /\ requests = <<>>
    /\ call = [x \in Session |-> Idle]
    /\ calls = 0
    /\ overlapped = FALSE

-----------------------------------------------------------------------------
(* compute_month.  The state it reads is passed as a record b of the books  *)
(* as the handler has written them so far in its transaction.               *)
Books == [lifecycle |-> lifecycle, required |-> required,
          holidays |-> holidays, requests |-> requests]

IndicesOf(rqs, s, source) ==
    {i \in DOMAIN rqs : rqs[i].staff = s /\ rqs[i].source = source}

ActiveIn(rqs, s, source) ==
    {i \in IndicesOf(rqs, s, source) : rqs[i].status \in Active}

\* The approved requests whose target, the month after the source, is m.
Makeup(rqs, s, m) ==
    LET approved == {i \in IndicesOf(rqs, s, m - 1) : rqs[i].status = "APPROVED"}
    IN  SumFunction([i \in approved |-> rqs[i].days])

EffectiveRequired(b, s, m) ==
    LET full == b.required[m] + Makeup(b.requests, s, m)
    IN  IF HolidayTreatment = "reduce_required"
          THEN Most(0, full - Cardinality(b.holidays[m]))
          ELSE full

\* A holiday the staff member worked is counted once.
Credited(b, s, m) ==
    Cardinality(attended[s][m]
                  \cup IF HolidayTreatment = "credited" THEN b.holidays[m] ELSE {})

Net(b, s, m) == Credited(b, s, m) - EffectiveRequired(b, s, m)

\* Mutation: the shortfall of a month with an extra is negative.
SignedShortfall(b, s, m, balanceIn, mv, state, old) ==
    [required  |-> b.required[m],
     makeup    |-> Makeup(b.requests, s, m),
     in        |-> balanceIn,
     out       |-> mv.out,
     shortfall |-> -Net(b, s, m),
     uncovered |-> mv.uncovered,
     deferred  |-> IF m \in DOMAIN old THEN old[m].deferred ELSE 0,
     lifecycle |-> state]

\* The row _upsert_snapshot writes over what the month's row already holds:
\* deferred_days is not among the columns it assigns.
SnapshotFor(b, s, m, balanceIn, mv, state, old) ==
    [required  |-> b.required[m],
     makeup    |-> Makeup(b.requests, s, m),
     in        |-> balanceIn,
     out       |-> mv.out,
     shortfall |-> Most(0, -Net(b, s, m)),
     uncovered |-> mv.uncovered,
     deferred  |-> IF m \in DOMAIN old THEN old[m].deferred ELSE 0,
     lifecycle |-> state]

WithSnapshot(old, m, row) ==
    [k \in (DOMAIN old) \cup {m} |-> IF k = m THEN row ELSE old[k]]

\* Computing month m for s on an account of rows and snapshots; a recompute
\* first reverses the month to the balance carried into it.
BookMonth(b, s, m, account, reverse, state) ==
    LET balanceIn == BalanceBefore(account.rows, m)
        mv == ApplyBalance(Net(b, s, m), balanceIn, Cap, AllowNegative)
        reversal == IF reverse THEN ReverseTo(account.rows, m, balanceIn) ELSE <<>>
    IN  [rows |-> account.rows \o reversal \o ApplyComputation(m, balanceIn, mv),
         snap |-> WithSnapshot(account.snap, m,
                     SnapshotFor(b, s, m, balanceIn, mv, state, account.snap))]



\* recompute_from: month m and every later finalised one, in order.
RecomputedFrom(b, s, m, account) ==
    LET after[k \in (m - 1) .. LastMonth] ==
            IF k < m THEN account
            ELSE IF b.lifecycle[k] \in Finalised
              THEN BookMonth(b, s, k, after[k - 1], TRUE, b.lifecycle[k])
              ELSE after[k - 1]
    IN  after[LastMonth]

Account(s) == [rows |-> ledger[s], snap |-> snap[s]]

\* Mutation: days already deferred do not count.
CoveredNow(snapshots, rq) ==
    /\ rq.source \in DOMAIN snapshots[rq.staff]
    /\ snapshots[rq.staff][rq.source].uncovered <= 0

\* expire_covered: neither uncovered nor deferred days are left.
Covered(snapshots, rq) ==
    /\ rq.source \in DOMAIN snapshots[rq.staff]
    /\ snapshots[rq.staff][rq.source].uncovered <= 0
    /\ snapshots[rq.staff][rq.source].deferred <= 0

Expired(rqs, snapshots, sources) ==
    [i \in DOMAIN rqs |->
        IF /\ rqs[i].source \in sources
           /\ rqs[i].status \in Active
           /\ Covered(snapshots, rqs[i])
        THEN [rqs[i] EXCEPT !.status = "EXPIRED"]
        ELSE rqs[i]]

\* The ledgers and snapshots of all staff after month m is recomputed.
BookAll(accounts) ==
    /\ ledger' = [s \in Staff |-> accounts[s].rows]
    /\ snap'   = [s \in Staff |-> accounts[s].snap]

\* Mutation: only the requests of the edited month expire.
RecomputeAndExpireOne(b, m) ==
    /\ BookAll([s \in Staff |-> RecomputedFrom(b, s, m, Account(s))])
    /\ requests' = Expired(b.requests, snap',
                           {k \in {m} : b.lifecycle[k] \in Finalised})

\* _recompute_and_expire
RecomputeAndExpire(b, m) ==
    /\ BookAll([s \in Staff |-> RecomputedFrom(b, s, m, Account(s))])
    /\ requests' = Expired(b.requests, snap',
                           {k \in m .. LastMonth : b.lifecycle[k] \in Finalised})

-----------------------------------------------------------------------------
(* Calls.                                                                   *)
Counted(x) ==
    /\ call[x] = Idle /\ calls < MaxCalls
    /\ calls' = calls + 1
    /\ overlapped' = (overlapped \/ \E y \in Session : call[y] # Idle)

Begin(x, c) ==
    /\ Counted(x)
    /\ call' = [call EXCEPT ![x] = c]
    /\ UNCHANGED <<books, attended>>

\* The handler of session x commits or, when its insert or update breaks a
\* unique index, rolls back.
Commit(x, kind) ==
    /\ call[x].kind = kind
    /\ call' = [call EXCEPT ![x] = Idle]
    /\ UNCHANGED <<attended, calls, overlapped>>
Rollback == UNCHANGED books

(* upsert_month; r is the new required_days.                                *)
BeginEdit(x, m, r) ==
    Begin(x, [kind |-> "edit", month |-> m, required |-> r,
              seen |-> lifecycle[m]])

CommitEdit(x) ==
    LET m == call[x].month
    IN  /\ Commit(x, "edit")
        /\ \/ /\ call[x].seen = "NONE" /\ lifecycle[m] # "NONE"
              /\ Rollback
           \/ /\ call[x].seen = "NONE" /\ lifecycle[m] = "NONE"
              /\ lifecycle' = [lifecycle EXCEPT ![m] = "OPEN"]
              /\ required'  = [required EXCEPT ![m] = call[x].required]
              /\ UNCHANGED <<holidays, snap, ledger, requests>>
           \/ /\ call[x].seen = "OPEN"
              /\ required' = [required EXCEPT ![m] = call[x].required]
              /\ UNCHANGED <<lifecycle, holidays, snap, ledger, requests>>
           \/ /\ call[x].seen \in Finalised
              /\ required' = [required EXCEPT ![m] = call[x].required]
              /\ RecomputeAndExpire([Books EXCEPT !.required = required'], m)
              /\ UNCHANGED <<lifecycle, holidays>>

(* add_holiday and remove_holiday read the month after their own write, so  *)
(* each is one step.                                                        *)
SetHolidays(x, m, dates) ==
    /\ Counted(x)
    /\ holidays' = [holidays EXCEPT ![m] = dates]
    /\ IF lifecycle[m] \in Finalised
         THEN RecomputeAndExpire([Books EXCEPT !.holidays = holidays'], m)
         ELSE UNCHANGED <<snap, ledger, requests>>
    /\ UNCHANGED <<lifecycle, required, attended, call>>

AddHoliday(x, m, d) ==
    d \notin holidays[m] /\ SetHolidays(x, m, holidays[m] \cup {d})
RemoveHoliday(x, m, d) ==
    d \in holidays[m] /\ SetHolidays(x, m, holidays[m] \ {d})

(* change_lifecycle *)
BeginVerb(x, m, verb) ==
    /\ Target(lifecycle[m], verb) # "NONE"
    /\ Begin(x, [kind |-> verb, month |-> m])

\* close_month tests the lifecycle again, but on the row Begin read.
CommitClose(x) ==
    LET m == call[x].month
    IN  /\ Commit(x, "close")
        /\ BookAll([s \in Staff |->
                      BookMonth(Books, s, m, Account(s), FALSE, "CLOSED")])
        /\ lifecycle' = [lifecycle EXCEPT ![m] = "CLOSED"]
        /\ requests' = Expired(requests, snap', {m})
        /\ UNCHANGED <<required, holidays>>

CommitLock(x) ==
    /\ Commit(x, "lock")
    /\ lifecycle' = [lifecycle EXCEPT ![call[x].month] = "LOCKED"]
    /\ UNCHANGED <<required, holidays, snap, ledger, requests>>

CommitReopen(x) ==
    LET m == call[x].month
    IN  /\ Commit(x, "reopen")
        /\ lifecycle' = [lifecycle EXCEPT ![m] = "OPEN"]
        /\ RecomputeAndExpire([Books EXCEPT !.lifecycle = lifecycle'], m)
        /\ UNCHANGED <<required, holidays>>

(* raise_request: all its reads come before its insert.                     *)
BeginRaise(x, s, m, n, u) ==
    /\ m \in DOMAIN snap[s]
    /\ n \in 1 .. snap[s][m].uncovered
    /\ ActiveIn(requests, s, m) = {}
    /\ Len(requests) < MaxRequests
    /\ Begin(x, [kind |-> "raise", rq |-> [staff |-> s, source |-> m, days |-> n,
                                          status |-> "PENDING", by |-> u]])

\* Mutation: no unique index on the active requests.
CommitRaiseUnchecked(x) ==
    /\ Commit(x, "raise")
    /\ requests' = Append(requests, call[x].rq)
    /\ UNCHANGED <<lifecycle, required, holidays, snap, ledger>>

CommitRaise(x) ==
    LET rq == call[x].rq
    IN  /\ Commit(x, "raise")
        /\ IF ActiveIn(requests, rq.staff, rq.source) = {}
             THEN /\ requests' = Append(requests, rq)
                  /\ UNCHANGED <<lifecycle, required, holidays, snap, ledger>>
             ELSE Rollback

(* _decide and cancel *)
BeginDecide(x, i, to, u) ==
    /\ requests[i].status = "PENDING" /\ requests[i].by # u
    /\ Begin(x, [kind |-> to, index |-> i])

BeginCancel(x, i, u) ==
    /\ requests[i].status = "PENDING" /\ requests[i].by = u
    /\ Begin(x, [kind |-> "cancel", index |-> i])

\* The update is by primary key: it does not look at the status again.
WithStatus(i, status) == [requests EXCEPT ![i].status = status]

CommitRefusal(x, kind, status) ==
    /\ Commit(x, kind)
    /\ requests' = WithStatus(call[x].index, status)
    /\ UNCHANGED <<lifecycle, required, holidays, snap, ledger>>

CommitReject(x) == CommitRefusal(x, "reject", "REJECTED")
CommitCancel(x) == CommitRefusal(x, "cancel", "CANCELLED")

\* The part of the source month's shortfall the request covers is deferred.
Deferred(row, days) ==
    LET move == Least(row.uncovered, days)
    IN  [row EXCEPT !.uncovered = @ - move, !.deferred = @ + move]

\* What that recompute reads: the request was flushed as APPROVED before.
ApprovedBooks(i) == [Books EXCEPT !.requests = WithStatus(i, "APPROVED")]

CommitApprove(x) ==
    LET i == call[x].index
        rq == requests[i]
        target == rq.source + 1
        b == ApprovedBooks(i)
        deferred == [s \in Staff |->
            IF s = rq.staff /\ rq.source \in DOMAIN snap[s]
              THEN [snap[s] EXCEPT ![rq.source] = Deferred(@, rq.days)]
              ELSE snap[s]]
    IN  /\ Commit(x, "approve")
        /\ IF ActiveIn(requests, rq.staff, rq.source) \subseteq {i}
             THEN /\ requests' = WithStatus(i, "APPROVED")
                  /\ IF target \in ClosedMonths
                       THEN BookAll([s \in Staff |->
                              RecomputedFrom(b, s, target,
                                [rows |-> ledger[s], snap |-> deferred[s]])])
                       ELSE snap' = deferred /\ UNCHANGED ledger
                  /\ UNCHANGED <<lifecycle, required, holidays>>
             ELSE Rollback

(* A punch is corrected: the attendance module does not call payroll.       *)
CorrectAttendance(s, m, d) ==
    /\ attended' = [attended EXCEPT ![s][m] =
                       IF d \in @ THEN @ \ {d} ELSE @ \cup {d}]
    /\ UNCHANGED <<books, call, calls, overlapped>>

Next ==
    \/ \E x \in Session, m \in Months :
          \/ \E r \in RequiredDays : BeginEdit(x, m, r)
          \/ \E d \in Dates : AddHoliday(x, m, d) \/ RemoveHoliday(x, m, d)
          \/ \E verb \in Verbs : BeginVerb(x, m, verb)
          \/ \E s \in Staff, n \in 1 .. Cardinality(Dates) + 1, u \in Users :
                BeginRaise(x, s, m, n, u)
    \/ \E x \in Session, i \in DOMAIN requests, u \in Users :
          \/ \E to \in {"approve", "reject"} : BeginDecide(x, i, to, u)
          \/ BeginCancel(x, i, u)
    \/ \E x \in Session :
          \/ CommitEdit(x)
          \/ CommitClose(x) \/ CommitLock(x) \/ CommitReopen(x)
          \/ CommitRaise(x)
          \/ CommitApprove(x) \/ CommitReject(x) \/ CommitCancel(x)
    \/ \E s \in Staff, m \in Months, d \in Dates : CorrectAttendance(s, m, d)

Spec == Init /\ [][Next]_vars

-----------------------------------------------------------------------------
Statuses == Active \cup {"REJECTED", "CANCELLED", "EXPIRED"}

Snapshot == [required: Nat, makeup: Nat, in: Int, out: Int, shortfall: Nat,
             uncovered: Nat, deferred: Nat, lifecycle: Finalised]
Request == [staff: Staff, source: Months, days: Nat \ {0}, status: Statuses,
            by: Users]

(* Every record is well formed; a snapshot exists once a month has closed.  *)
TypeOK ==
    /\ lifecycle \in [Months -> Finalised \cup {"NONE", "OPEN"}]
    /\ required \in [Months -> Nat]
    /\ holidays \in [Months -> SUBSET Dates]
    /\ \A s \in Staff : /\ ClosedMonths \subseteq DOMAIN snap[s]
                        /\ \A m \in DOMAIN snap[s] : snap[s][m] \in Snapshot
    /\ requests \in Seq(Request)

Ledger(s) ==
    INSTANCE CarryForwardLedger WITH
        ledger <- ledger[s], closed <- ClosedMonths, cap <- Cap,
        Caps <- {Cap}, Nets <- Int, MaxRows <- MaxCalls

(* Whatever the calls do, overlapping or not, no staff member's balance is  *)
(* ever below zero or above the cap.                                        *)
LedgersInRange == \A s \in Staff : Ledger(s)!BalanceInRange

(* One live claim per staff member and source month, however calls overlap. *)
OneActiveRequest ==
    \A s \in Staff, m \in Months :
        Cardinality({i \in IndicesOf(requests, s, m) :
                        requests[i].status \in Active}) <= 1

(* A finalised month is computed with the required days the settings say    *)
(* now, and has absorbed every approved request that targets it, unless     *)
(* calls overlapped.                                                        *)
ApprovedAbsorbed ==
    overlapped \/ \A s \in Staff, m \in ClosedMonths :
        /\ snap[s][m].required = required[m]
        /\ snap[s][m].makeup >= Makeup(requests, s, m)

(* A month defers no more days than its approved request moved to the next  *)
(* month: nothing is deferred that nobody has to make up, unless calls      *)
(* overlapped.                                                              *)
DeferredIsMadeUp ==
    overlapped \/ \A s \in Staff : \A m \in DOMAIN snap[s] :
        snap[s][m].deferred <= Makeup(requests, s, m + 1)

(* Requests and snapshots tell one story of the deferred days (the two      *)
(* above).                                                                  *)
DeferralsKept == ApprovedAbsorbed /\ DeferredIsMadeUp

(* PENDING -> APPROVED | REJECTED | CANCELLED, and an active request may    *)
(* expire; every other status is final, unless calls overlapped.            *)
RequestStateMachine ==
    \A i \in DOMAIN requests :
        LET from == requests[i].status
            to == requests'[i].status
        IN  (from # to /\ ~ overlapped') =>
              \/ from = "PENDING"
              \/ from = "APPROVED" /\ to = "EXPIRED"

\* The calculation itself leaves nothing of the month's shortfall to make up.
NothingToMakeUp(row) == row.uncovered = 0 /\ row.shortfall <= row.in

Recomputes(m) ==
    \E x \in Session :
        \/ call[x] # Idle /\ call'[x] = Idle
           /\ \/ call[x].kind = "edit" /\ call[x].seen \in Finalised
              \/ call[x].kind \in {"close", "reopen"}
           /\ call[x].month = m
        \/ m \in ClosedMonths /\ holidays[m] # holidays'[m]

\* Of the months the step recomputed, those that are finalised after it.
Refreshed(m) ==
    IF \E x \in Session : call[x].kind = "close" /\ call'[x] = Idle
      THEN {m} ELSE {k \in ClosedMonths' : k >= m}

(* A pending request whose shortfall the balance has come to cover does not *)
(* survive the close or the recompute, whichever later month it is for,     *)
(* unless calls overlapped.                                                 *)
PendingCoveredExpire ==
    \A m \in Months : (Recomputes(m) /\ ~ overlapped') =>
        \A i \in DOMAIN requests' :
            LET rq == requests'[i]
            IN  /\ rq.source \in Refreshed(m)
                /\ NothingToMakeUp(snap'[rq.staff][rq.source])
                => rq.status # "PENDING"

\* A request moves on only as it may, and does so when its month is covered.
RequestsProgress == [][RequestStateMachine /\ PendingCoveredExpire]_vars

-----------------------------------------------------------------------------
(* What the documentation says and the code does not keep.                  *)

(* Deferred days are no longer counted as unpaid: the unpaid and the        *)
(* deferred days of a finalised month are never more than its shortfall.    *)
DeferredNotUnpaid ==
    \A s \in Staff, m \in ClosedMonths :
        snap[s][m].uncovered + snap[s][m].deferred <= snap[s][m].shortfall

(* After a month is edited, the running balance threads through it and the  *)
(* later finalised months: each starts from what the one before left.       *)
RecomputeThreadsMonths ==
    [][\A m \in Months : Recomputes(m) =>
          \A s \in Staff : \A k \in Refreshed(m) :
              k + 1 \in Refreshed(m) => snap'[s][k + 1].in = snap'[s][k].out]_vars
=============================================================================
