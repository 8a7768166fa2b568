--------------------------------- MODULE Fees ---------------------------------
(***************************************************************************)
(* Student fees (src/backend/app/modules/fees): a profile per student with *)
(* a plan of installments, the payments received for them, and the nightly *)
(* sweep that marks what is overdue.                                       *)
(*                                                                         *)
(* A request is a transaction under READ COMMITTED.  record_payment reads  *)
(* an installment, then its profile, and writes back values computed from  *)
(* what it read; between these steps other requests commit.  The session   *)
(* writes only the columns whose value it changed.  Amounts are whole      *)
(* rupees; a date is a number of half months, the unit of the schedule.    *)
(***************************************************************************)
EXTENDS Integers, Sequences, FiniteSets, Functions

CONSTANTS Student, Clerk,
          Plans,        \* explicit plans: sequences of amounts
          FirstParts,   \* the plans to generate: <<fee, first, remaining>>
          Interval,     \* half months between installments (5)
          LastDay,      \* bound: days the clock passes
          MaxProfiles,  \* bound: profiles created
          MaxReceived   \* bound: rupees received for one installment

ASSUME FeesAssumption ==
    /\ \A plan \in Plans : plan \in Seq(Nat) /\ plan # <<>>
    /\ \A g \in FirstParts : /\ g \in Nat \X Nat \X Nat
                             /\ g[2] <= g[1]
    /\ Interval \in Nat /\ LastDay \in Nat
    /\ MaxProfiles \in Nat /\ MaxReceived \in Nat

VARIABLES profiles,   \* student_fee_profiles with their fee_installments, oldest first
          received,   \* fee_payment_records: what was received for an installment
          promise,    \* the follow-up date of the last remark about a student
          till,       \* the payment each clerk is recording, with the rows read for it
          sweeping,   \* the installments the sweep has selected
          day,        \* the date
          stale       \* history: a row was written that had changed since it was read

feesVars == <<profiles, received, promise, till, sweeping, day, stale>>

Unpaid == {"PENDING", "PARTIAL", "OVERDUE"}
NoDate == -1

Profiles == DOMAIN profiles
Installments == UNION {{p} \X DOMAIN profiles[p].plan : p \in Profiles}
Installment(i) == profiles[i[1]].plan[i[2]]
Live == {p \in Profiles : ~ profiles[p].deleted}
LiveInstallments == {i \in Installments : ~ Installment(i).deleted}
Balance(i) == Installment(i).amount - Installment(i).paid

NotPaying == [phase |-> "idle"]

FeesInit ==
    /\ profiles = <<>>
    /\ received = [i \in {} |-> 0]
    /\ promise = [s \in Student |-> NoDate]
    /\ till = [c \in Clerk |-> NotPaying]
    /\ sweeping = {}
    /\ day = 0
    /\ stale = FALSE

-----------------------------------------------------------------------------
(* The plan of a profile.                                                   *)

\* Python's round of n / d: half to even.
Rounded(n, d) ==
    LET q == n \div d
        r == n % d
    IN  IF 2 * r < d \/ (2 * r = d /\ q % 2 = 0) THEN q ELSE q + 1

\* The last part takes what rounding left.
EvenSplit(total, parts) ==
    LET base == Rounded(total, parts)
    IN  [n \in 1..parts |-> IF n < parts THEN base ELSE total - base * (parts - 1)]

DueDate(admission, n) == admission + (n - 1) * Interval

InstallmentRow(amount, due, status, paid) ==
    [amount |-> amount, due |-> due, status |-> status, paid |-> paid, deleted |-> FALSE]

\* _build_installments: the amounts must sum to the agreed fee.  Clerks give the
\* dates of an explicit plan; those of a generated one are used for it, too.
OneTime(fee) == <<InstallmentRow(fee, day, "PAID", fee)>>
Scheduled(amounts) ==
    [n \in DOMAIN amounts |-> InstallmentRow(amounts[n], DueDate(day, n), "PENDING", 0)]
Generated(fee, first, remaining) ==
    <<first>> \o (IF remaining > 0 THEN EvenSplit(fee - first, remaining) ELSE <<>>)

\* No amount is negative: clerks enter none, and rounding leaves something for the
\* last part (it would not for a fee of less than its parts).
ASSUME PartsAssumption == \A g \in FirstParts : Generated(g[1], g[2], g[3]) \in Seq(Nat)

\* create_fee_profile: one live profile per student, which the partial unique
\* index keeps when two requests pass the test; so test and insert are one step.
CreateProfile(s, fee, plan) ==
    LET paid == SumFunction([n \in DOMAIN plan |-> plan[n].paid])
    IN  /\ Len(profiles) < MaxProfiles
        /\ fee > 0 /\ SumFunction([n \in DOMAIN plan |-> plan[n].amount]) = fee
        /\ \A p \in Live : profiles[p].student # s
        /\ profiles' = Append(profiles,
              [student |-> s, agreed |-> fee, paid |-> paid, pending |-> fee - paid,
               plan |-> plan, deleted |-> FALSE])
        /\ received' = [i \in (DOMAIN received) \cup ({Len(profiles) + 1} \X DOMAIN plan) |->
                            IF i \in DOMAIN received THEN received[i] ELSE plan[i[2]].paid]
        /\ UNCHANGED <<promise, till, sweeping, day, stale>>

\* Mutation: the installments of a voided profile stay.
VoidProfileOnly(p) ==
    /\ p \in Live
    /\ profiles' = [profiles EXCEPT ![p].deleted = TRUE]
    /\ UNCHANGED <<received, promise, till, sweeping, day, stale>>

\* void_fee_profile: payments and remarks are kept.
Void(p) ==
    /\ p \in Live
    /\ profiles' = [profiles EXCEPT
          ![p].deleted = TRUE,
          ![p].plan = [n \in DOMAIN @ |-> [@[n] EXCEPT !.deleted = TRUE]]]
    /\ UNCHANGED <<received, promise, till, sweeping, day, stale>>

-----------------------------------------------------------------------------
(* record_payment.                                                          *)

\* Mutation: the amount is not compared with the balance.
PayableAny(i, amount) == Installment(i).status # "PAID"

\* An installment that is not paid takes no more than its balance.
Payable(i, amount) == Installment(i).status # "PAID" /\ amount <= Balance(i)

ReadInstallment(c, i, amount) ==
    /\ till[c] = NotPaying /\ amount > 0
    /\ i \in LiveInstallments /\ Payable(i, amount)
    /\ till' = [till EXCEPT ![c] = [phase |-> "installment", of |-> i,
                                    row |-> Installment(i), amount |-> amount]]
    /\ UNCHANGED <<profiles, received, promise, sweeping, day, stale>>

\* The profile is read whether or not it was voided meanwhile.
ReadProfile(c) ==
    /\ till[c].phase = "installment"
    /\ LET p == profiles[till[c].of[1]]
       IN  till' = [till EXCEPT ![c] = [phase |-> "profile", of |-> @.of, row |-> @.row,
                        amount |-> @.amount, paid |-> p.paid, pending |-> p.pending]]
    /\ UNCHANGED <<profiles, received, promise, sweeping, day, stale>>

\* What becomes of the installment: a status equal to the one read is not written.
PaidRow(t, now) ==
    LET paid == t.row.paid + t.amount
        status == IF paid >= t.row.amount THEN "PAID" ELSE "PARTIAL"
    IN  [now EXCEPT !.paid = paid,
                    !.status = IF status = t.row.status THEN @ ELSE status]

\* Mutation: the paid total of the installment.
PaidOfRow(t, now) ==
    [now EXCEPT !.paid = t.row.paid + t.amount, !.pending = @ + t.paid - t.row.paid - t.amount]

PaidTotals(t, now) ==
    [now EXCEPT !.paid = t.paid + t.amount, !.pending = t.pending - t.amount]

PaidProfile(t, now) == [PaidTotals(t, now) EXCEPT !.plan[t.of[2]] = PaidRow(t, @)]

\* The payment is inserted and both rows are written, in one transaction.
Post(c) ==
    LET t == till[c]
        p == t.of[1]
    IN  /\ t.phase = "profile"
        /\ received[t.of] + t.amount <= MaxReceived
        /\ profiles' = [profiles EXCEPT ![p] = PaidProfile(t, @)]
        /\ received' = [received EXCEPT ![t.of] = @ + t.amount]
        /\ till' = [till EXCEPT ![c] = NotPaying]
        /\ stale' = (stale \/ t.row # Installment(t.of) \/ t.paid # profiles[p].paid)
        /\ UNCHANGED <<promise, sweeping, day>>

\* The request fails or the connection is lost before the commit.
Drop(c) ==
    /\ till[c] # NotPaying
    /\ till' = [till EXCEPT ![c] = NotPaying]
    /\ UNCHANGED <<profiles, received, promise, sweeping, day, stale>>

-----------------------------------------------------------------------------
(* Remarks, the sweep and the reports.                                      *)

\* add_remark: while the fee is not paid a follow-up date is required.
Remark(p, followUp) ==
    /\ p \in Live
    /\ followUp = NoDate => profiles[p].pending <= 0
    /\ promise' = [promise EXCEPT ![profiles[p].student] = followUp]
    /\ UNCHANGED <<profiles, received, till, sweeping, day, stale>>

\* Mutation: what was due yesterday is left for tomorrow.
SelectLate ==
    /\ sweeping = {}
    /\ sweeping' = {i \in LiveInstallments : /\ Installment(i).status = "PENDING"
                                             /\ Installment(i).due < day - 1}
    /\ sweeping' # {}
    /\ UNCHANGED <<profiles, received, promise, till, day, stale>>

\* mark_overdue, started by the beat in the branch's sweep hour: the rows are
\* selected, and written by their key.
SelectOverdue ==
    /\ sweeping = {}
    /\ sweeping' = {i \in LiveInstallments : /\ Installment(i).status = "PENDING"
                                             /\ Installment(i).due < day}
    /\ sweeping' # {}
    /\ UNCHANGED <<profiles, received, promise, till, day, stale>>

MarkOverdue ==
    /\ sweeping # {}
    /\ profiles' = [p \in Profiles |->
          [profiles[p] EXCEPT !.plan = [n \in DOMAIN @ |->
              IF <<p, n>> \in sweeping THEN [@[n] EXCEPT !.status = "OVERDUE"] ELSE @[n]]]]
    /\ stale' = (stale \/ \E i \in sweeping : \/ Installment(i).status # "PENDING"
                                              \/ Installment(i).deleted)
    /\ sweeping' = {}
    /\ UNCHANGED <<received, promise, till, day>>

NextDay ==
    /\ day < LastDay
    /\ day' = day + 1
    /\ UNCHANGED <<profiles, received, promise, till, sweeping, stale>>

\* follow_up_dashboard of the day; a row is an installment with money to come.
Collectable == {i \in LiveInstallments : Installment(i).status \in Unpaid /\ Balance(i) > 0}
Dues == {i \in Collectable : Installment(i).due = day}
Overdue == {i \in Collectable : Installment(i).due < day}

\* forecast_range over all dates, and overall_summary.
Forecast ==
    SumFunctionOnSet([i \in LiveInstallments |-> Balance(i)],
                     {i \in LiveInstallments : Installment(i).status # "PAID" /\ Balance(i) > 0})
TotalPending == SumFunction([p \in Live |-> profiles[p].pending])

CreateAny(s) ==
    \/ \E plan \in Plans :
          \/ CreateProfile(s, SumFunction(plan), Scheduled(plan))
          \/ CreateProfile(s, SumFunction(plan), OneTime(SumFunction(plan)))
    \/ \E g \in FirstParts : CreateProfile(s, g[1], Scheduled(Generated(g[1], g[2], g[3])))

FeesNext ==
    \/ \E s \in Student : CreateAny(s)
    \/ \E p \in Profiles : Void(p) \/ \E d \in (day + 1 .. LastDay) \cup {NoDate} : Remark(p, d)
    \/ \E c \in Clerk :
          \/ \E i \in Installments : \E amount \in 1 .. Installment(i).amount :
                ReadInstallment(c, i, amount)
          \/ ReadProfile(c) \/ Post(c) \/ Drop(c)
    \/ SelectOverdue \/ MarkOverdue \/ NextDay

FeesSpec == FeesInit /\ [][FeesNext]_feesVars

-----------------------------------------------------------------------------
(* Properties.                                                              *)

\* The shape of the tables; an installment is live when its profile is.
FeesTypeOK ==
    /\ \A p \in Profiles :
          /\ profiles[p].student \in Student
          /\ profiles[p].agreed \in Nat /\ profiles[p].paid \in Nat
          /\ profiles[p].pending \in Int
    /\ \A i \in Installments :
          /\ Installment(i).status \in Unpaid \cup {"PAID"}
          /\ Installment(i).paid \in Nat /\ received[i] \in Nat
          /\ Installment(i).deleted = profiles[i[1]].deleted
    /\ sweeping \subseteq Installments
    /\ \A c \in Clerk : till[c] # NotPaying => till[c].of \in Installments

\* The two totals of a profile are written from one read: even when payments
\* overwrite one another, they add up to the agreed fee.
TotalsBalance ==
    \A p \in Profiles : profiles[p].paid + profiles[p].pending = profiles[p].agreed

\* However payments overlap, an installment is never booked above its amount,
\* nor above the money received for it (record_payment's balance test is made on
\* the row from which the booked amount is computed).
BookedWithinReceived ==
    \A i \in Installments : /\ Installment(i).paid <= Installment(i).amount
                            /\ Installment(i).paid <= received[i]

\* What the books say, whatever meets what.
BookedSoundly == TotalsBalance /\ BookedWithinReceived

\* As long as no request wrote a row that had changed since it was read, every
\* payment is in the books: of the installment, of the profile and in its status.
PaymentsBooked ==
    stale \/ /\ \A i \in Installments :
                   /\ Installment(i).paid = received[i]
                   /\ Installment(i).status = "PAID"
                         <=> (Installment(i).paid = Installment(i).amount
                                /\ (received[i] > 0))
             /\ \A p \in Profiles :
                   profiles[p].paid = SumFunction([n \in DOMAIN profiles[p].plan |-> received[<<p, n>>]])

\* The morning list needs no sweep to be right ("correct even before the daily
\* job runs"): what is due and not received is among the dues or overdue.
WorklistComplete ==
    stale \/ \A i \in LiveInstallments :
                 (Installment(i).due <= day /\ received[i] < Installment(i).amount)
                    => i \in Dues \cup Overdue

\* Two reports of one thing: what the forecast expects over all days is what the
\* summary card shows as pending.
ForecastAgrees == stale \/ Forecast = TotalPending

\* The books and the reports agree with the money received, and with one another.
BooksAgree == PaymentsBooked /\ WorklistComplete /\ ForecastAgrees

\* What the night finds past due does not stay unmarked: as long as the sweep is
\* run, there is a time at which every pending installment past due is marked,
\* paid or voided, though payments, voids and its own stale writes go on.
Unmarked == {i \in LiveInstallments : Installment(i).status = "PENDING" /\ Installment(i).due < day}
OverdueMarked == (Unmarked # {}) ~> (Unmarked = {})
=============================================================================
