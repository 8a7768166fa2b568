-------------------------------- MODULE Leave --------------------------------
(***************************************************************************)
(* Teachers' leave and the holiday calendar of a branch                    *)
(* (teacher_portal/services/leave_service.py, leave_settings_service.py,   *)
(* the leave and holiday operations of lectures/services/                  *)
(* lecture_service.py).                                                    *)
(*                                                                         *)
(* A request that tests before it writes is a Begin and a commit; between  *)
(* them other clerks' requests commit.  Leave is counted in half days.     *)
(***************************************************************************)
EXTENDS Integers, Sequences, FiniteSets, SequencesExt, FiniteSetsExt

CONSTANTS Teacher, Clerk,
          Spans,       \* the ranges <<from, to>> of days asked for
          LeaveType,   \* LEAVE_TYPES
          QuotaType,   \* those with a quota: QUOTA_TYPES
          Quotas,      \* the quotas an administrator sets, in half days
          WeeklyOff,   \* the days that are weekly offs
          Holidays,    \* the days administrators make holidays
          MaxLeaves    \* bound: rows of teacher_leaves

ASSUME LeaveAssumption ==
    /\ \A s \in Spans : s[1] \in Nat /\ s[2] \in Nat /\ s[1] <= s[2]
    /\ QuotaType \subseteq LeaveType /\ "casual" \in LeaveType
    /\ Quotas \subseteq Nat /\ MaxLeaves \in Nat

VARIABLES leaves,     \* teacher_leaves, oldest first
          quota,      \* leave_type_quotas, -1 for a type that has no row
          holidays,   \* the days of the live rows of holidays, duplicates too
          desk,       \* the request each clerk has under way, with what it read
          raced       \* history: two requests were under way at once

leaveTables == <<leaves, quota, holidays>>
leaveVars == <<leaveTables, desk, raced>>

Active == {"pending", "approved"}
NoQuota == -1
Free == [kind |-> "none"]

LeaveInit ==
    /\ leaves = <<>>
    /\ quota = [t \in QuotaType |-> NoQuota]
    /\ holidays = <<>>
    /\ desk = [c \in Clerk |-> Free]
    /\ raced = FALSE

Begin(c, request) ==
    /\ desk[c] = Free
    /\ desk' = [desk EXCEPT ![c] = request]
    /\ raced' = (raced \/ \E x \in Clerk \ {c} : desk[x] # Free)

\* A request that writes without a test before it, beside those under way.
Aside == raced' = (raced \/ \E x \in Clerk : desk[x] # Free) /\ UNCHANGED desk

End(c) == desk' = [desk EXCEPT ![c] = Free] /\ UNCHANGED raced

\* A test failed after all, or the connection was lost: nothing is written.
GiveUp(c) == desk[c] # Free /\ End(c) /\ UNCHANGED leaveTables

-----------------------------------------------------------------------------
(* Counting.                                                                *)

\* _count_days: weekly offs and holidays do not count; a half day is one half,
\* whatever day it is.
WorkingDays(l) ==
    IF l.half THEN 1
    ELSE 2 * Cardinality({d \in l.from .. l.to : d \notin WeeklyOff \cup ToSet(holidays)})

Held(teacher, type) ==
    {n \in DOMAIN leaves : /\ leaves[n].teacher = teacher /\ leaves[n].type = type
                           /\ leaves[n].status \in Active /\ ~ leaves[n].deleted}

HalfDays == [n \in DOMAIN leaves |-> WorkingDays(leaves[n])]

\* _type_balance: what is approved and what is pending both use up the quota.
Used(teacher, type) == SumFunctionOnSet(HalfDays, Held(teacher, type))

Overlap(a, b) == a.from <= b.to /\ b.from <= a.to

\* Mutation: only approved leave is in the way.
OverlapsApproved(l) ==
    \E n \in DOMAIN leaves : /\ leaves[n].teacher = l.teacher /\ ~ leaves[n].deleted
                             /\ leaves[n].status = "approved" /\ Overlap(leaves[n], l)

OverlapsActive(l) ==
    \E n \in DOMAIN leaves : /\ leaves[n].teacher = l.teacher /\ ~ leaves[n].deleted
                             /\ leaves[n].status \in Active /\ Overlap(leaves[n], l)

\* Mutation: pending requests do not hold balance.
WithinApproved(l) ==
    LET approved == {n \in Held(l.teacher, l.type) : leaves[n].status = "approved"}
    IN  (l.type \in QuotaType /\ quota[l.type] # NoQuota)
            => SumFunctionOnSet(HalfDays, approved) + WorkingDays(l) <= quota[l.type]

WithinQuota(l) ==
    (l.type \in QuotaType /\ quota[l.type] # NoQuota)
        => Used(l.teacher, l.type) + WorkingDays(l) <= quota[l.type]

\* teacher_on_leave: only approved leave keeps a teacher from teaching.
OnLeave(teacher, d) ==
    \E n \in DOMAIN leaves : /\ leaves[n].teacher = teacher /\ ~ leaves[n].deleted
                             /\ leaves[n].status = "approved"
                             /\ leaves[n].from <= d /\ d <= leaves[n].to

-----------------------------------------------------------------------------
(* Teachers and administrators.                                             *)

LeaveOf(teacher, span, type, half, status) ==
    [teacher |-> teacher, from |-> span[1], to |-> span[2], type |-> type,
     half |-> half, status |-> status, own |-> status = "pending", deleted |-> FALSE]

\* apply_leave.  "Dates too far" are not among the inputs.
BeginApply(c, teacher, span, type, half) ==
    LET l == LeaveOf(teacher, span, type, half, "pending")
    IN  /\ half => span[1] = span[2]
        /\ Len(leaves) < MaxLeaves
        /\ ~ OverlapsActive(l)
        /\ WorkingDays(l) > 0
        /\ WithinQuota(l)
        /\ Begin(c, [kind |-> "apply", leave |-> l])
        /\ UNCHANGED leaveTables

CommitApply(c) ==
    /\ desk[c].kind = "apply" /\ Len(leaves) < MaxLeaves
    /\ leaves' = Append(leaves, desk[c].leave)
    /\ End(c) /\ UNCHANGED <<quota, holidays>>

\* cancel_leave by the teacher, decide by an administrator: a pending request
\* is settled, by its key.
BeginSettle(c, n, verdict) ==
    /\ ~ leaves[n].deleted /\ leaves[n].status = "pending"
    /\ Begin(c, [kind |-> "settle", leave |-> n, verdict |-> verdict])
    /\ UNCHANGED leaveTables

CommitSettle(c) ==
    /\ desk[c].kind = "settle"
    /\ leaves' = [leaves EXCEPT ![desk[c].leave].status = desk[c].verdict]
    /\ End(c) /\ UNCHANGED <<quota, holidays>>

\* add_teacher_leave: approved at once, and nothing is tested.
AddLeave(teacher, span) ==
    /\ Len(leaves) < MaxLeaves
    /\ leaves' = Append(leaves, LeaveOf(teacher, span, "casual", FALSE, "approved"))
    /\ Aside /\ UNCHANGED <<quota, holidays>>

DeleteLeave(n) ==
    /\ ~ leaves[n].deleted
    /\ leaves' = [leaves EXCEPT ![n].deleted = TRUE]
    /\ Aside /\ UNCHANGED <<quota, holidays>>

\* set_quotas.
SetQuota(type, halfDays) ==
    /\ quota[type] # halfDays
    /\ quota' = [quota EXCEPT ![type] = halfDays]
    /\ Aside /\ UNCHANGED <<leaves, holidays>>

\* add_holiday rejects a day that is one; no constraint of the table does.
BeginHoliday(c, d) ==
    /\ d \notin ToSet(holidays)
    /\ Begin(c, [kind |-> "holiday", day |-> d]) /\ UNCHANGED leaveTables

CommitHoliday(c) ==
    /\ desk[c].kind = "holiday"
    /\ holidays' = Append(holidays, desk[c].day)
    /\ End(c) /\ UNCHANGED <<leaves, quota>>

\* delete_holiday takes away one row.
DeleteHoliday(n) ==
    /\ holidays' = RemoveAt(holidays, n)
    /\ Aside /\ UNCHANGED <<leaves, quota>>

LeaveNext ==
    \/ \E c \in Clerk :
          \/ \E t \in Teacher, s \in Spans, type \in LeaveType, half \in BOOLEAN :
                BeginApply(c, t, s, type, half)
          \/ \E n \in DOMAIN leaves, v \in {"approved", "rejected", "cancelled"} :
                BeginSettle(c, n, v)
          \/ \E d \in Holidays : BeginHoliday(c, d)
          \/ CommitApply(c) \/ CommitSettle(c) \/ CommitHoliday(c) \/ GiveUp(c)
    \/ \E t \in Teacher, s \in Spans : AddLeave(t, s)
    \/ \E n \in DOMAIN leaves : DeleteLeave(n)
    \/ \E t \in QuotaType, q \in Quotas : SetQuota(t, q)
    \/ \E n \in DOMAIN holidays : DeleteHoliday(n)

LeaveSpec == LeaveInit /\ [][LeaveNext]_leaveVars

-----------------------------------------------------------------------------
(* Properties.                                                              *)

LeaveTypeOK ==
    /\ \A n \in DOMAIN leaves :
          /\ leaves[n].teacher \in Teacher /\ leaves[n].type \in LeaveType
          /\ leaves[n].status \in Active \cup {"rejected", "cancelled"}
          /\ leaves[n].from <= leaves[n].to
          /\ leaves[n].half => leaves[n].from = leaves[n].to
    /\ \A t \in QuotaType : quota[t] \in Quotas \cup {NoQuota}
    /\ ToSet(holidays) \subseteq Holidays

\* The leave a teacher asks for (and is not refused) never overlaps leave asked
\* for before, and the calendar has one row per day, unless two requests were
\* under way at once: no sequence of decisions and deletions gets there.
OneLeaveADay ==
    raced \/ /\ \A m, n \in DOMAIN leaves :
                   (/\ m # n /\ leaves[m].teacher = leaves[n].teacher
                    /\ \A k \in {m, n} : /\ leaves[k].own /\ leaves[k].status \in Active
                                         /\ ~ leaves[k].deleted)
                      => ~ Overlap(leaves[m], leaves[n])
             /\ IsInjective(holidays)

Overdrawn(teacher, type) == quota[type] # NoQuota /\ Used(teacher, type) > quota[type]

\* What an application and its decision may never do: spend more than the quota.
\* It takes an administrator who grants leave, lowers the quota or takes a
\* holiday back, or requests that overlap (_type_balance counts pending days).
OnlyOfficeOverdraws ==
    [][\A t \in Teacher, type \in QuotaType :
          (Overdrawn(t, type)' /\ ~ Overdrawn(t, type) /\ ~ raced')
              => \/ quota'[type] # quota[type]
                 \/ Len(holidays') < Len(holidays)
                 \/ Len(leaves') > Len(leaves) /\ ~ Last(leaves').own]_leaveVars

\* A request that was settled stays as it was settled ("Only a pending request
\* can be cancelled"), unless two requests were under way at once.
SettledOnce ==
    [][\A n \in DOMAIN leaves :
          (leaves[n].status # "pending" /\ ~ raced)
              => leaves'[n].status = leaves[n].status]_leaveVars
=============================================================================
