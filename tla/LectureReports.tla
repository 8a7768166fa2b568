---------------------------- MODULE LectureReports ----------------------------
(***************************************************************************)
(* What the desks and the dashboards of a branch compute from its lectures *)
(* (lectures/services/lecture_service.py, lecture_report_service.py and    *)
(* the aggregations of lectures/repositories/lecture_repository.py): the   *)
(* roster of a day, the list of lectures to close, adherence, productivity *)
(* and the scheduled-and-conducted report.  All of it is read from the     *)
(* tables of Lectures; no request of this module writes.                   *)
(*                                                                         *)
(* Names, minutes and percentages are left out: a figure is the count it   *)
(* is derived from.  Sessions off the plan are those that make up for a    *)
(* lecture.                                                                *)
(***************************************************************************)
EXTENDS Lectures

ASSUME ReportsAssumption == IsFiniteSet(Teacher) /\ IsFiniteSet(Batch) /\ IsFiniteSet(Days)

Substituted == {n \in Shown : lectures[n].substitute # NoTeacher}
PlannedFor(t) == {n \in Shown : lectures[n].teacher = t}

-----------------------------------------------------------------------------
(* The roster of a day.                                                     *)

\* list_lectures_for_day
OnDay(d) == {n \in Shown : lectures[n].day = d}

\* The tile of the snapshot that counts a status.
Tile == [scheduled |-> "pending", started |-> "in_progress", completed |-> "completed",
         cancelled |-> "cancelled", no_show |-> "no_show"]
Tiles == {"pending", "in_progress", "completed", "cancelled", "no_show"}

\* get_roster, the snapshot of the branch and the roll-up of one teacher.  The
\* snapshot shows its no-shows in two tiles, SnapshotNoShows.
Tally(rows) == [k \in Tiles |-> Cardinality({n \in rows : Tile[lectures[n].status] = k})]
Snapshot(d) == Tally(OnDay(d))
RosterRow(t, d) == Tally(OnDay(d) \cap PlannedFor(t))

\* no_show_teacher and no_show_other.
SnapshotNoShows(d) ==
    LET missed == {n \in OnDay(d) : lectures[n].status = "no_show"}
        teachers == {n \in missed : lectures[n].reason = "teacher"}
    IN  [teacher |-> Cardinality(teachers), other |-> Cardinality(missed) - Cardinality(teachers)]

\* Who stands in is credited only when an earlier lecture of the day has
\* already opened a row for them.
Before(m, n) ==
    \/ lectures[m].from < lectures[n].from
    \/ (lectures[m].from = lectures[n].from /\ m < n)
SubIn(t, d) ==
    {n \in OnDay(d) \cap Substituted :
        /\ lectures[n].substitute = t
        /\ \E m \in OnDay(d) \cap PlannedFor(t) : Before(m, n)}
SubOut(t, d) == OnDay(d) \cap Substituted \cap PlannedFor(t)

\* The teachers the roster calls idle: nothing planned for them.
Idle(d) == {t \in Teacher : OnDay(d) \cap PlannedFor(t) = {}}

\* _derive_lecture_status
Label(n) ==
    LET status == lectures[n].status
    IN  IF n \in madeUp /\ status \in {"cancelled", "no_show"} THEN "made_up" ELSE status

\* The strip of what goes on now, and what is late to begin.
Live(d) == {n \in OnDay(d) : lectures[n].status = "started"}
Overdue(d, today, hour) ==
    {n \in OnDay(d) : /\ lectures[n].status = "scheduled"
                      /\ d < today \/ (d = today /\ lectures[n].from < hour)}

\* list_pending_actuals: over, and never closed.
PendingActuals(today, hour) ==
    {n \in WithStatus(Occupying) :
        \/ lectures[n].day < today
        \/ (lectures[n].day = today /\ lectures[n].to < hour)}

-----------------------------------------------------------------------------
(* Adherence.                                                               *)

CompletedAsPlanned == WithStatus({"completed"}) \ Substituted

\* lecture_totals_in_range
Totals ==
    [planned |-> Cardinality(Shown),
     completed_as_planned |-> Cardinality(CompletedAsPlanned),
     substituted |-> Cardinality(Substituted),
     cancelled |-> Cardinality(WithStatus({"cancelled"})),
     no_show |-> Cardinality(WithStatus({"no_show"}))]

\* per_teacher_adherence_in_range
Adherence ==
    [t \in Teacher |->
       [planned |-> Cardinality(PlannedFor(t)),
        substituted_out |-> Cardinality(Substituted \cap PlannedFor(t)),
        substituted_in |-> Cardinality({n \in Substituted : lectures[n].substitute = t}),
        cancelled |-> Cardinality(WithStatus({"cancelled"}) \cap PlannedFor(t))]]

\* no_show_breakdown_in_range: a no-show without a reason is one of the others.
MissedFor(reasons) == {n \in WithStatus({"no_show"}) : lectures[n].reason \in reasons}
NoShowBreakdown ==
    [teacher |-> Cardinality(MissedFor({"teacher"})),
     other |-> Cardinality(MissedFor({"other", NoReason}))]

\* get_adherence_insights: the teachers with a lecture of either kind have a row.
Figures == {"planned", "substituted_out", "substituted_in", "cancelled"}
AdherencePage ==
    LET rows == Adherence
    IN  [totals |-> Totals, no_show_breakdown |-> NoShowBreakdown,
         by_teacher |-> [t \in {u \in Teacher : \E k \in Figures : rows[u][k] > 0} |-> rows[t]]]

-----------------------------------------------------------------------------
(* Productivity.                                                            *)

\* The minutes of delay the lecture report prints.
Delay(n) ==
    LET l == lectures[n]
    IN  IF l.late = "late" /\ l.began > l.from THEN l.began - l.from ELSE 0

\* get_productivity_insights: what a teacher taught, and what became of the
\* lectures planned for them.  Only a no-show put on the teacher is shown as one;
\* what was assigned counts all of them.
Insights ==
    [t \in Teacher |->
       [taught |-> Cardinality(Taught(t)),
        late |-> Cardinality({n \in Taught(t) : lectures[n].late = "late"}),
        assigned |-> Cardinality(Assigned \cap PlannedFor(t)),
        taught_self |-> Cardinality(TaughtSelf \cap PlannedFor(t)),
        teacher_no_show |-> Cardinality(MissedFor({"teacher"}) \cap PlannedFor(t)),
        substituted_out |-> Cardinality(SubstitutedOut \cap PlannedFor(t))]]

\* _report_accumulate and _report_finalize, of the lectures of a group.
ReportOf(rows) ==
    LET held == {n \in rows : lectures[n].status = "completed"}
        delayed == {n \in held : lectures[n].late = "late"}
    IN  [scheduled |-> Cardinality(rows), conducted |-> Cardinality(held),
         late |-> Cardinality(delayed),
         on_time |-> Cardinality({n \in held : lectures[n].late = "on_time"}),
         delay |-> SumFunction([n \in delayed |-> lectures[n].began - lectures[n].from])]

\* report_lectures: its filters, the teacher that was planned and the batch.
Reported(teachers, batches) ==
    {n \in Shown : lectures[n].teacher \in teachers /\ lectures[n].batch \in batches}

\* get_productivity_report: by the teacher that was planned, by batch, by week.
ByTeacher == [t \in Teacher |-> ReportOf(Reported({t}, Batch))]
ByBatch == [b \in Batch |-> ReportOf(Reported(Teacher, {b}))]
ByWeek ==
    [w \in {d \div Week : d \in Days} |->
        ReportOf({n \in Reported(Teacher, Batch) : lectures[n].day \div Week = w})]

\* teacher_outcome_rows: the batches whose tests speak for a teacher, whoever was
\* planned.  The averages are left out.
Effective(l) == IF l.substitute # NoTeacher THEN l.substitute ELSE l.teacher
Credited(t) ==
    {b \in Batch : \E n \in WithStatus({"completed"}) : lectures[n].batch = b /\ Effective(lectures[n]) = t}

\* The lecture report of one teacher: what they gave, whoever was planned.
ReportRows(t) == {n \in Shown : t = Effective(lectures[n])}

-----------------------------------------------------------------------------
(* Properties.                                                              *)

Column(table, name) == SumFunction([k \in DOMAIN table |-> table[k][name]])

\* Nothing planned falls off the desks: a lecture that is over has an outcome
\* or waits to be closed, on the list and on the roster of its day; one that was
\* called off waits for its makeup until the roster says it was made up.
NothingForgotten ==
    \A today \in Days, hour \in Hours \cup {p.to + 1 : p \in Plans} :
        /\ PendingActuals(today, hour)
               \subseteq UNION {Live(d) \cup Overdue(d, today, hour) : d \in Days}
        /\ \A n \in Shown :
              lectures[n].day < today
                  => \/ n \in PendingActuals(today, hour) \cup PendingMakeups
                     \/ Label(n) \in {"completed", "made_up"}

\* The roster of a day and its snapshot are one thing seen twice; a substitute
\* is credited at most once for each lecture somebody gave away.
RosterAgrees ==
    \A d \in Days : OnDay(d) # {} =>
        LET snapshot == Snapshot(d)
            rows == [t \in Teacher |-> RosterRow(t, d)]
            out == [t \in Teacher |-> SubOut(t, d)]
            in == [t \in Teacher |-> SubIn(t, d)]
        IN  /\ \A k \in Tiles : snapshot[k] = Column(rows, k)
            /\ SumFunction(snapshot) = Cardinality(OnDay(d))
            /\ \A t \in Teacher : in[t] \cap out[t] = {}
            /\ UNION {in[t] : t \in Teacher} \subseteq UNION {out[t] : t \in Teacher}

\* "substituted lectures are pulled out into their own bucket and aren't
\* double-counted": taught as planned, substituted and missed are three things,
\* and what one teacher gives away another takes.
AdherenceAgrees ==
    LET totals == AdherencePage.totals
        rows == AdherencePage.by_teacher
    IN  /\ totals.completed_as_planned + totals.substituted + totals.no_show <= totals.planned
        /\ Column(rows, "substituted_out") = totals.substituted
        /\ Column(rows, "substituted_in") = totals.substituted
        /\ Column(rows, "planned") = totals.planned

\* The dashboards of productivity count the same lectures: by whoever taught or
\* was planned, by batch and by week; what a teacher was assigned they taught, gave
\* away or missed, and what is left over is exactly what fell through for another
\* reason, which the page does not show; the tests that speak for a teacher are
\* those of the batches they taught; and only a lecture flagged late has a delay.
ProductivityAgrees ==
    LET teachers == ByTeacher
        batches == ByBatch
        weeks == ByWeek
        insights == Insights
    IN  /\ \A name \in {"scheduled", "conducted", "late", "on_time", "delay"} :
              LET total == Column(teachers, name)
              IN  total = Column(batches, name) /\ total = Column(weeks, name)
        /\ Column(insights, "taught") = Column(teachers, "conducted")
        /\ Column(insights, "late") = Column(teachers, "late")
        /\ \A t \in Teacher :
              LET row == insights[t]
              IN  /\ row.assigned - (row.taught_self + row.substituted_out + row.teacher_no_show)
                         = Cardinality(MissedFor(NoShowReasons \ {"teacher"}) \cap PlannedFor(t))
                  /\ teachers[t].conducted = row.taught_self + row.substituted_out
                  /\ Taught(t) \subseteq ReportRows(t)
                  /\ Credited(t) = {lectures[n].batch : n \in Taught(t)}
        /\ \A n \in Shown : Delay(n) > 0 <=> lectures[n].late = "late"

\* Who did not come is one story on three pages: the snapshots of the days, the
\* breakdown beside adherence and the column of productivity put the same lectures
\* on the teachers, whatever was corrected since; the rest has another reason.
NoShowsAgree ==
    LET page == AdherencePage
        days == [d \in Days |-> SnapshotNoShows(d)]
    IN  /\ Column(Insights, "teacher_no_show") = page.no_show_breakdown.teacher
        /\ \A why \in NoShowReasons : Column(days, why) = page.no_show_breakdown[why]
        /\ page.no_show_breakdown.teacher + page.no_show_breakdown.other = page.totals.no_show

\* Every report of the lectures of a branch, of itself and against the others.
DashboardsAgree ==
    lectures # <<>> =>
        /\ ReportsTruthful
        /\ NothingForgotten /\ RosterAgrees /\ AdherenceAgrees /\ ProductivityAgrees
        /\ NoShowsAgree
=============================================================================
