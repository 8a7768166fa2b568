------------------------------- MODULE Lectures -------------------------------
(***************************************************************************)
(* Lectures of a branch, on top of leave and holidays: scheduling, the     *)
(* weekly timetable, copying a day, the life of a lecture, substitutes and *)
(* makeup sessions (lectures/services/lecture_service.py).                 *)
(*                                                                         *)
(* A request on lectures is one step: two of them overlap as two requests  *)
(* on leave do, with the same effects.  Time is a day and hours.           *)
(***************************************************************************)
EXTENDS Leave

CONSTANTS Batch, Room,
          NoRoom,       \* online: no classroom
          Qualified,    \* the pairs <<teacher, batch>> the subject lock admits
          Plans,        \* what clerks plan: [teacher, batch, room, from, to]
          Timetables,   \* the weekly patterns: sets of plans with a weekday
          Days, Week,   \* the days planned for; days in a week
          Today,        \* days after it lie in the future
          Hours,        \* the hours at which a lecture begins in fact
          MaxLectures   \* bound: rows of lectures

NoTeacher == "nobody"
InOrder(p) == p.from \in Nat /\ p.to \in Nat /\ p.from < p.to

ASSUME LecturesAssumption ==
    /\ Qualified \subseteq Teacher \X Batch /\ NoTeacher \notin Teacher
    /\ \A p \in Plans : p.teacher \in Teacher /\ p.batch \in Batch /\ InOrder(p)
    /\ \A slots \in Timetables : \A s \in slots : InOrder(s)
    /\ Days \subseteq Nat /\ \A d, e \in Days : d .. e \subseteq Days
    /\ Week \in Nat \ {0} /\ Today \in Nat
    /\ Hours \subseteq Nat /\ MaxLectures \in Nat

VARIABLES lectures,    \* lectures, oldest first
          madeUp,      \* the lectures a lecture_session is linked to
          timetable    \* batch_schedules: the live slots

lectureTables == <<lectures, madeUp, timetable>>
lecturesVars == <<leaveVars, lectureTables>>

Occupying == {"scheduled", "started", "paused"}
NoHour == -1

\* VALID_TRANSITIONS, of the states that occur.
ValidTransitions ==
    [scheduled   |-> {"started", "cancelled", "no_show", "rescheduled"},
     started     |-> {"paused", "completed", "cancelled"},
     completed   |-> {}, cancelled |-> {}, no_show |-> {"completed"}]

\* VALID_NO_SHOW_REASONS: whether the teacher did not come, or it was for
\* students, somebody outside or anything else, which nothing tells apart.
NoShowReasons == {"teacher", "other"}
NoReason == "none"

LecturesInit ==
    /\ LeaveInit
    /\ lectures = <<>> /\ madeUp = {}
    /\ timetable = {}

LectureOf(p, day) ==
    [teacher |-> p.teacher, batch |-> p.batch, room |-> p.room, day |-> day,
     from |-> p.from, to |-> p.to, status |-> "scheduled", began |-> NoHour,
     late |-> "unknown", substitute |-> NoTeacher, reason |-> NoReason, deleted |-> FALSE]

-----------------------------------------------------------------------------
(* Conflicts.                                                               *)

SameTime(a, b) == a.day = b.day /\ a.from < b.to /\ b.from < a.to

TeacherConflict(a, b) == a.teacher = b.teacher
BatchConflict(a, b) == a.batch = b.batch
ClassroomConflict(a, b) == a.room # NoRoom /\ a.room = b.room

\* Mutation: a lecture under way does not count.
ConflictScheduled(l, rows, except) ==
    \E n \in (DOMAIN rows) \ except :
        /\ ~ rows[n].deleted /\ rows[n].status = "scheduled" /\ SameTime(l, rows[n])
        /\ TeacherConflict(l, rows[n]) \/ BatchConflict(l, rows[n]) \/ ClassroomConflict(l, rows[n])

\* _check_conflicts.  Who stands in for a teacher does not count as teaching.
Conflict(l, rows, except) ==
    \E n \in (DOMAIN rows) \ except :
        /\ ~ rows[n].deleted /\ rows[n].status \in Occupying /\ SameTime(l, rows[n])
        /\ TeacherConflict(l, rows[n]) \/ BatchConflict(l, rows[n]) \/ ClassroomConflict(l, rows[n])

\* check_teacher_conflict alone, for a substitute.
TeacherBusy(t, l, except) ==
    \E n \in (DOMAIN lectures) \ except :
        /\ ~ lectures[n].deleted /\ lectures[n].status \in Occupying
        /\ lectures[n].teacher = t /\ SameTime(l, lectures[n])

-----------------------------------------------------------------------------
(* Planning.                                                                *)

Insert(rows) ==
    /\ rows # <<>>
    /\ Len(lectures) + Len(rows) <= MaxLectures
    /\ lectures' = lectures \o rows
    /\ Aside /\ UNCHANGED <<leaveTables, madeUp, timetable>>

\* What a bulk request adds: each candidate in its turn that no lecture of the
\* table is in the way of, and none that was added before it.
Admitted(candidates, admissible, added) ==
    added = {k \in admissible :
                /\ ~ OnLeave(candidates[k].teacher, candidates[k].day)
                /\ ~ Conflict(candidates[k], lectures, {})
                /\ ~ Conflict(candidates[k], [j \in {i \in added : i < k} |-> candidates[j]], {})}

InsertAdmitted(candidates, admissible) ==
    \E added \in SUBSET admissible, n \in 1 .. MaxLectures :
        /\ Admitted(candidates, admissible, added)
        /\ \E order \in [1 .. n -> added] :
              /\ \A k \in added : \E i \in 1 .. n : order[i] = k
              /\ \A i, j \in 1 .. n : i < j => order[i] < order[j]
              /\ Insert([i \in 1 .. n |-> candidates[order[i]]])

\* schedule_lecture; the calendar of holidays is not asked.
Schedule(p, day) ==
    /\ ~ Conflict(LectureOf(p, day), lectures, {})
    /\ <<p.teacher, p.batch>> \in Qualified
    /\ ~ OnLeave(p.teacher, day)
    /\ Insert(<<LectureOf(p, day)>>)

\* copy_selected_to_date: the plan is copied, what happened is not; an id that
\* names no lecture, or a deleted one, is skipped.
CopySelected(selected, target) ==
    LET found == {k \in DOMAIN selected : /\ selected[k] \in DOMAIN lectures
                                          /\ ~ lectures[selected[k]].deleted}
    IN  /\ target \notin ToSet(holidays)
        /\ InsertAdmitted([k \in found |-> LectureOf(lectures[selected[k]], target)], found)

\* copy_to_next_day: all lectures of the day in order, whatever became of them.
CopyDay(source, target) ==
    LET theDay == {n \in DOMAIN lectures : lectures[n].day = source /\ ~ lectures[n].deleted}
    IN  /\ source # target
        /\ CopySelected(SetToSortSeq(theDay, LAMBDA m, n :
               \/ lectures[m].from < lectures[n].from
               \/ lectures[m].from = lectures[n].from /\ m < n), target)

\* set_batch_timetable: the batch's slots are replaced; a slot with a teacher
\* must pass the subject lock.
SetTimetable(b, slots) ==
    /\ \A s \in slots : s.batch = b /\ <<s.teacher, b>> \in Qualified
    /\ timetable' = {s \in timetable : s.batch # b} \cup slots
    /\ timetable' # timetable
    /\ Aside /\ UNCHANGED <<leaveTables, lectures, madeUp>>

\* The slots that begin earlier come first, those of one hour in any order.
Earlier(x, y) == x[2] < y[2] \/ (x[2] = y[2] /\ x[1].from < y[1].from)

\* generate_from_timetable over a range of days; holidays are passed over.
Generate(slots, from, to) ==
    LET days == {d \in from .. to : d \notin ToSet(holidays)}
        dated == {x \in slots \X days : x[1].weekday = x[2] % Week}
    IN  \E inOrder \in SetToSeqs(dated) :
            LET planned == [k \in DOMAIN inOrder |-> LectureOf(inOrder[k][1], inOrder[k][2])]
            IN  /\ \A i, j \in DOMAIN inOrder : i < j => ~ Earlier(inOrder[j], inOrder[i])
                /\ InsertAdmitted(planned,
                      {k \in DOMAIN planned : <<planned[k].teacher, planned[k].batch>> \in Qualified})

-----------------------------------------------------------------------------
(* The life of a lecture.                                                   *)

Change(n, new) ==
    /\ lectures' = [lectures EXCEPT ![n] = new]
    /\ Aside /\ UNCHANGED <<leaveTables, madeUp, timetable>>

May(l, status) == status \in ValidTransitions[l.status]

\* _derive_actuals: late means after the hour that was scheduled.
Lateness(l, began) ==
    IF began = NoHour THEN "unknown" ELSE IF began > l.from THEN "late" ELSE "on_time"

Start(n, hour) ==
    /\ May(lectures[n], "started")
    /\ Change(n, [lectures[n] EXCEPT !.status = "started", !.began = hour])

\* complete_lecture; the table lets it complete a no-show, too.
Complete(n) ==
    /\ May(lectures[n], "completed")
    /\ Change(n, [lectures[n] EXCEPT !.status = "completed",
                                     !.late = Lateness(lectures[n], lectures[n].began)])

\* Mutation: any lecture may be called off.
CancelAny(n) ==
    Change(n, [lectures[n] EXCEPT !.status = "cancelled"])

Cancel(n) ==
    /\ May(lectures[n], "cancelled")
    /\ Change(n, [lectures[n] EXCEPT !.status = "cancelled"])

\* reschedule_lecture: neither leave nor holidays are asked, and a substitute
\* stays with the lecture.
Reschedule(n, day, p) ==
    LET moved == [lectures[n] EXCEPT !.day = day, !.from = p.from, !.to = p.to,
                                     !.room = IF p.room = NoRoom THEN @ ELSE p.room]
    IN  /\ May(lectures[n], "rescheduled")
        /\ ~ Conflict(moved, lectures, {n})
        /\ Change(n, moved)

\* update_actuals: none for a future day; an end completes the lecture, which
\* is never taken back.
RecordActuals(n, began, ended) ==
    LET l == lectures[n]
        hour == IF began = NoHour THEN l.began ELSE began
    IN  /\ l.status \notin {"cancelled", "no_show"}
        /\ hour # NoHour /\ l.day <= Today
        /\ Change(n,
              [l EXCEPT !.began = hour, !.late = Lateness(l, hour),
                        !.status = IF ended \/ @ = "completed" THEN "completed" ELSE "started"])

\* Mutation: who stood in stays on the lecture.
NoShowKeeping(n, why) ==
    /\ May(lectures[n], "no_show")
    /\ Change(n, [lectures[n] EXCEPT !.status = "no_show", !.reason = why])

\* mark_no_show
NoShow(n, why) ==
    /\ May(lectures[n], "no_show")
    /\ Change(n, [lectures[n] EXCEPT !.status = "no_show", !.reason = why,
                                     !.substitute = NoTeacher])

\* Whom mark_substitute accepts: the subject lock may be waived, leave may not.
Accepted(l, teacher, crossSubject) ==
    /\ teacher # l.teacher /\ ~ OnLeave(teacher, l.day)
    /\ crossSubject \/ <<teacher, l.batch>> \in Qualified

\* mark_substitute turns a no-show into a lecture that was held; with no teacher
\* given, nothing is written.
Substitute(n, teacher) ==
    LET l == lectures[n]
        held == l.status = "no_show"
    IN  /\ \E crossSubject \in BOOLEAN : Accepted(l, teacher, crossSubject)
        /\ Change(n, [l EXCEPT !.substitute = teacher,
                                !.reason = IF held THEN NoReason ELSE @,
                                !.status = IF held THEN "completed" ELSE @])

\* create_lecture_session, linked to the lectures it makes up for.
RecordSession(linked) ==
    /\ madeUp' = madeUp \cup linked
    /\ Aside /\ UNCHANGED <<leaveTables, lectures, timetable>>

\* delete_lecture, in any state.
DeleteLecture(n) ==
    /\ ~ lectures[n].deleted
    /\ lectures' = [lectures EXCEPT ![n].deleted = TRUE]
    /\ Aside /\ UNCHANGED <<leaveTables, madeUp, timetable>>

\* list_pending_makeups.
PendingMakeups ==
    {n \in DOMAIN lectures : /\ lectures[n].status \in {"cancelled", "no_show"}
                             /\ ~ lectures[n].deleted /\ n \notin madeUp}

-----------------------------------------------------------------------------
(* What the desks and the reports show.                                     *)

Shown == {n \in DOMAIN lectures : ~ lectures[n].deleted}
WithStatus(statuses) == {n \in Shown : lectures[n].status \in statuses}

\* list_eligible_substitutes, of the teachers who have no lecture then.
Eligible(l, except, crossSubject) ==
    {t \in Teacher : /\ t # l.teacher
                     /\ crossSubject \/ <<t, l.batch>> \in Qualified
                     /\ ~ TeacherBusy(t, l, except) /\ ~ OnLeave(t, l.day)}

\* teacher_reliability_in_range, of all teachers.
Assigned == WithStatus({"completed", "no_show"})
TaughtSelf == {n \in WithStatus({"completed"}) :
                  lectures[n].substitute \in {NoTeacher, lectures[n].teacher}}
SubstitutedOut == {n \in Assigned : lectures[n].substitute \notin {NoTeacher, lectures[n].teacher}}

\* teacher_productivity_in_range counts for whoever taught, the report of
\* scheduled and conducted lectures for whoever was planned.
Taught(t) ==
    {n \in WithStatus({"completed"}) :
        t = IF lectures[n].substitute # NoTeacher THEN lectures[n].substitute
            ELSE lectures[n].teacher}
Conducted(t) == {n \in WithStatus({"completed"}) : lectures[n].teacher = t}

Lifecycle(n) ==
    \/ \E h \in Hours : Start(n, h)
    \/ Complete(n) \/ Cancel(n)
    \/ \E why \in NoShowReasons : NoShow(n, why)
    \/ \E d \in Days, p \in Plans : Reschedule(n, d, p)
    \/ \E h \in Hours \cup {NoHour}, ended \in BOOLEAN : RecordActuals(n, h, ended)
    \/ \E t \in Teacher : Substitute(n, t)

LectureStep ==
    \/ \E p \in Plans, d \in Days : Schedule(p, d)
    \/ \E d, e \in Days : CopyDay(d, e) \/ Generate(timetable, d, e)
    \/ \E n \in DOMAIN lectures :
          /\ ~ lectures[n].deleted
          /\ Lifecycle(n) \/ \E d \in Days : CopySelected(<<n>>, d)
    \/ \E b \in Batch, slots \in Timetables : SetTimetable(b, slots)
    \/ \E n \in PendingMakeups : RecordSession({n})
    \/ \E n \in DOMAIN lectures : DeleteLecture(n)

LecturesNext == (LeaveNext /\ UNCHANGED lectureTables) \/ LectureStep

LecturesSpec == LecturesInit /\ [][LecturesNext]_lecturesVars

-----------------------------------------------------------------------------
(* Properties.                                                              *)

LecturesTypeOK ==
    /\ \A n \in DOMAIN lectures :
          /\ lectures[n].status \in DOMAIN ValidTransitions
          /\ lectures[n].substitute \in Teacher \cup {NoTeacher}
          /\ lectures[n].began \in Hours \cup {NoHour}
          /\ lectures[n].room \in Room \cup {NoRoom}
    /\ madeUp \subseteq DOMAIN lectures

\* Nobody is planned twice: live lectures that occupy a teacher, a batch or a
\* room never meet, whatever was scheduled, moved, copied, generated, started and given up.
NoDoubleBooking ==
    \A m, n \in DOMAIN lectures :
        (/\ m # n /\ SameTime(lectures[m], lectures[n])
         /\ \A k \in {m, n} : lectures[k].status \in Occupying /\ ~ lectures[k].deleted)
            => ~ (\/ TeacherConflict(lectures[m], lectures[n])
                  \/ BatchConflict(lectures[m], lectures[n])
                  \/ ClassroomConflict(lectures[m], lectures[n]))

\* Nobody taught, or somebody did: a no-show has a reason and no substitute
\* ("the two states are mutually exclusive"), whatever was changed before it.
NoShowExcludesSubstitute ==
    \A n \in DOMAIN lectures :
        lectures[n].status = "no_show"
            => lectures[n].reason # NoReason /\ lectures[n].substitute = NoTeacher

\* The flag the productivity report counts is the lateness of the hour recorded
\* against the hour scheduled, also after moves and corrections.
LatenessTruthful ==
    \A n \in DOMAIN lectures :
        LET l == lectures[n]
        IN  l.late # "unknown" => l.late = Lateness(l, l.began)

\* Three reports of one thing: every lecture with an outcome is taught by its
\* teacher, taught by a substitute or not taught, never two of them, whatever
\* became of it before; and what was conducted was taught by somebody.
DeliveryAccounted ==
    /\ Assigned = TaughtSelf \cup SubstitutedOut \cup WithStatus({"no_show"})
    /\ TaughtSelf \cap SubstitutedOut = {}
    /\ SubstitutedOut \cap WithStatus({"no_show"}) = {}
    /\ UNION {Conducted(t) : t \in Teacher} = UNION {Taught(t) : t \in Teacher}

\* The picker shows whom the backend would accept ("so an admin can't choose a
\* teacher the backend would then reject").
PickerAccepted ==
    \A n \in Shown, crossSubject \in BOOLEAN :
        \A t \in Eligible(lectures[n], {n}, crossSubject) : Accepted(lectures[n], t, crossSubject)

\* What desks and reports show is true of the lectures.
ReportsTruthful ==
    NoShowExcludesSubstitute /\ LatenessTruthful /\ DeliveryAccounted /\ PickerAccepted

\* What was held or called off stays so.
OutcomeFinal ==
    [][\A n \in DOMAIN lectures :
          lectures[n].status \in {"completed", "cancelled"}
              => lectures'[n].status = lectures[n].status]_lecturesVars

\* What a decision on leave and the outcome of a lecture have in common.
OutcomesStand == SettledOnce /\ OutcomeFinal

\* "re-running doesn't double-book": after any number of runs of the generator
\* and of copies, a batch has no two lectures at one time that took place, are
\* taking place or are planned.
RerunNeverDoubleBooks ==
    \A m, n \in DOMAIN lectures :
        (/\ m # n /\ BatchConflict(lectures[m], lectures[n]) /\ SameTime(lectures[m], lectures[n])
         /\ \A k \in {m, n} : /\ lectures[k].status \in Occupying \cup {"completed"}
                              /\ ~ lectures[k].deleted)
            => FALSE
=============================================================================
