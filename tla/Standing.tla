------------------------------- MODULE Standing -------------------------------
(***************************************************************************)
(* How students stand: their records of lectures, their marks of tests and *)
(* what is computed from both: the stored summaries of                     *)
(* analytics/services/analytics_service.py, which change on a refresh      *)
(* only, and the figures that student_repository.py and                    *)
(* lecture_repository.py compute on demand.                                *)
(*                                                                         *)
(* There are two tables of who was at a lecture: attendance_records, which *)
(* the attendance pages and the projection of a day write (DailyAttendance *)
(* says how; here a record is written as a whole), and                     *)
(* lecture_attendance_mappings, to which the lecture's own endpoint only   *)
(* ever adds.  A test's mark is written as a whole too (Tests).            *)
(* Percentages are whole numbers.                                          *)
(***************************************************************************)
EXTENDS Registers

CONSTANTS Exam,        \* tests
          Percent,     \* the percentages scored
          RecordStatus,  \* of VALID_ATTENDANCE_STATUSES
          RiskThreshold, \* RISK_THRESHOLD_DEFAULT
          MaxChanges   \* bound: changes of records, marks and rolls

ASSUME StandingAssumption ==
    /\ IsFiniteSet(Exam)
    /\ Percent \subseteq 0 .. 100 /\ MaxChanges \in Nat /\ RiskThreshold \in 0 .. 100
    /\ RecordStatus \subseteq {"PRESENT", "ABSENT", "LATE", "EXCUSED", "PARTIAL"}

VARIABLES records,    \* attendance_records of a student and a lecture
          mapped,     \* lecture_attendance_mappings: how many rows say so
          scores,     \* student_marks: a percentage, absent, or none
          summaries,  \* analytics_student_summaries
          overview,   \* analytics_batch_summaries
          teaching,   \* analytics_teacher_summaries, of the teacher of a batch
          changes, stale  \* history: how many changes, and any since the refresh

standingTables == <<records, mapped, scores, summaries, overview, teaching>>
standingVars == <<registersVars, standingTables, changes, stale>>

NoSummary == [total |-> -1]
Missed == -1
NoScore == -2

StandingInit ==
    /\ RegistersInit
    /\ records = [x \in Pupil \X Slots |-> "none"]
    /\ mapped = [x \in Pupil \X Slots \X RecordStatus |-> 0]
    /\ scores = [x \in Pupil \X Exam |-> NoScore]
    /\ summaries = [p \in Pupil |-> NoSummary] /\ overview = [g \in Group |-> NoSummary]
    /\ teaching = [g \in Group |-> NoSummary]
    /\ changes = 0 /\ stale = FALSE

-----------------------------------------------------------------------------
(* Figures.                                                                 *)

Ratio(part, whole) == IF whole = 0 THEN 0 ELSE (100 * part) \div whole
Mean(f) == IF DOMAIN f = {} THEN 0 ELSE Summed(f) \div Cardinality(DOMAIN f)

RecordsOf(p, statuses) == {s \in Slots : records[<<p, s>>] \in statuses}
AllStatuses == RecordStatus \cup {"PRESENT"}
Scored(p) == {e \in Exam : scores[<<p, e>>] >= 0}
MeanScore(p) == Mean([e \in Scored(p) |-> scores[<<p, e>>]])

\* _compute_risk_score, in hundredths.
Risk(attendance, score) == 60 * (100 - attendance) + 40 * (100 - score)

\* _refresh_student_summaries: all records, of lectures held or not; late is not
\* present, and nobody without a record or a mark is above zero.
StudentSummary(p) ==
    LET total == Cardinality(RecordsOf(p, AllStatuses))
        present == Cardinality(RecordsOf(p, {"PRESENT"}))
    IN  [total |-> total, present |-> present,
         absent |-> Cardinality(RecordsOf(p, {"ABSENT"})),
         late |-> Cardinality(RecordsOf(p, {"LATE"})),
         tests |-> Cardinality(Scored(p)),
         weak |-> {e \in Scored(p) : scores[<<p, e>>] < 40},
         risk |-> Risk(Ratio(present, total), MeanScore(p))]

\* _refresh_batch_summaries: of everybody mapped to the batch, deleted or not.
GroupSummary(g) ==
    LET members == {p \in Pupil : <<p, g>> \in roll}
        rows(statuses) == {x \in members \X Slots : records[x] \in statuses}
        marked == {x \in members \X Exam : scores[x] >= 0}
    IN  [total |-> Cardinality(members),
         attendance |-> Ratio(Cardinality(rows({"PRESENT"})), Cardinality(rows(AllStatuses))),
         score |-> Mean([x \in marked |-> scores[x]])]

\* _refresh_teacher_summaries: of the lectures that were not deleted, and of
\* everybody with a record of one.  How late they began is left to Lectures.
TeacherSummary(g) ==
    LET planned == {s \in Slots : s[1] = g /\ Planned(s)}
        rows(statuses) == {x \in Pupil \X planned : records[x] \in statuses}
    IN  [total |-> Cardinality(planned),
         completed |-> Cardinality({s \in planned : lecture[s] = "completed"}),
         attendance |-> Ratio(Cardinality(rows({"PRESENT"})), Cardinality(rows(AllStatuses)))]

-----------------------------------------------------------------------------
(* What happens.                                                            *)

Changed == changes < MaxChanges /\ changes' = changes + 1 /\ stale' = TRUE

Record(p, s, status) ==
    /\ records[<<p, s>>] # status /\ Planned(s) /\ s[1] \in GroupsOf(p) /\ p \notin gone
    /\ records' = [records EXCEPT ![<<p, s>>] = status]
    /\ Changed /\ UNCHANGED <<registersVars, mapped, scores, summaries, overview, teaching>>

\* lecture_service.mark_attendance: a row more, for anybody and however often.
MarkLecture(p, s, status) ==
    /\ Planned(s)
    /\ mapped' = [mapped EXCEPT ![<<p, s, status>>] = @ + 1]
    /\ Changed /\ UNCHANGED <<registersVars, records, scores, summaries, overview, teaching>>

Score(p, e, v) ==
    /\ scores[<<p, e>>] # v /\ p \notin gone
    /\ scores' = [scores EXCEPT ![<<p, e>>] = v]
    /\ Changed /\ UNCHANGED <<registersVars, records, mapped, summaries, overview, teaching>>

\* A lecture is planned, held or deleted; a student moves or leaves.
Around ==
    /\ \/ \E s \in Slots, status \in SlotStatus : PlanSlot(s, status)
       \/ \E r \in Rolls : Regroup(r)
       \/ \E p \in Pupil : DeletePupil(p)
    /\ Changed /\ UNCHANGED standingTables

\* refresh_all: the students that were deleted keep the summary they had.
Refresh ==
    /\ summaries' = [p \in Pupil |-> IF p \in gone THEN summaries[p] ELSE StudentSummary(p)]
    /\ overview' = [g \in Group |-> GroupSummary(g)]
    /\ teaching' = [g \in Group |-> TeacherSummary(g)]
    /\ stale' = FALSE
    /\ UNCHANGED <<registersVars, records, mapped, scores, changes>>

StandingNext ==
    \/ \E p \in Pupil, s \in Slots, status \in RecordStatus :
          Record(p, s, status) \/ MarkLecture(p, s, status)
    \/ \E p \in Pupil, e \in Exam, v \in Percent \cup {Missed} : Score(p, e, v)
    \/ Around \/ Refresh

-----------------------------------------------------------------------------
(* What is shown.                                                           *)

\* get_risk_students: by the stored summary, whoever it is of.
RiskStudents == {p \in Pupil : summaries[p] # NoSummary /\ summaries[p].risk >= 100 * RiskThreshold}

\* The rows of a student for the lectures of a status, by what they say.
RowsOf(p, slotStatus, said) ==
    Summed([x \in {y \in DOMAIN mapped : y[1] = p /\ lecture[y[2]] \in slotStatus
                                                 /\ y[3] \in said} |-> mapped[x]])

\* get_attendance_report: a lecture that was deleted was held all the same.
HeldStatus == {"completed", "struck"}
AttendanceReport(p) ==
    [held |-> RowsOf(p, HeldStatus, RecordStatus), present |-> RowsOf(p, HeldStatus, {"PRESENT"})]

\* get_topics_missed: a line for each row.
TopicsMissed(p) == RowsOf(p, HeldStatus, {"ABSENT", "EXCUSED"} \cap RecordStatus)

\* attendance_outcome_pairs: of the lectures that were not deleted.
OutcomePairs ==
    LET held(p) == RowsOf(p, {"completed"}, RecordStatus)
    IN  [p \in {q \in Pupil : held(q) # 0 /\ Scored(q) # {}} |->
            [attendance |-> Ratio(RowsOf(p, {"completed"}, {"PRESENT"}), held(p)),
             score |-> MeanScore(p)]]

\* get_outcome_insights puts a pair into one of three buckets.
Bucket(lo, hi) ==
    {p \in DOMAIN OutcomePairs : OutcomePairs[p].attendance >= lo /\ OutcomePairs[p].attendance < hi}

\* The orders a set may be listed in by a figure, the greatest first; rows of
\* one figure come in any order.
Listings(S, figure(_)) ==
    {order \in [1 .. Cardinality(S) -> S] :
        /\ IsInjective(order)
        /\ \A i, j \in DOMAIN order : i < j => figure(order[i]) >= figure(order[j])}
Place(order, p) == CHOOSE i \in DOMAIN order : order[i] = p

\* list_with_stats: the places in a batch, by the mean score.
RosterRanks(g) == Listings(Members(g), MeanScore)

\* get_test_history: the listings of one test, and the places of a student in
\* one, in the institute and among those of a batch.
Takers(e) == {p \in Pupil : scores[<<p, e>>] >= 0}
TestListings(e) == LET score(p) == scores[<<p, e>>] IN Listings(Takers(e), score)
InstituteRank(order, p) == Place(order, p)
BatchRank(order, p, g) == Cardinality({i \in 1 .. Place(order, p) : <<order[i], g>> \in roll})

-----------------------------------------------------------------------------
(* Properties.                                                              *)

StandingTypeOK ==
    /\ RegistersTypeOK
    /\ records \in [Pupil \X Slots -> RecordStatus \cup {"none"}]
    /\ \A x \in DOMAIN mapped : mapped[x] \in 0 .. MaxChanges
    /\ scores \in [Pupil \X Exam -> Percent \cup {Missed, NoScore}]
    /\ changes \in 0 .. MaxChanges /\ stale \in BOOLEAN

\* After a refresh and until something changes, the summaries of the students
\* and of their batch are of the same records, and the board of students at risk
\* is that of today's figures for all who are still there.
SummariesAgree ==
    stale \/ \A g \in Group : overview[g] # NoSummary =>
        LET members == {p \in Pupil : <<p, g>> \in roll}
            sum(c) == Summed([p \in members |-> IF summaries[p] = NoSummary THEN 0
                                               ELSE summaries[p][c]])
            scorers == {p \in members : summaries[p] # NoSummary /\ summaries[p].tests > 0}
        IN  /\ \A p \in members \ gone :
                  /\ summaries[p].absent + summaries[p].late + summaries[p].present
                         <= summaries[p].total
                  /\ p \in RiskStudents <=> StudentSummary(p).risk >= 100 * RiskThreshold
            /\ members \cap gone = {} =>
                  /\ overview[g].attendance = Ratio(sum("present"), sum("total"))
                  /\ scorers # {} => \E p, q \in scorers :
                        MeanScore(p) <= overview[g].score /\ overview[g].score <= MeanScore(q)

\* A batch and its teacher are given one attendance where the records of its
\* students are those of its lectures; a lecture that was deleted, a student who
\* went to another batch or came from one parts the two.
TeachersAgree ==
    stale \/ \A g \in Group : teaching[g] # NoSummary =>
        LET of(p, s) == <<p, g>> \in roll /\ s[1] = g /\ Planned(s)
            taken == {x \in Pupil \X Slots : records[x] # "none"
                                               /\ (<<x[1], g>> \in roll \/ x[2][1] = g)}
        IN  /\ (\A x \in taken : of(x[1], x[2])) => teaching[g].attendance = overview[g].attendance
            /\ teaching[g].completed = teaching[g].total
                   => \A d \in SchoolDays : d \in Scheduled(g) => <<g, d>> \in DOMAIN Turnout
                                               \/ overview[g].total = 0

\* The page of a student: what was held was attended, late or missed; the pairs
\* share the page's figure while no lecture held was deleted, and the buckets
\* share out all pairs; no place in the batch is behind the place in the
\* institute, and who has the better mark of the only test is before the other
\* on the roster.
StudentPagesAgree ==
    /\ \A p \in Pupil :
          LET report == AttendanceReport(p)
          IN  /\ report.held = report.present + TopicsMissed(p)
                                 + RowsOf(p, HeldStatus, {"LATE", "PARTIAL"})
              /\ (p \in DOMAIN OutcomePairs /\ \A s \in Slots : lecture[s] # "struck")
                     => OutcomePairs[p].attendance = Ratio(report.present, report.held)
    /\ Cardinality(Bucket(80, 101)) + Cardinality(Bucket(50, 80)) + Cardinality(Bucket(0, 50))
           = Cardinality(DOMAIN OutcomePairs)
    /\ \A e \in Exam : \A order \in TestListings(e) : \A p \in Takers(e) : \A g \in GroupsOf(p) :
          /\ BatchRank(order, p, g) <= InstituteRank(order, p)
          /\ \A roster \in RosterRanks(g) : \A q \in Takers(e) \cap Members(g) :
                (Exam = {e} /\ p \in Members(g) /\ scores[<<q, e>>] < scores[<<p, e>>])
                    => Place(roster, p) < Place(roster, q)

\* What is shown of the standing of the students.
StandingAgrees == SummariesAgree /\ TeachersAgree /\ StudentPagesAgree
=============================================================================
