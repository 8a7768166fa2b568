------------------------------- MODULE Registers -------------------------------
(***************************************************************************)
(* The attendance of the students over days and what is reported of it     *)
(* (the second half of attendance/services/daily_service.py and            *)
(* attendance_report_service.py): the classroom register, the matrix of a  *)
(* batch, the summaries, the board of defaulters, the roster's percentage, *)
(* the ledger and the turnout of a lecture.                                *)
(*                                                                         *)
(* How a day row comes about is the matter of DailyAttendance; here it is  *)
(* written as a whole.  A percentage is kept as its two counts, and the    *)
(* range of a report is all of SchoolDays.                                 *)
(***************************************************************************)
EXTENDS Integers, FiniteSets, FiniteSetsExt, Functions

CONSTANTS Pupil, Group, SchoolDays,
          Slots,       \* the lectures that may be planned: <<group, day>>
          Rolls,       \* the sets of pairs <<pupil, group>> the office enters
          Threshold    \* percent: below it a student is a defaulter

ASSUME RegistersAssumption ==
    /\ IsFiniteSet(Pupil) /\ IsFiniteSet(Group) /\ IsFiniteSet(SchoolDays)
    /\ SchoolDays \subseteq Nat /\ Slots \subseteq Group \X SchoolDays
    /\ \A r \in Rolls : r \subseteq Pupil \X Group
    /\ Threshold \in 0 .. 100

VARIABLES roll,     \* student_batch_mappings
          gone,     \* the students that were deleted; their mappings stay
          lecture,  \* lectures: of each slot; "struck" once it was held and deleted
          dayRow    \* daily_attendance: day_status of a student and a day

registersVars == <<roll, gone, lecture, dayRow>>

SlotStatus == {"none", "scheduled", "completed", "struck"}
DayStatus == {"PRESENT", "LATE", "ABSENT"}
CameIn == {"PRESENT", "LATE"}

RegistersInit ==
    /\ roll \in Rolls /\ gone = {}
    /\ lecture = [s \in Slots |-> "none"]
    /\ dayRow = [x \in Pupil \X SchoolDays |-> "none"]

-----------------------------------------------------------------------------
(* What happens.                                                            *)

Planned(s) == lecture[s] \in {"scheduled", "completed"}
Members(g) == {p \in Pupil \ gone : <<p, g>> \in roll}
GroupsOf(p) == {g \in Group : <<p, g>> \in roll}

\* A punch, a rebuild or a mark by hand.
WriteDay(p, d, status) ==
    /\ p \notin gone /\ dayRow[<<p, d>>] # status
    /\ dayRow' = [dayRow EXCEPT ![<<p, d>>] = status]
    /\ UNCHANGED <<roll, gone, lecture>>

\* run_absent_sweep: the students of the batches that have a lecture that day.
SweepDay(d) ==
    LET expected == UNION {Members(g) : g \in {h \in Group : <<h, d>> \in Slots /\ Planned(<<h, d>>)}}
        missing == {p \in expected : dayRow[<<p, d>>] = "none"}
    IN  /\ missing # {}
        /\ dayRow' = [x \in DOMAIN dayRow |->
                         IF x[1] \in missing /\ x[2] = d THEN "ABSENT" ELSE dayRow[x]]
        /\ UNCHANGED <<roll, gone, lecture>>

\* A lecture is planned, held, or deleted.
PlanSlot(s, status) ==
    /\ <<lecture[s], status>> \in
           {<<"none", "scheduled">>, <<"scheduled", "completed">>,
            <<"scheduled", "none">>, <<"completed", "struck">>}
    /\ lecture' = [lecture EXCEPT ![s] = status]
    /\ UNCHANGED <<roll, gone, dayRow>>

\* The office moves students between batches.
Regroup(r) ==
    /\ r # roll /\ roll' = r
    /\ UNCHANGED <<gone, lecture, dayRow>>

\* delete_student
DeletePupil(p) ==
    /\ p \notin gone /\ gone' = gone \cup {p}
    /\ UNCHANGED <<roll, lecture, dayRow>>

RegistersNext ==
    \/ \E p \in Pupil, d \in SchoolDays, status \in DayStatus : WriteDay(p, d, status)
    \/ \E d \in SchoolDays : SweepDay(d)
    \/ \E s \in Slots, status \in SlotStatus : PlanSlot(s, status)
    \/ \E r \in Rolls : Regroup(r)
    \/ \E p \in Pupil : DeletePupil(p)

-----------------------------------------------------------------------------
(* The reports.                                                             *)

PresentOn(p) == {d \in SchoolDays : dayRow[<<p, d>>] \in CameIn}

\* _batch_working_dates
Scheduled(g) == {d \in SchoolDays : <<g, d>> \in Slots /\ Planned(<<g, d>>)}

\* batch_matrix: the days with a lecture and those a member came in.
MatrixColumns(g) == Scheduled(g) \cup UNION {PresentOn(p) : p \in Members(g)}

\* _status_code; a day without a row is an absence.
Cell(p, d) ==
    CASE dayRow[<<p, d>>] = "PRESENT" -> "P"
      [] dayRow[<<p, d>>] = "LATE" -> "L"
      [] OTHER -> "A"

Matrix(g) ==
    LET dates == MatrixColumns(g)
        came(p, d) == Cell(p, d) \in {"P", "L"}
    IN  [working |-> Cardinality(dates),
         cells |-> [x \in Members(g) \X dates |-> Cell(x[1], x[2])],
         present |-> [p \in Members(g) |-> Cardinality({d \in dates : came(p, d)})],
         dayPresent |-> [d \in dates |-> Cardinality({p \in Members(g) : came(p, d)})]]

\* classroom_register and the tiles of the day report.
Mark(p, d) == IF dayRow[<<p, d>>] \in CameIn THEN "P" ELSE "A"
DayCounts(g, d) ==
    [total |-> Cardinality(Members(g)),
     present |-> Cardinality({p \in Members(g) : Mark(p, d) = "P"})]

\* biometric_daily_batch_counts
DailyBatchCounts(g) ==
    LET matrix == Matrix(g)
        enrolled == Cardinality(Members(g))
    IN  [d \in DOMAIN matrix.dayPresent |->
            [enrolled |-> enrolled, present |-> matrix.dayPresent[d],
             absent |-> enrolled - matrix.dayPresent[d]]]

\* The totals of the sheet of a batch: present, late, absent.
SheetTotals(g) ==
    LET matrix == Matrix(g)
        count(p, c) == Cardinality({x \in DOMAIN matrix.cells : x[1] = p /\ matrix.cells[x] = c})
    IN  [p \in Members(g) |->
            [present |-> count(p, "P"), late |-> count(p, "L"),
             absent |-> matrix.working - matrix.present[p]]]

Summed(f) == FoldFunction(+, 0, f)

\* branch_summary, of one batch.
SummaryRow(g) ==
    LET matrix == Matrix(g)
    IN  [students |-> Cardinality(Members(g)), working |-> matrix.working,
         present |-> Summed(matrix.present),
         slots |-> Cardinality(Members(g)) * matrix.working]

\* branch_defaulters: a day of two batches counts twice.
BoardRow(p) ==
    LET of == {g \in GroupsOf(p) : p \in Members(g)}
    IN  [present |-> Summed([g \in of |-> Matrix(g).present[p]]),
         working |-> Summed([g \in of |-> Matrix(g).working])]
Below(row) == row.working > 0 /\ 100 * row.present < Threshold * row.working
Defaulters == {p \in Pupil \ gone : Below(BoardRow(p))}

\* monthly_summary and branch_roster_attendance: of the days with a lecture for
\* one of the student's batches.
MonthlySummary(p) ==
    LET working == UNION {Scheduled(g) : g \in GroupsOf(p)}
    IN  [working |-> Cardinality(working), present |-> Cardinality(working \cap PresentOn(p))]
RosterAttendance ==
    [p \in {q \in Pupil \ gone : MonthlySummary(q).working > 0} |-> MonthlySummary(p)]

\* daily_ledger and student_timeline.
Timeline(p) == {d \in SchoolDays : dayRow[<<p, d>>] # "none"}
DayLedger == {x \in DOMAIN dayRow : dayRow[x] # "none" /\ x[1] \notin gone}

\* teacher_turnout_in_range, of one lecture; who left the institute still counts.
Turnout ==
    LET members(s) == {p \in Pupil : <<p, s[1]>> \in roll}
        held == {s \in Slots : lecture[s] = "completed" /\ members(s) # {}}
    IN  [s \in held |-> [roster |-> Cardinality(members(s)),
                         present |-> Cardinality({p \in members(s) : s[2] \in PresentOn(p)})]]

-----------------------------------------------------------------------------
(* The documents (attendance_report_service.py); a PDF and a workbook of one *)
(* document carry the same figures.                                         *)

\* student_report: the head is the summary, the lines are the day rows.
StudentReport(p) ==
    [head |-> MonthlySummary(p), lines |-> [d \in Timeline(p) |-> dayRow[<<p, d>>]]]

\* batch_month_grid_report: "an empty file is never generated".
NotFound == [working |-> 0]
MonthGrid(g) ==
    IF Members(g) = {} \/ MatrixColumns(g) = {} THEN NotFound ELSE Matrix(g)

\* day_report: a label for everybody, and the tiles.
DayLabel(p, d) ==
    CASE dayRow[<<p, d>>] = "LATE" -> "Late"
      [] dayRow[<<p, d>>] = "PRESENT" -> "Present"
      [] OTHER -> "Absent"
DayReport(g, d) ==
    [tiles |-> DayCounts(g, d), lines |-> [p \in Members(g) |-> DayLabel(p, d)]]

\* daywise_batchwise_report: a line for each day and batch.
DaywiseBatchwise ==
    [x \in {y \in SchoolDays \X Group : y[1] \in DOMAIN DailyBatchCounts(y[2])} |->
        DailyBatchCounts(x[2])[x[1]]]

\* all_batches_report: a line and a sheet for each batch.
AllBatches == [g \in Group |-> [line |-> SummaryRow(g), sheet |-> SheetTotals(g)]]

\* daily_ledger_report
LedgerReport ==
    [students |-> Cardinality({x[1] : x \in DayLedger}), records |-> Cardinality(DayLedger)]

-----------------------------------------------------------------------------
(* Properties.                                                              *)

RegistersTypeOK ==
    /\ roll \in Rolls /\ gone \subseteq Pupil
    /\ lecture \in [Slots -> SlotStatus]
    /\ dayRow \in [Pupil \X SchoolDays -> DayStatus \cup {"none"}]

\* The matrix, its sheet, the counts by day, the summary and the register of a
\* day tell one story, and "a real punch is never hidden": on a day without a
\* column nobody of the batch was present.
MatrixAgrees ==
    \A g \in Group :
        LET matrix == Matrix(g)
            sheet == SheetTotals(g)
            counts == DailyBatchCounts(g)
        IN  /\ Summed(matrix.dayPresent) = SummaryRow(g).present
            /\ SummaryRow(g).present <= SummaryRow(g).slots
            /\ \A p \in Members(g) :
                  /\ sheet[p].present + sheet[p].late = matrix.present[p]
                  /\ sheet[p].absent >= 0
            /\ \A d \in SchoolDays :
                  DayCounts(g, d).present = IF d \in DOMAIN counts THEN counts[d].present ELSE 0
            /\ \A x \in DOMAIN matrix.cells : matrix.cells[x] # "A" => x \in DayLedger

\* The board "surfaces the eligibility rule": nobody stands on it who came on
\* every day of the batches' matrices, and everybody who never came does; who has
\* one batch that met on scheduled days only is judged by the roster's figure.
BoardAgrees ==
    \A p \in Pupil \ gone :
        LET row == BoardRow(p)
            usual == /\ Cardinality(GroupsOf(p)) = 1
                     /\ \A g \in GroupsOf(p) : MatrixColumns(g) = Scheduled(g)
        IN  /\ row.present = row.working => p \notin Defaulters
            /\ (row.present = 0 /\ row.working > 0 /\ Threshold > 0) => p \in Defaulters
            /\ usual => /\ p \in DOMAIN RosterAttendance <=> row.working > 0
                        /\ p \in DOMAIN RosterAttendance => RosterAttendance[p] = row
            /\ MonthlySummary(p).present <= Cardinality(Timeline(p))
            /\ MonthlySummary(p).present <= row.present

\* The turnout of a lecture is the count of its day, for a batch nobody left.
TurnoutAgrees ==
    \A s \in DOMAIN Turnout :
        /\ Turnout[s].present >= DayCounts(s[1], s[2]).present
        /\ (\A p \in gone : s[1] \notin GroupsOf(p))
              => /\ Turnout[s].present = DayCounts(s[1], s[2]).present
                 /\ Turnout[s].roster = DayCounts(s[1], s[2]).total

\* The documents of one range can be laid side by side: the lines of a student
\* bear his head out, those of a day its tiles, the lines by day the sheets of
\* the batches, and the records of the ledger are those of the students' lines.
DocumentsAgree ==
    /\ \A p \in Pupil \ gone :
          LET report == StudentReport(p)
              came == {d \in DOMAIN report.lines : report.lines[d] \in CameIn}
          IN  /\ report.head.present <= Cardinality(came)
              /\ (\A g \in GroupsOf(p) : MatrixColumns(g) = Scheduled(g)) /\ GroupsOf(p) # {}
                     => report.head.present = Cardinality(came)
    /\ \A g \in Group, d \in SchoolDays :
          DayReport(g, d).tiles.present
              = Cardinality({p \in Members(g) : DayReport(g, d).lines[p] # "Absent"})
    /\ \A g \in Group :
          Summed([d \in {e \in SchoolDays : <<e, g>> \in DOMAIN DaywiseBatchwise} |->
                     DaywiseBatchwise[<<d, g>>].absent])
              = Summed([p \in Members(g) |-> AllBatches[g].sheet[p].absent])
    /\ \A g \in Group : MonthGrid(g).working = 0 <=> AllBatches[g].line.slots = 0
    /\ LedgerReport.records
           = Summed([p \in Pupil \ gone |-> Cardinality(DOMAIN StudentReport(p).lines)])
    /\ LedgerReport.students
           = Cardinality({p \in Pupil \ gone : DOMAIN StudentReport(p).lines # {}})

\* What is reported of the days.
RegistersAgree == MatrixAgrees /\ BoardAgrees /\ TurnoutAgrees /\ DocumentsAgree
=============================================================================
