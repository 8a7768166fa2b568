----------------------------- MODULE StaffPortal -----------------------------
(***************************************************************************)
(* What a teacher is shown of his own days (teacher_portal/services:       *)
(* portal_service.py, productivity_service.py, wof_service.py) and what    *)
(* the office prints of them (staff_report_service.py,                     *)
(* staff_export_service.py, the summaries of staff_faculty_service.py).    *)
(* Everything is read off the tables of StaffAttendance, at a day "today"  *)
(* that may be closed or not; half days are counted as halves.             *)
(***************************************************************************)
EXTENDS StaffAttendance

CONSTANTS UtcShift, DayLength,  \* minutes the branch is ahead of UTC; of a day
          BucketDays,    \* days of a bucket of the month's chart
          StaffMonths,   \* the days of each month
          WofRequired    \* wof_required_days, in halves

ASSUME PortalAssumption ==
    /\ UtcShift \in 0 .. DayLength /\ BucketDays \in Nat \ {0} /\ WofRequired \in Nat
    /\ \A m \in DOMAIN StaffMonths : StaffMonths[m] \subseteq StaffDays

Total(f(_), S) == MapThenSumSet(f, S)
Elapsed(today) == {d \in StaffDays : d <= today}

-----------------------------------------------------------------------------
(* The portal.                                                              *)

\* _fine_visible
FineVisible(mode, d, today, closed) == mode = "realtime" \/ d < today \/ (d = today /\ closed)

FineOf(d) == IF HasRow(d) THEN FineFor(LateMinutes(d)) ELSE 0
FinesShown(mode, today, closed) ==
    Total(FineOf, {d \in Elapsed(today) : FineVisible(mode, d, today, closed)})

\* day: the fine is shown or not, nobody without a punch is late.
MyDay(mode, d, today, closed) ==
    [status |-> IF HasRow(d) THEN dayRows[d].status ELSE "ABSENT",
     late |-> IF HasRow(d) THEN LateMinutes(d) ELSE NoTime,
     visible |-> FineVisible(mode, d, today, closed),
     amount |-> IF HasRow(d) /\ FineVisible(mode, d, today, closed)
                THEN FineOf(d) ELSE NoTime]

\* _lectures_for_day
Chip(l) ==
    IF l.start = NoTime THEN "scheduled" ELSE IF l.start > l.from THEN "delayed" ELSE "on_time"

\* attendance: a row comes first, then the holidays of the timetable, then the
\* days off.
ScreenCode(d, off) ==
    IF HasRow(d) THEN (CASE dayRows[d].status = "PRESENT" -> "P"
                         [] dayRows[d].status = "LATE" -> "L"
                         [] dayRows[d].status = "HALF_DAY" -> "HD")
    ELSE IF d \in off THEN "HL" ELSE IF d \in WeeklyOff THEN "WO" ELSE "A"
Screen(mode, off, today, closed) ==
    LET of(codes) == Cardinality({d \in Elapsed(today) : ScreenCode(d, off) \in codes})
    IN  [present |-> of({"P", "L"}), late |-> of({"L"}), half |-> of({"HD"}),
         absent |-> of({"A"}), weeklyOff |-> of({"WO"}), holiday |-> of({"HL"}),
         fine |-> FinesShown(mode, today, closed)]

\* month_summary: whoever has no row was absent, also on a day off.
MonthSummaryOf(mode, today, closed) ==
    LET of(statuses) == {d \in Elapsed(today) : HasRow(d) /\ dayRows[d].status \in statuses}
        late == {d \in Elapsed(today) : HasRow(d) /\ LateMinutes(d) > 0}
    IN  [present |-> Cardinality(of({"PRESENT", "LATE"})), half |-> Cardinality(of({"HALF_DAY"})),
         absent |-> Cardinality({d \in Elapsed(today) : ~ HasRow(d)}),
         lateCount |-> Cardinality(late), fine |-> FinesShown(mode, today, closed)]

\* _buckets: the days of the chart of a week, of a month, of a year.
Buckets(range, today) ==
    CASE range = "week" -> {{d} : d \in Elapsed(today) \cap (today - 6 .. today)}
      [] range = "month" -> {Elapsed(today) \cap (n .. n + BucketDays - 1) :
                                n \in {d \in Elapsed(today) : (d - 1) % BucketDays = 0}}
      [] range = "year" -> {Elapsed(today) \cap StaffMonths[m] :
                                m \in {k \in DOMAIN StaffMonths :
                                          Elapsed(today) \cap StaffMonths[k] # {}}}

\* _attendance of productivity_service: who comes late is told from the time of
\* the punch in UTC, and a half day is not a present day.
UtcLate(d) == AtLeast0(((dayRows[d].in - UtcShift) % DayLength) - StartForDay(d))
BucketFigures(days) ==
    LET rows == {d \in days : HasRow(d)}
    IN  [present |-> Cardinality({d \in rows : dayRows[d].status \in {"PRESENT", "LATE"}}),
         absent |-> Cardinality({d \in rows : dayRows[d].status = "ABSENT"}),
         lateCount |-> Cardinality({d \in rows : UtcLate(d) > 0}),
         lateMinutes |-> Total(UtcLate, rows)]
Productivity(range, today) ==
    LET sum(c) == MapThenSumSet(LAMBDA b : BucketFigures(b)[c], Buckets(range, today))
    IN  [c \in {"present", "absent", "lateCount", "lateMinutes"} |-> sum(c)]

\* _months_after, _present_days and balance: whole months after that of the
\* opening balance, and never the running one.
MonthsAfter(opened, running) == {m \in DOMAIN StaffMonths : opened < m /\ m < running}
PresentHalvesIn(m) ==
    MapThenSumSet(LAMBDA d : IF dayRows[d].status = "HALF_DAY" THEN 1 ELSE 2,
                  {d \in StaffMonths[m] : Worked(d)})
WofAccrued(opened, running) ==
    MapThenSumSet(LAMBDA m : AtLeast0(PresentHalvesIn(m) - WofRequired),
                  MonthsAfter(opened, running))

\* list_wof and wof_report, of one teacher; no line without an opening balance.
WofLine(opening, opened, running) ==
    [opening |-> opening, earned |-> WofAccrued(opened, running),
     current |-> opening + WofAccrued(opened, running)]

-----------------------------------------------------------------------------
(* The documents of the office.                                             *)

\* generate, the grid: the line over the cells of a member.
GridHead ==
    [present |-> Cardinality(Performance.present), absent |-> Cardinality(Performance.absent),
     wo |-> Cardinality(Performance.wo), holiday |-> Cardinality(Performance.holiday),
     workOt |-> MapThenSumSet(LAMBDA d : dayRows[d].work + dayRows[d].ot, Performance.present)]
GridCell(d) ==
    IF d \in Performance.holiday THEN "HOLIDAY"
    ELSE IF ~ HasRow(d) THEN (IF d \in WeeklyOff THEN "WO" ELSE "ABSENT") ELSE dayRows[d].status

\* generate, a list: who entered a row by hand is named.
ListLine(d) ==
    [day |-> d, status |-> IF HasRow(d) THEN dayRows[d].status ELSE "ABSENT",
     entry |-> IF HasRow(d) THEN dayRows[d].source ELSE "",
     markedBy |-> HasRow(d) /\ dayRows[d].source = "MANUAL" /\ dayRows[d].by]
ListReport(kind) == {ListLine(d) : d \in Listed(kind)}

\* datewise: a code for each day, and a total for each code.
DatewiseRow ==
    [cells |-> [d \in StaffDays |-> DayCode(d)],
     totals |-> [c \in {"P", "A", "HD", "L", "HL", "WO"} |-> DatewiseTotal(c)]]

\* daily_report and summary_data of the faculty report.
FacultyDay(t, d) ==
    [in |-> IF HasRow(d) THEN dayRows[d].in ELSE NoTime,
     minutes |-> IF HasRow(d) THEN dayRows[d].work ELSE 0, stats |-> FacultyStats(t)]
FacultyRow(t) ==
    [present |-> Cardinality({d \in StaffDays : Worked(d)}), lectures |-> FacultyStats(t).total,
     scheduled |-> FacultyStats(t).scheduled, delivered |-> FacultyStats(t).effective]

-----------------------------------------------------------------------------
(* Properties.                                                              *)

LastDay == Max(StaffDays)
Modes == {"realtime", "after_day_close"}

\* The screens of a teacher agree: the fines of the month are those of the
\* screen and of the days one by one, none is shown of a day that is not closed,
\* and the charts of any range that covers the days share out the same days.
ScreensAgree ==
    \A today \in StaffDays :
        LET month == MonthSummaryOf("realtime", today, TRUE)
            charts == {Productivity(range, today) : range \in {"week", "month", "year"}}
        IN  /\ Cardinality(charts) = 1 /\ \A chart \in charts : chart.present = month.present
            /\ \A mode \in Modes, closed \in BOOLEAN :
                  LET screen == Screen(mode, declared, today, closed)
                  IN  /\ MonthSummaryOf(mode, today, closed)
                             = [month EXCEPT !.fine = screen.fine]
                      /\ screen.fine <= month.fine
                      /\ month.present = screen.present /\ month.half = screen.half
                      /\ month.absent = screen.absent + screen.weeklyOff + screen.holiday
                      /\ (mode = "after_day_close" /\ ~ closed) =>
                             MyDay(mode, today, today, closed).amount = NoTime
            /\ \A d \in Elapsed(today) :
                  MyDay("realtime", d, today, TRUE).late > 0 => month.lateCount > 0

\* The teacher reads what the office reads: on the last day his screen has the
\* counts of the office's grid and sheet, his fines those of the late fines,
\* and his lectures the chips of the faculty report; what is entered by hand is
\* named so.
OfficeAgrees ==
    LET screen == Screen("realtime", declared, LastDay, TRUE)
        lectures(t, chip) == Cardinality({n \in Given(t) : Chip(sheet[n]) = chip})
    IN  /\ screen.present + screen.half = GridHead.present
        /\ screen.absent = GridHead.absent /\ screen.absent = DatewiseRow.totals["A"]
        /\ screen.weeklyOff = GridHead.wo /\ screen.weeklyOff = DatewiseRow.totals["WO"]
        /\ screen.holiday = GridHead.holiday
        /\ \A d \in StaffDays : (ScreenCode(d, declared) = "HL") <=> (GridCell(d) = "HOLIDAY")
        /\ \A d \in StaffDays : DatewiseRow.cells[d] = ScreenCode(d, declared)
        /\ screen.fine = Total(FineOf, Fined)
        /\ \A t \in UNION {{sheet[n].teacher} : n \in DOMAIN sheet} :
              /\ FacultyStats(t).delayed = lectures(t, "delayed")
              /\ FacultyStats(t).onTime = lectures(t, "on_time")
              /\ FacultyRow(t).present = GridHead.present
              /\ Total(LAMBDA d : FacultyDay(t, d).minutes, StaffDays) <= GridHead.workOt
        /\ \A line \in ListReport("present") : line.entry = "MANUAL" <=> line.markedBy

\* Banked leave is earned by days worked, once: no later opening earns more, the
\* running month earns nothing yet, and what all months earn is of present days.
WofSound ==
    \A opened \in 0 .. Len(StaffMonths), running \in 1 .. Len(StaffMonths) + 1 :
        /\ WofLine(0, opened, running).current <= PresentHalves
        /\ \A later \in opened .. Len(StaffMonths) :
              WofAccrued(later, running) <= WofAccrued(opened, running)
        /\ (opened < running /\ running <= Len(StaffMonths)) =>
              WofAccrued(opened, running + 1) - WofAccrued(opened, running)
                  = AtLeast0(PresentHalvesIn(running) - WofRequired)

\* What teachers and the office are shown of the same days.
PortalAgrees == ScreensAgree /\ OfficeAgrees /\ WofSound
=============================================================================
