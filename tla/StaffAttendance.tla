-------------------------- MODULE StaffAttendance --------------------------
(***************************************************************************)
(* The attendance of one member of staff: the punches of the terminals,    *)
(* the day rows made of them or by hand, and everything that reads those   *)
(* rows: the register, the reports, the late fines, the faculty report and *)
(* payroll (attendance/services/staff_daily_service.py,                    *)
(* staff_report_service.py, staff_late_fine_service.py,                    *)
(* staff_faculty_service.py, payroll/services/calc_service.py).            *)
(*                                                                         *)
(* A request reads in one step and commits in another; a commit writes the *)
(* columns it changed, to the rows it read.  A day without a row is absent *)
(* or off: no caller rebuilds a day on which nobody punched.               *)
(***************************************************************************)
EXTENDS Integers, Sequences, FiniteSets, FiniteSetsExt, Functions

CONSTANTS StaffDays,    \* the days of the month
          Weekend,      \* Saturday and Sunday
          WeeklyOff,    \* the days off of the member
          Times,        \* minutes of a day
          OwnShifts,    \* shifts the office may set, from and to
          BranchShift,  \* STAFF_SHIFT_START, STAFF_SHIFT_END
          FineStart,    \* LATE_FINE_WEEKDAY_START
          WeekendFineStart,
          Grace, HalfDayWork,
          Slabs,        \* late_fine_slabs by minutes: from, to and the fine
          Timesheets,   \* lectures that were planned and held, of two teachers
          Hand,         \* the sessions
          MaxPunches    \* bound: punches on record

NoTime == -1
NoShift == <<NoTime, NoTime>>

ASSUME StaffAssumption ==
    /\ Weekend \subseteq StaffDays /\ WeeklyOff \subseteq StaffDays
    /\ IsFiniteSet(StaffDays) /\ IsFiniteSet(Times)
    /\ Times \subseteq Nat /\ OwnShifts \subseteq Times \X Times /\ BranchShift \in Times \X Times
    /\ {FineStart, WeekendFineStart} \subseteq Nat /\ FineStart <= BranchShift[1]
    /\ WeekendFineStart <= BranchShift[1]
    /\ Grace \in Nat /\ HalfDayWork \in Nat
    /\ \A n \in DOMAIN Slabs : Slabs[n] \in Nat \X (Nat \cup {NoTime}) \X Nat
    /\ Timesheets \subseteq Seq([teacher : STRING, actual : STRING, from : Nat, to : Nat,
                                  start : Nat \cup {NoTime}, stop : Nat \cup {NoTime}])

VARIABLES punches,   \* staff_raw_punch_logs: day and minute
          dayRows,   \* staff_daily_attendance, by day
          shift,     \* shift_start, shift_end of the member, or none
          declared,  \* payroll_month_holidays
          sheet,     \* the lectures of the month
          hand,      \* what each session has read and will write
          met,       \* history: two sessions were at work at once
          reshifted  \* history: the shift was changed

staffTables == <<punches, dayRows>>
staffVars == <<staffTables, shift, declared, sheet, hand, met, reshifted>>

NoDayRow == [status |-> "none"]
NoHand == [kind |-> "none"]

StaffInit ==
    /\ punches = {} /\ dayRows = [d \in StaffDays |-> NoDayRow]
    /\ shift \in OwnShifts \cup {NoShift} /\ declared = {} /\ sheet \in Timesheets
    /\ hand = [h \in Hand |-> NoHand] /\ met = FALSE /\ reshifted = FALSE

From == IF shift = NoShift THEN BranchShift[1] ELSE shift[1]
To == IF shift = NoShift THEN BranchShift[2] ELSE shift[2]
AtLeast0(n) == IF n < 0 THEN 0 ELSE n

-----------------------------------------------------------------------------
(* Day rows.                                                                *)

Status(in, out, work) ==
    IF out # NoTime /\ work < HalfDayWork THEN "HALF_DAY"
    ELSE IF in > From + Grace THEN "LATE" ELSE "PRESENT"

\* _classify, of a day with punches: the first is in, the last is out.
Classify(times) ==
    LET in   == Min(times)
        out  == IF Cardinality(times) > 1 THEN Max(times) ELSE NoTime
        work == IF out = NoTime THEN 0 ELSE out - in
    IN  [in |-> in, out |-> out, work |-> work, status |-> Status(in, out, work),
         signoff |-> IF out = NoTime THEN "MISSING" ELSE "COMPLETE",
         ot |-> IF out = NoTime THEN 0 ELSE AtLeast0(out - To),
         source |-> "BIOMETRIC", by |-> FALSE]

\* manual_mark; the overtime of the row stays.
ByHand(in, out, was) ==
    LET work == IF out = NoTime THEN 0 ELSE out - in
    IN  [in |-> in, out |-> out, work |-> work, status |-> Status(in, out, work),
         signoff |-> IF out = NoTime THEN "MISSING" ELSE "COMPLETE",
         ot |-> IF was = NoDayRow THEN 0 ELSE was.ot,
         source |-> "MANUAL", by |-> TRUE]

Take(h, work) ==
    /\ hand[h] = NoHand
    /\ hand' = [hand EXCEPT ![h] = work]
    /\ met' = (met \/ \E g \in Hand : hand[g] # NoHand)
    /\ UNCHANGED <<staffTables, shift, declared, sheet, reshifted>>

\* Mutation: a row entered by hand is rebuilt like any other.
RebuiltAnyway(d, times) == Classify(times)

\* rebuild_daily: "human edit wins".
RebuiltRow(d, times) ==
    IF dayRows[d] # NoDayRow /\ dayRows[d].source = "MANUAL" THEN dayRows[d]
    ELSE [Classify(times) EXCEPT !.by = dayRows[d] # NoDayRow /\ dayRows[d].by]

TimesOn(d, log) == {p[2] : p \in {q \in log : q[1] = d}}

\* rebuild, of the days a batch of punches touched.
BeginPunches(h, new) ==
    LET days == {p[1] : p \in new}
    IN  /\ new # {} /\ new \cap punches = {} /\ Cardinality(punches \cup new) <= MaxPunches
        /\ Take(h, [kind |-> "punches", punches |-> new,
                    was |-> [d \in days |-> dayRows[d]],
                    new |-> [d \in days |-> RebuiltRow(d, TimesOn(d, punches \cup new))]])

BeginMark(h, d, in, out) ==
    /\ out = NoTime \/ out > in
    /\ Take(h, [kind |-> "mark", punches |-> {},
                was |-> [x \in {d} |-> dayRows[d]], new |-> [x \in {d} |-> ByHand(in, out, dayRows[d])]])

\* Two sessions that insert one day meet at the unique key: one of them fails.
Collides(w) == \E d \in DOMAIN w.was : w.was[d] = NoDayRow /\ dayRows[d] # NoDayRow
WrittenRow(was, new, now) ==
    IF was = NoDayRow THEN new
    ELSE [c \in DOMAIN now |-> IF was[c] = new[c] THEN now[c] ELSE new[c]]

CommitHand(h) ==
    LET w == hand[h]
    IN  /\ w # NoHand
        /\ hand' = [hand EXCEPT ![h] = NoHand]
        /\ IF Collides(w) THEN UNCHANGED staffTables
           ELSE /\ punches' = punches \cup w.punches
                /\ dayRows' = [d \in StaffDays |->
                       IF d \in DOMAIN w.new THEN WrittenRow(w.was[d], w.new[d], dayRows[d])
                       ELSE dayRows[d]]
        /\ UNCHANGED <<shift, declared, sheet, met, reshifted>>

\* update_staff; no row is rebuilt for it.
SetShift(new) ==
    /\ new # shift /\ shift' = new /\ reshifted' = TRUE
    /\ UNCHANGED <<staffTables, declared, sheet, hand, met>>

\* add_holiday and remove_holiday of payroll.
Declare(days) ==
    /\ declared' = days
    /\ UNCHANGED <<staffTables, shift, sheet, hand, met, reshifted>>

StaffNext ==
    \/ \E h \in Hand : \/ \E new \in SUBSET (StaffDays \X Times) : BeginPunches(h, new)
                       \/ \E d \in StaffDays, in \in Times, out \in Times \cup {NoTime} :
                              BeginMark(h, d, in, out)
                       \/ CommitHand(h)
    \/ \E new \in OwnShifts \cup {NoShift} : SetShift(new)
    \/ \E days \in SUBSET StaffDays : Declare(days)

StaffSpec == StaffInit /\ [][StaffNext]_staffVars

-----------------------------------------------------------------------------
(* What is read off the rows.                                               *)

HasRow(d) == dayRows[d] # NoDayRow
Attended == {"PRESENT", "LATE", "HALF_DAY"}
Worked(d) == HasRow(d) /\ dayRows[d].status \in Attended

\* day_register
Register(d) == IF HasRow(d) THEN dayRows[d].status ELSE IF d \in WeeklyOff THEN "WO" ELSE "ABSENT"

\* _match, the rows of the list reports.
Listed(kind) ==
    {d \in StaffDays :
        IF ~ HasRow(d) THEN kind = "absent" /\ d \notin WeeklyOff
        ELSE LET r == dayRows[d] IN
             CASE kind = "present"   -> r.status \in Attended
               [] kind = "absent"    -> r.status = "ABSENT"
               [] kind = "late_in"   -> r.status = "LATE"
               [] kind = "half_day"  -> r.status = "HALF_DAY"
               [] kind = "over_time" -> r.ot > 0
               [] kind = "mis_punch" -> r.signoff = "MISSING"
               [] kind = "in_out"    -> r.in # NoTime
               [] kind = "early_in"  -> r.in # NoTime /\ r.in < From
               [] kind = "early_out" -> r.out # NoTime /\ r.out < To - Grace
               [] kind = "short_performance" ->
                      r.status \in Attended /\ r.work > 0 /\ r.work < Max({1, To - From})}

\* _datewise_code: a declared holiday is one, but for who was there.
DayCode(d) ==
    IF d \in declared /\ ~ Worked(d) THEN "HL"
    ELSE IF ~ HasRow(d) THEN (IF d \in WeeklyOff THEN "WO" ELSE "A")
    ELSE CASE dayRows[d].status = "PRESENT" -> "P"
           [] dayRows[d].status = "LATE" -> "L"
           [] dayRows[d].status = "HALF_DAY" -> "HD"
DatewiseTotal(code) == Cardinality({d \in StaffDays : DayCode(d) = code})

\* Mutation: a declared holiday is one for who was there, too.
PerformanceOfCalendar == [holiday |-> declared, present |-> {d \in StaffDays : Worked(d)} \ declared,
    wo |-> (StaffDays \ declared) \cap {d \in WeeklyOff : ~ HasRow(d)},
    absent |-> {d \in StaffDays \ (declared \cup WeeklyOff) : ~ HasRow(d)}]

\* generate, the performance grid: which days are counted as what.
Performance ==
    LET holiday == {d \in declared : ~ Worked(d)}
        rest == StaffDays \ holiday
    IN  [holiday |-> holiday,
         present |-> {d \in rest : Worked(d)},
         wo |-> {d \in rest : ~ HasRow(d) /\ d \in WeeklyOff},
         absent |-> {d \in rest : ~ HasRow(d) /\ d \notin WeeklyOff}]

\* Late fines, by the first slab that has the minutes.
StartForDay(d) ==
    IF shift # NoShift THEN shift[1] ELSE IF d \in Weekend THEN WeekendFineStart ELSE FineStart
LateMinutes(d) == AtLeast0(dayRows[d].in - StartForDay(d))
FineFor(minutes) ==
    LET fits == {n \in DOMAIN Slabs : minutes >= Slabs[n][1]
                                      /\ (Slabs[n][2] = NoTime \/ minutes <= Slabs[n][2])}
    IN  IF minutes = 0 \/ fits = {} THEN 0 ELSE Slabs[Min(fits)][3]
Fined == {d \in StaffDays : HasRow(d) /\ FineFor(LateMinutes(d)) > 0}
\* compute_month: half days worked and credited, holidays once.
PresentHalves ==
    SumFunction([d \in {e \in StaffDays : Worked(e)} |->
                    IF dayRows[d].status = "HALF_DAY" THEN 1 ELSE 2])
CreditedHolidays == {d \in declared : ~ Worked(d)}

\* _lecture_stats: a lecture is that of who gave it, if anybody is on record.
Given(t) == {n \in DOMAIN sheet : IF sheet[n].actual = "none" THEN sheet[n].teacher = t
                                                             ELSE sheet[n].actual = t}
Lost(l) == IF l.start = NoTime THEN 0 ELSE AtLeast0(l.start - l.from)
FacultyStats(t) ==
    LET held == {n \in Given(t) : sheet[n].start # NoTime}
        late == {n \in held : sheet[n].start > sheet[n].from}
    IN  [total |-> Cardinality(Given(t)), delayed |-> Cardinality(late),
         onTime |-> Cardinality(held \ late),
         scheduled |-> SumFunction([n \in Given(t) |-> sheet[n].to - sheet[n].from]),
         effective |-> SumFunction([n \in Given(t) |->
             IF sheet[n].start = NoTime \/ sheet[n].stop = NoTime THEN 0
             ELSE AtLeast0(sheet[n].stop - sheet[n].start)]),
         lost |-> SumFunction([n \in Given(t) |-> Lost(sheet[n])])]

-----------------------------------------------------------------------------
(* Properties.                                                              *)

StaffTypeOK ==
    /\ punches \subseteq StaffDays \X Times /\ declared \subseteq StaffDays
    /\ \A d \in StaffDays : HasRow(d) =>
          /\ dayRows[d].status \in Attended /\ dayRows[d].source \in {"BIOMETRIC", "MANUAL"}
          /\ dayRows[d].work \in Nat /\ dayRows[d].ot \in Nat

\* However batches of punches arrive, the row of a day tells its first and last
\* punch, unless it was entered by hand or sessions met.
RowsTellPunches ==
    met \/ \A d \in StaffDays :
        LET times == TimesOn(d, punches)
        IN  IF ~ HasRow(d) THEN times = {}
            ELSE dayRows[d].source = "BIOMETRIC" =>
                /\ dayRows[d].in = Min(times)
                /\ dayRows[d].out = IF Cardinality(times) = 1 THEN NoTime ELSE Max(times)

\* The grid, the date-wise sheet, the lists, the register and payroll tell one
\* story of every day, whatever is declared a holiday before or after.
StaffReportsAgree ==
    LET worked == {d \in StaffDays : Worked(d)}
    IN  /\ worked = Performance.present /\ worked = Listed("present")
        /\ DatewiseTotal("P") + DatewiseTotal("L") + DatewiseTotal("HD") = Cardinality(worked)
        /\ DatewiseTotal("A") = Cardinality(Performance.absent)
        /\ DatewiseTotal("HL") = Cardinality(Performance.holiday)
        /\ DatewiseTotal("HL") = Cardinality(CreditedHolidays)
        /\ Performance.absent = Listed("absent") \ declared
        /\ \A d \in StaffDays \ declared : Register(d) \in {"WO", "ABSENT"} <=> ~ Worked(d)
        /\ PresentHalves = 2 * Cardinality(worked) - Cardinality(Listed("half_day"))

\* Who is late on the register is fined as late, as long as the shift is the one
\* the rows were made with and sessions did not meet.
LateIsFined == met \/ reshifted \/ Listed("late_in") \subseteq Fined

\* Every lecture is one teacher's, of who gave it, and is delayed exactly when
\* minutes were lost.
LecturesCredited ==
    LET teachers == UNION {{sheet[n].teacher, sheet[n].actual} : n \in DOMAIN sheet}
    IN  /\ SumFunction([t \in teachers |-> FacultyStats(t).total]) = Len(sheet)
        /\ \A t \in teachers :
              /\ FacultyStats(t).delayed > 0 <=> FacultyStats(t).lost > 0
              /\ FacultyStats(t).delayed + FacultyStats(t).onTime <= FacultyStats(t).total

\* What the office reads of the month is sound (the four above).
StaffRecordsSound == LecturesCredited /\ RowsTellPunches /\ StaffReportsAgree /\ LateIsFined

\* While sessions do not meet, only another mark changes what was entered by
\* hand.
MarkedByHandStays ==
    \A d \in StaffDays :
        (HasRow(d) /\ dayRows[d].source = "MANUAL" /\ dayRows'[d] # dayRows[d] /\ ~ met) =>
            \E h \in Hand : hand[h].kind = "mark" /\ hand'[h] = NoHand
=============================================================================
