------------------------------ MODULE MCSchool ------------------------------
(***************************************************************************)
(* Payroll, tests, enrolment, the days of a member of staff and those of    *)
(* the students, each on an instance of its own.  A behaviour stays with    *)
(* one "subject":                                                          *)
(*   "payroll"   two months of one staff member (see MCPayroll);           *)
(*   "marks"     the marks of two students by sheets, by hand and by       *)
(*               review, with examiners overlapping;                       *)
(*   "answers"   a paper, its questions and the answers students gave;     *)
(*   "test"      a test from its questions to its report;                  *)
(*   "imports"   students imported from files, twice or beside the office; *)
(*   "staff"     the punches, marks and reports of one member of staff;    *)
(*   "registers" the days of two students of two batches, and reports;     *)
(*   "standing"  their records of lectures and their marks;                *)
(*   "faculty"   two teachers, what they may teach, their staff numbers;   *)
(*   "timetable" uploads of a timetable beside changes of the teachers.    *)
(***************************************************************************)
EXTENDS MCPayroll, Tests, Enrolment, StaffPortal, Standing, TimetableSheets

VARIABLE subject
schoolVars == <<vars, testsVars, enrolmentVars, staffVars, standingVars, timetableVars, subject>>

\* A sheet of one student, one that names him twice, one with a stranger.
Line(p, n) == [prn |-> p, score |-> n]
MCSheets == {<<Line("asha", 1)>>, <<Line("asha", 1), Line("asha", 1)>>,
             <<Line("zzz", 2), Line("ravi", 3)>>}
MCAnswerFiles == {[x \in {<<"asha", "q1">>} |-> "A"],
                  [x \in {<<"asha", "q1">>, <<"asha", "q2">>} |-> "B"]}
MCTotals == {2, NoTotal}

\* A file with a student of a batch to be made; and one with a repeated e-mail,
\* whose second row disagrees on the length of the course.
FileRow(k, b, l) == [ok |-> TRUE, key |-> k, batch |-> b, start |-> None, length |-> l]
MCFiles == {<<FileRow("n1", "X", 2), FileRow("e1", "none", None)>>,
            <<FileRow("e1", "none", None), FileRow("e1", "X", 2), FileRow("n1", "X", 1)>>}

\* An early shift and that of the branch; a lecture that began late, and one
\* that somebody took over.
MCOwnShifts == {<<1, 3>>}
MCBranchShift == <<2, 3>>
MCSlabs == <<<<1, 1, 200>>, <<2, NoTime, 1000>>>>
Taught(t, actual, from, start, stop) ==
    [teacher |-> t, actual |-> actual, from |-> from, to |-> 3, start |-> start, stop |-> stop]
MCStaffMonths == <<{1}, {2}>>
MCTimesheets == {<<Taught("t1", "none", 1, 2, 3), Taught("t2", "t1", 2, 2, NoTime)>>}

\* Both students in one batch, in two, and one of them in both.
MCSlots == {<<"g1", 1>>, <<"g1", 2>>, <<"g2", 1>>}
OneGroupEach == {{<<"p1", "g1">>, <<"p2", "g1">>}, {<<"p1", "g1">>, <<"p2", "g2">>}}
MCRolls == OneGroupEach \cup {{<<"p1", "g1">>, <<"p1", "g2">>, <<"p2", "g1">>}}

\* A subject with a row for each of two courses; three numbers for the teachers.
MCProgrammeOf == [b1 |-> "jee", b2 |-> "neet"]
MCFolded == [Phy |-> "phy", phy |-> "phy"]
MCRanges == <<<<1, 3>>, <<11, 12>>>>
MCTeacherFiles == {<<[who |-> "rao", names |-> {"phy"}], [who |-> "iyer", names |-> {"phy"}]>>}
MCStaffFiles == {<<[dept |-> 1, code |-> 0], [dept |-> 2, code |-> 1], [dept |-> 1, code |-> 0]>>}
MCMail == [rao |-> "r@x", iyer |-> "none"]

\* A sheet whose rows want one room at one time, and one with rows no import takes.
Row(who, b, room, mode, from) ==
    [sound |-> TRUE, who |-> who, batch |-> b, subject |-> "Phy", room |-> room,
     mode |-> mode, day |-> 1, from |-> from, to |-> from + 2]
MCTimetables ==
    {<<Row("r@x", "b1", "hall", "", 1), Row("iyer", "b2", "hall", "", 2), Row("iyer", "b2", "none", "", 3)>>,
     <<Row("rao", "b1", "none", "offline", 1), Row("rao", "b2", "none", "", 1),
       Row("iyer", "b1", "none", "hybrid", 2)>>}

SchoolInit ==
    /\ Init /\ TestsInit /\ EnrolmentInit /\ StaffInit /\ StandingInit /\ TimetableInit
    /\ subject \in {"payroll", "marks", "answers", "test", "imports", "staff",
                    "registers", "standing", "faculty", "timetable"}
    /\ subject \notin {"registers", "standing"} => roll = CHOOSE r \in OneGroupEach : TRUE
    /\ subject # "staff" => shift = NoShift
    /\ catalogue[1].course = "jee" /\ catalogue[1].name = "Phy"
    /\ subject \notin {"faculty", "timetable"} => catalogue[2].name = "Phy"
    /\ subject = "payroll" => lifecycle[1] = "OPEN"
    /\ subject # "payroll" =>
          \A m \in Months : lifecycle[m] = "NONE" /\ \A p \in Staff : attended[p][m] = {}
    /\ enrolled["asha"] = "first"
    /\ enrolled["ravi"] = IF subject = "marks" THEN "second" ELSE "first"

Marking(kinds) == \A e \in Examiner : marking'[e].kind \in {"none"} \cup kinds

MarkSheets ==
    /\ \/ \E n \in {2, NoTotal} : CreateTest(Batches, [u \in Subject |-> n])
       \/ MarksStep
       \/ \E e \in Examiner : CommitMarking(e)
       \/ Enrol("ravi", "none")
    /\ Marking({"omr", "subject", "hand", "resolve"})
Answering ==
    /\ \/ \E a \in Answer : NewQuestion("q1", a) \/ CorrectAnswer("q1", a)
       \/ NewQuestion("q2", "A") \/ DeleteQuestion("q1")
       \/ \E q \in Question, p \in Points : AddQuestion(q, p)
       \/ CreateTest({"first"}, [u \in {"phy"} |-> NoTotal])
       \/ MarksStep
       \/ \E e \in Examiner : CommitMarking(e)
    /\ Marking({"answers"})
Testing ==
    /\ \/ NewQuestion("q1", "A") \/ DeleteQuestion("q1")
       \/ CreateTest({"first"}, [u \in {"phy"} |-> NoTotal]) \/ DeleteTest
       \/ \E r \in {"approved", "rejected"} : SetReview({"q1"}, r)
       \/ TestStep
       \/ \E e \in Examiner : CommitMarking(e) \/ Abandon(e)
    /\ Marking({"publish", "key"})

\* Once work was disturbed nothing new begins; the first examiner begins first.
Examining ==
    /\ disturbed => \A e \in Examiner : marking[e] = NoWork => marking'[e] = NoWork
    /\ (\A e \in Examiner : marking[e] = NoWork) => marking'["e2"] = NoWork

\* Two imports, or one and an edit, or two edits.
Importing ==
    /\ EnrolmentNext
    /\ Len(jobs') + edits' <= 2
    /\ \A i \in DOMAIN jobs' : i > 1 => jobs'[i].create

\* The terminals deliver punches of the first day and one of the second; a mark
\* is of the first day.  Settings move between requests.
Attending ==
    /\ StaffNext
    /\ \A h \in Hand : hand[h] = NoHand /\ hand'[h].kind = "punches" =>
          /\ hand'[h].punches \subseteq ({1} \X Times) \cup {<<2, 2>>}
          /\ h = "h1" \/ (hand["h1"] # NoHand /\ Cardinality(hand'[h].punches) = 1)
    /\ \A h \in Hand : hand[h] = NoHand /\ hand'[h].kind = "mark" =>
          h = "h2" /\ DOMAIN hand'[h].new = {1} /\ hand'[h].new[1].in = 2
    /\ <<shift, declared>>' # <<shift, declared>> => \A h \in Hand : hand[h] = NoHand
    /\ declared' \in {{}, StaffDays} /\ (shift' # shift => ~ reshifted)

\* Rights change one teacher's subjects after another's; numbers are given while
\* the rights stay.  The first session begins first.
Staffing ==
    /\ FacultyNext
    /\ \A c \in Desk \ {"e1"} : desk'[c].open => desk["e1"].open \/ desk[c].open
    /\ TeacherStep => Quiet
    /\ \A t \in DOMAIN faculty' : t \in DOMAIN faculty \/ Len(faculty') = 2 \/ faculty'[t].name = "rao"

\* A timetable is uploaded once there are teachers; rights and leave move between.
Timetabling ==
    \/ SheetStep /\ \A d, e \in away' : d = e
    \/ /\ uploads = 0 /\ \E file \in TeacherFiles : ImportTeachers(file)
       /\ UNCHANGED sheetVars
    \/ /\ faculty # <<>> /\ UNCHANGED sheetVars
       /\ \/ \E t \in DOMAIN faculty : DeleteTeacher(t) \/ SetSubjects(t, {}) \/ UpdateTeacher(t, "iyer")
          \/ AssignSecondary(2, "phy", {"b2"}) \/ DropSubject(1)
       /\ SubjectsInUseStay

\* What was held and deleted is, to the registers, like what was never planned; one
\* student leaves, and who comes late does so on the first day.
Registering ==
    /\ RegistersNext /\ \A s \in Slots : lecture'[s] # "struck"
    /\ Cardinality(gone') <= 1 /\ \A p \in Pupil : dayRow'[<<p, 2>>] # "LATE"

SchoolNext ==
    /\ UNCHANGED subject
    /\ subject # "payroll" => UNCHANGED vars
    /\ subject \notin {"marks", "answers", "test"} => UNCHANGED testsVars
    /\ subject # "imports" => UNCHANGED enrolmentVars
    /\ subject # "staff" => UNCHANGED staffVars
    /\ subject \notin {"registers", "standing"} => UNCHANGED standingVars
    /\ subject \notin {"faculty", "timetable"} => UNCHANGED timetableVars
    /\ \/ subject = "payroll" /\ MCNext
       \/ subject = "staff" /\ Attending
       \/ subject = "marks" /\ MarkSheets /\ Examining
       \/ subject = "answers" /\ Answering /\ Examining
       \/ subject = "test" /\ Testing /\ Examining
       \/ subject = "imports" /\ Importing
       \/ subject = "registers" /\ Registering /\ UNCHANGED <<standingTables, changes, stale>>
       \/ subject = "standing" /\ StandingNext /\ roll' \in OneGroupEach
       \/ subject = "faculty" /\ Staffing /\ UNCHANGED sheetVars
       \/ subject = "timetable" /\ Timetabling

SchoolSpec == SchoolInit /\ [][SchoolNext]_schoolVars

\* The tables of every subject are well formed, and every balance is in range.
SchoolTypeOK == TypeOK /\ LedgersInRange /\ TestsTypeOK /\ EnrolmentTypeOK
                /\ StaffTypeOK /\ StandingTypeOK
                /\ FacultyTypeOK /\ TimetableTypeOK

\* What was entered by hand stands: a resolved row of a result file, a day of a
\* member of staff; a test is announced once.
EntriesStand == [][MarkingStands /\ MarkedByHandStays]_schoolVars

\* Tables change at a commit only: a session that begins shows nobody anything.
JustCommitted ==
    \/ \A h \in Hand : hand[h] = NoHand
    \/ met /\ \E h \in Hand : hand[h] = NoHand

\* What the imports and the office leave is sound and the preview keeps its word;
\* what is reported of the days of the staff and of the students, and of the
\* students' records and marks, is true and agrees; read where there are any.
ReportsHold ==
    /\ subject = "imports" => EnrolmentSound
    /\ subject = "staff" /\ JustCommitted => StaffRecordsSound /\ PortalAgrees
    /\ subject = "registers" => RegistersAgree
    /\ subject = "standing" => StandingAgrees
    /\ subject \in {"faculty", "timetable"} => FacultySound
    /\ subject = "timetable" => TimetableSound
=============================================================================
