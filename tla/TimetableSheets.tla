-------------------------- MODULE TimetableSheets --------------------------
(***************************************************************************)
(* The upload of a timetable: its preview, and the import that plans one   *)
(* lecture for every row it accepts (lectures/services/import_service.py,  *)
(* with schedule_lecture of lecture_service.py).                           *)
(*                                                                         *)
(* An import reads the timetable and writes its lectures when it commits;  *)
(* another may commit in between.  The address of a teacher's account and  *)
(* that of the teacher's row are one, "mail".                              *)
(***************************************************************************)
EXTENDS Faculty

CONSTANTS Rooms, NoRoom,
          Timetables,      \* uploads: sequences of rows
          ClosedDays,      \* holidays of the branch
          Mail,            \* the address of a teacher, who may have none
          MaxUploads

DeliveryModes == {"offline", "online", "hybrid"}
AnyMode == DeliveryModes \cup {"", "other"}
SheetRows == [sound : BOOLEAN, who : STRING, batch : STRING, subject : STRING,
              room : STRING, mode : AnyMode, day : Nat, from : Nat, to : Nat]

ASSUME TimetableAssumption ==
    /\ \A sheet \in Timetables : sheet \in Seq(SheetRows)
    /\ Mail \in [Person -> STRING] /\ NoRoom \notin Rooms /\ MaxUploads \in Nat

VARIABLES booked,      \* lectures
          away,        \* approved leaves: <<teacher, day>>
          upload,      \* what a session is about to plan
          uploads,     \* imports so far
          overlap      \* history: the timetable changed under an import

sheetVars == <<booked, away, upload, uploads, overlap>>
timetableVars == <<facultyVars, sheetVars>>

NoUpload == [open |-> FALSE, lectures |-> <<>>]

TimetableInit ==
    /\ FacultyInit
    /\ booked = <<>> /\ away = {} /\ uploads = 0 /\ overlap = FALSE
    /\ upload = [c \in Desk |-> NoUpload]

-----------------------------------------------------------------------------
(* One row.                                                                 *)

\* The teacher of a row, by address and else by name: none unless there is one.
TeachersOf(row) ==
    LET mailed == {t \in Kept(faculty) : Mail[faculty[t].name] = row.who}
    IN  IF mailed # {} THEN mailed ELSE {t \in Kept(faculty) : faculty[t].name = row.who}

\* The subject of that code on the course of the batch.
SubjectsOf(row) ==
    {s \in Kept(catalogue) : /\ catalogue[s].name = row.subject
                             /\ catalogue[s].course = ProgrammeOf[row.batch]}

\* _resolve_lookups
Resolves(row) ==
    /\ Cardinality(TeachersOf(row)) = 1
    /\ row.batch \in Section /\ Cardinality(SubjectsOf(row)) = 1
    /\ row.room \in Rooms \cup {NoRoom}
LectureOf(row) ==
    [teacher |-> Min(TeachersOf(row)), batch |-> row.batch, subject |-> Min(SubjectsOf(row)),
     room |-> row.room, day |-> row.day, from |-> row.from, to |-> row.to, active |-> TRUE]

Dated(row) == row.sound /\ row.from < row.to /\ row.day \notin ClosedDays
ModeOf(row) ==
    IF row.mode # "" THEN row.mode ELSE IF row.room = NoRoom THEN "online" ELSE "offline"
Deliverable(row) ==
    ModeOf(row) \in DeliveryModes /\ (ModeOf(row) = "offline" => row.room # NoRoom)

Overlap(l, k) == l.day = k.day /\ l.from < k.to /\ k.from < l.to

\* check_teacher_conflict, check_batch_conflict, check_classroom_conflict
Taken(l, rows) ==
    \E n \in DOMAIN rows :
        /\ rows[n].active /\ Overlap(l, rows[n])
        /\ \/ l.teacher = rows[n].teacher \/ l.batch = rows[n].batch
           \/ l.room = rows[n].room /\ l.room # NoRoom

\* preview_schedule: every row by itself, against the timetable there is.
PreviewOk(row) ==
    /\ Dated(row) /\ Resolves(row) /\ Deliverable(row)
    /\ LET l == LectureOf(row)
       IN  /\ Teaches(l.teacher, l.subject, l.batch)
           /\ <<l.teacher, l.day>> \notin away
           /\ ~ Taken(l, booked)
Previewed(sheet) == {n \in DOMAIN sheet : PreviewOk(sheet[n])}

\* schedule_lecture
Schedulable(row, rows) ==
    LET l == LectureOf(row)
    IN  /\ Deliverable(row) /\ ~ Taken(l, rows)
        /\ Teaches(l.teacher, l.subject, l.batch)
        /\ <<l.teacher, l.day>> \notin away

\* import_schedule: the rows in turn, each after those before it; the others are
\* passed over.
AcceptRow(sheet, acc, n) ==
    IF Dated(sheet[n]) /\ Resolves(sheet[n]) /\ Schedulable(sheet[n], booked \o acc.lectures)
    THEN [lectures |-> Append(acc.lectures, LectureOf(sheet[n])), rows |-> acc.rows \cup {n}]
    ELSE acc
Accepted(sheet) ==
    FoldLeft(LAMBDA acc, n : AcceptRow(sheet, acc, n),
             [lectures |-> <<>>, rows |-> {}], [n \in DOMAIN sheet |-> n])

-----------------------------------------------------------------------------
(* Imports, and what changes under them.                                    *)

Uploading == \E c \in Desk : upload[c].open

BeginUpload(c, sheet) ==
    /\ ~ upload[c].open /\ uploads < MaxUploads /\ uploads' = uploads + 1
    /\ upload' = [upload EXCEPT ![c] = [open |-> TRUE, lectures |-> Accepted(sheet).lectures]]
    /\ UNCHANGED <<facultyVars, booked, away, overlap>>

CommitUpload(c) ==
    /\ upload[c].open
    /\ booked' = booked \o upload[c].lectures
    /\ upload' = [upload EXCEPT ![c] = NoUpload]
    /\ overlap' = (overlap \/ (upload[c].lectures # <<>> /\ \E d \in Desk \ {c} : upload[d].open))
    /\ UNCHANGED <<facultyVars, away, uploads>>

\* A lecture is over or called off: its slot is free.
CloseLecture(n) ==
    /\ booked[n].active /\ booked' = [booked EXCEPT ![n].active = FALSE]
    /\ UNCHANGED <<facultyVars, away, upload, uploads, overlap>>
GrantLeave(t, day) ==
    /\ away' = away \cup {<<t, day>>}
    /\ UNCHANGED <<facultyVars, booked, upload, uploads, overlap>>

SheetStep ==
    \/ \E c \in Desk : CommitUpload(c) \/ \E sheet \in Timetables : BeginUpload(c, sheet)
    \/ \E n \in DOMAIN booked : CloseLecture(n)
    \/ \E t \in Kept(faculty), sheet \in Timetables :
          \E n \in DOMAIN sheet : GrantLeave(t, sheet[n].day)

\* delete_subject refuses a subject that lectures use.
SubjectsInUseStay ==
    \A n \in DOMAIN booked :
        catalogue[booked[n].subject].live => catalogue'[booked[n].subject].live

TimetableNext == SheetStep \/ (FacultyNext /\ SubjectsInUseStay /\ UNCHANGED sheetVars)

-----------------------------------------------------------------------------
(* Properties.                                                              *)

TimetableTypeOK ==
    \A n \in DOMAIN booked : /\ booked[n].teacher \in DOMAIN faculty
                              /\ booked[n].subject \in DOMAIN catalogue

\* Two lectures that nobody could hold both.
Exclude(l, k) ==
    /\ Overlap(l, k)
    /\ l.teacher = k.teacher \/ l.batch = k.batch \/ (l.room = k.room /\ l.room \in Rooms)

\* The import, which checks row by row what schedule_lecture checks, takes no row
\* the preview did not promise, and every promised row that clashes with no
\* other row of the sheet, whatever has changed about teachers and subjects.
PreviewKept ==
    \A sheet \in Timetables :
        /\ Accepted(sheet).rows \subseteq Previewed(sheet)
        /\ \A n \in Previewed(sheet) \ Accepted(sheet).rows : \E m \in Previewed(sheet) :
              m < n /\ Exclude(LectureOf(sheet[n]), LectureOf(sheet[m]))

\* Sheets uploaded one after the other, again and again and with clashes in them,
\* never book a teacher, a batch or a room twice at one time.
SheetsNeverDoubleBook ==
    overlap \/ \A n \in DOMAIN booked :
        booked[n].active =>
            \A m \in 1..(n - 1) : booked[m].active => ~ Exclude(booked[n], booked[m])

\* What is planned for the course of a batch is a subject of that course.
CourseOfBatch ==
    \A n \in DOMAIN booked : catalogue[booked[n].subject].course = ProgrammeOf[booked[n].batch]

TimetableSound == PreviewKept /\ SheetsNeverDoubleBook /\ CourseOfBatch
=============================================================================
