------------------------------ MODULE Faculty ------------------------------
(***************************************************************************)
(* Who may teach what, and under which number of the staff: teachers, the  *)
(* subjects they teach everywhere ("core") or in one batch ("secondary"),  *)
(* and the rows of the staff, into which the teachers are mirrored         *)
(* (teacher/services, teacher_repository.py, staff/services,               *)
(* staff_repository.py).                                                   *)
(*                                                                         *)
(* A subject has a row for every course that teaches it, so one name has   *)
(* several; rights go by the name as it is spelled.  A number of the staff *)
(* is chosen from the rows a request reads and written when it commits,    *)
(* where the unique index on the live numbers may refuse all of it: an     *)
(* insert that fails spoils the session, also where the exception is       *)
(* caught.  Other requests are one step.  Rows are live until they are     *)
(* deleted and keep their place.                                           *)
(***************************************************************************)
EXTENDS Integers, Sequences, FiniteSets, FiniteSetsExt, SequencesExt

CONSTANTS Person,          \* names of teachers
          Spelling,        \* names of subjects, as they are written
          Folded,          \* what a spelling is in small letters
          Programme,       \* courses
          Section,         \* batches
          ProgrammeOf,     \* the course of a batch
          Ranges,          \* the numbers of a department: <<first, last>>
          Teaching,        \* the department of the teachers
          TeacherFiles,    \* uploads of teachers: sequences of [who, names]
          StaffFiles,      \* uploads of staff: sequences of [dept, code]
          Desk,            \* sessions that may overlap
          MaxTeachers, MaxRows, MaxMoves   \* bounds: rows made, requests

NoCode == 0
NoTeacher == 0
Self == -1             \* the teacher a request is about to add
Nobody == "nobody"     \* a row without a name
Depts == DOMAIN Ranges
NumbersOf(d) == Ranges[d][1] .. Ranges[d][2]
Numbers == UNION {NumbersOf(d) : d \in Depts}

ASSUME FacultyAssumption ==
    /\ Folded \in [Spelling -> STRING] /\ Nobody \notin Person
    /\ ProgrammeOf \in [Section -> Programme] /\ IsFiniteSet(Section)
    /\ Ranges \in Seq((Nat \ {NoCode}) \X (Nat \ {NoCode})) /\ Teaching \in Depts
    /\ \A file \in TeacherFiles :
          file \in Seq([who : Person \cup {Nobody}, names : SUBSET Spelling])
    /\ \A file \in StaffFiles :
          file \in Seq([dept : Nat, code : Numbers \cup {NoCode}])
    /\ MaxTeachers \in Nat /\ MaxRows \in Nat /\ MaxMoves \in Nat

VARIABLES faculty,     \* teachers
          catalogue,   \* rows of subjects
          core, secondary,
          staffRows,
          desk,        \* what a session is about to write
          asked,      \* requests so far
          byHand       \* history: a row was linked, or a number given, changed or freed

registry == <<faculty, catalogue, core, secondary>>
facultyVars == <<registry, staffRows, desk, asked, byHand>>

Kept(rows) == {n \in DOMAIN rows : rows[n].live}
Without(rows, gone) ==
    [n \in DOMAIN rows |-> IF n \in gone THEN [rows[n] EXCEPT !.live = FALSE] ELSE rows[n]]

\* Rows are taken one after the other: the k-th of a set of places.
Nth(S, k) == CHOOSE x \in S : Cardinality({y \in S : y < x}) = k - 1

NoRequest == [teacher |-> Nobody, names |-> {}, rows |-> <<>>, open |-> FALSE]

FacultyInit ==
    /\ faculty = <<>> /\ core = {} /\ secondary = {} /\ staffRows = <<>>
    /\ catalogue \in [1..2 -> [course : Programme, name : Spelling, live : {TRUE}]]
    /\ catalogue[1].course # catalogue[2].course
    /\ desk = [c \in Desk |-> NoRequest] /\ asked = 0 /\ byHand = FALSE

-----------------------------------------------------------------------------
(* Subjects and the teachers who may teach them.                            *)

\* find_subjects_by_names: every row of a name, however it is spelled.
SubjectsNamed(names) ==
    {s \in Kept(catalogue) : \E w \in names : Folded[w] = Folded[catalogue[s].name]}

\* _same_name_subject_ids: the rows spelled like this one.
Siblings(s) == {r \in Kept(catalogue) : catalogue[r].name = catalogue[s].name}

\* teacher_teaches_subject, the lock of every lecture that is planned.
TeachesAnywhere(t, s) == \E r \in Siblings(s) : <<t, r>> \in core
Teaches(t, s, b) ==
    TeachesAnywhere(t, s) \/ \E r \in Siblings(s) : <<t, r, b>> \in secondary

\* list_for_subject, what the form offers.
Offered(s, b) ==
    {t \in Kept(faculty) : \E r \in Kept(catalogue) :
        /\ catalogue[r].name = catalogue[s].name
        /\ <<t, r>> \in core \/ <<t, r, b>> \in secondary}

\* get_teacher_subjects, and subject_names_for_teachers of the substitutes.
SubjectsShown(t) ==
    {catalogue[s].name : s \in {r \in Kept(catalogue) : <<t, r>> \in core}}

\* set_subject_mappings: what is kept stays, what is not goes.
Assigned(t, chosen) == {m \in core : m[1] # t} \cup ({t} \X chosen)

\* ensure_subject_on_course: the row of the course, or a new one.
Ensured(rows, course, w) ==
    LET known == {s \in Kept(rows) : rows[s].course = course /\ Folded[rows[s].name] = Folded[w]}
    IN  IF known # {} THEN [rows |-> rows, subject |-> Min(known)]
        ELSE [rows |-> Append(rows, [course |-> course, name |-> w, live |-> TRUE]),
              subject |-> Len(rows) + 1]

-----------------------------------------------------------------------------
(* Numbers of the staff.                                                    *)

InUse(rows) == {rows[n].code : n \in Kept(rows)}

\* next_emp_code: one above the greatest of the department within its range.
NextCode(rows, d) ==
    LET used == {rows[n].code : n \in {m \in Kept(rows) : rows[m].dept = d}} \cap NumbersOf(d)
        next == IF used = {} THEN Ranges[d][1] ELSE Max(used) + 1
    IN  IF next > Ranges[d][2] THEN NoCode ELSE next

StaffRow(d, code, t) ==
    [dept |-> d, code |-> code, legacy |-> code \notin NumbersOf(d), teacher |-> t, live |-> TRUE]

\* sync_teachers_to_staff: the teachers no row is linked to, as far as the range
\* reaches; the number is read once and counted on.  "fresh" is the teacher this
\* very request adds, if any.
Mirrors(fresh) ==
    LET linked == {staffRows[n].teacher : n \in Kept(staffRows)}
        due  == (Kept(faculty) \cup fresh) \ linked
        next == NextCode(staffRows, Teaching)
        room == IF next = NoCode THEN 0 ELSE Min({Cardinality(due), Ranges[Teaching][2] - next + 1})
    IN  [k \in 1..room |-> StaffRow(Teaching, next + k - 1, Nth(due, k))]

\* A row that is asked for, by number or not: create_staff and import_staff.
Numbered(rows, d, code) == IF code # NoCode THEN code ELSE NextCode(rows, d)

\* import_staff: rows of no department, with a number in use or beyond the range
\* are passed over; an insert the index refuses spoils the rest.
ImportRow(acc, row) ==
    LET rows == staffRows \o acc.rows
        code == Numbered(rows, row.dept, row.code)
    IN  IF row.dept \notin Depts THEN acc
        ELSE IF code = NoCode \/ (row.code # NoCode /\ code \in InUse(rows)) THEN acc
        ELSE [rows |-> Append(acc.rows, StaffRow(row.dept, code, NoTeacher)),
              spoilt |-> acc.spoilt \/ code \in InUse(rows)]
NothingImported == [rows |-> <<>>, spoilt |-> FALSE]
ImportedRows(file) == FoldLeft(ImportRow, NothingImported, file)

-----------------------------------------------------------------------------
(* Requests that take numbers: read, then commit.                           *)

Quiet == \A c \in Desk : ~ desk[c].open
Ask == asked < MaxMoves /\ asked' = asked + 1
Room(n) == Len(staffRows) + n <= MaxRows

TakeNumbers(c, who, names, rows, given) ==
    /\ ~ desk[c].open /\ Ask /\ Room(Len(rows))
    /\ desk' = [desk EXCEPT ![c] = [teacher |-> who, names |-> names, rows |-> rows, open |-> TRUE]]
    /\ byHand' = (byHand \/ given)
    /\ UNCHANGED <<registry, staffRows>>

\* create_teacher mirrors its teacher at once.
BeginCreateTeacher(c, who, names) ==
    /\ Len(faculty) < MaxTeachers
    /\ TakeNumbers(c, who, names, Mirrors({Self}), FALSE)
BeginSync(c) == TakeNumbers(c, Nobody, {}, Mirrors({}), FALSE)
BeginCreateStaff(c, d, code) ==
    LET number == Numbered(staffRows, d, code)
    IN  /\ number # NoCode /\ (code # NoCode => code \notin InUse(staffRows))
        /\ TakeNumbers(c, Nobody, {}, <<StaffRow(d, number, NoTeacher)>>, code # NoCode)
BeginImportStaff(c, file) ==
    LET new == ImportedRows(file)
        given == \E k \in DOMAIN file : file[k].code # NoCode
    IN  ~ new.spoilt /\ new.rows # <<>> /\ TakeNumbers(c, Nobody, {}, new.rows, given)

\* All of a request, or nothing of it when a number has been taken meanwhile.
Refused(rows) ==
    \E k \in DOMAIN rows :
        rows[k].code \in InUse(staffRows) \cup {rows[j].code : j \in 1..(k - 1)}
CommitNumbers(c) ==
    LET r == desk[c]
        t == Len(faculty) + 1
        own(row) == IF row.teacher = Self THEN [row EXCEPT !.teacher = t] ELSE row
    IN  /\ r.open /\ desk' = [desk EXCEPT ![c] = NoRequest]
        /\ IF Refused(r.rows) THEN UNCHANGED <<faculty, core, staffRows>>
           ELSE /\ staffRows' = staffRows \o [k \in DOMAIN r.rows |-> own(r.rows[k])]
                /\ IF r.teacher = Nobody THEN UNCHANGED <<faculty, core>>
                   ELSE /\ faculty' = Append(faculty, [name |-> r.teacher, live |-> TRUE])
                        /\ core' = core \cup ({t} \X SubjectsNamed(r.names))
        /\ UNCHANGED <<catalogue, secondary, asked, byHand>>

-----------------------------------------------------------------------------
(* Requests of one step.                                                    *)

OfOffice == Ask /\ UNCHANGED desk
OfTeachers == OfOffice /\ UNCHANGED <<catalogue, staffRows, byHand>>
OfStaff == OfOffice /\ UNCHANGED registry

\* import_teachers: rows without a name are passed over; nobody is mirrored.
ImportTeachers(file) ==
    LET named == {k \in DOMAIN file : file[k].who # Nobody}
        new   == 1..Cardinality(named)
        row(k) == file[Nth(named, k)]
    IN  /\ OfTeachers /\ Len(faculty) + Cardinality(named) <= MaxTeachers /\ named # {}
        /\ faculty' = faculty \o [k \in new |-> [name |-> row(k).who, live |-> TRUE]]
        /\ core' = core \cup UNION {{Len(faculty) + k} \X SubjectsNamed(row(k).names) : k \in new}
        /\ UNCHANGED secondary

UpdateTeacher(t, who) ==
    /\ OfTeachers /\ t \in Kept(faculty)
    /\ faculty' = [faculty EXCEPT ![t].name = who] /\ UNCHANGED <<core, secondary>>

\* delete_teacher leaves everything else of the teacher; bulk_delete_teachers
\* takes the core subjects along.
DeleteTeacher(t) ==
    /\ OfTeachers /\ t \in Kept(faculty)
    /\ faculty' = Without(faculty, {t}) /\ UNCHANGED <<core, secondary>>
DeleteTeachers(gone) ==
    /\ OfTeachers /\ gone # {} /\ gone \subseteq Kept(faculty)
    /\ faculty' = Without(faculty, gone)
    /\ core' = {m \in core : m[1] \notin gone} /\ UNCHANGED secondary

SetSubjects(t, names) ==
    /\ OfTeachers /\ t \in Kept(faculty)
    /\ core' = Assigned(t, SubjectsNamed(names)) /\ UNCHANGED <<faculty, secondary>>

\* assign_secondary_subjects: batch by batch, on the course of each, made where missing.
GivenIn(t, w, acc, b) ==
    LET found == Ensured(acc.rows, ProgrammeOf[b], w)
    IN  [rows |-> found.rows, pairs |-> acc.pairs \cup {<<t, found.subject, b>>}]
AssignSecondary(t, w, sections) ==
    LET given == FoldSet(LAMBDA b, acc : GivenIn(t, w, acc, b), [rows |-> catalogue, pairs |-> {}], sections)
    IN  /\ OfOffice /\ t \in Kept(faculty) /\ sections # {}
        /\ catalogue' = given.rows /\ secondary' = secondary \cup given.pairs
        /\ UNCHANGED <<faculty, core, staffRows, byHand>>
RemoveSecondary(m) ==
    /\ OfTeachers /\ m \in secondary
    /\ secondary' = secondary \ {m} /\ UNCHANGED <<faculty, core>>

\* delete_subject looks at the lectures of the subject, and at no teacher.
DropSubject(s) ==
    /\ OfOffice /\ s \in Kept(catalogue)
    /\ catalogue' = Without(catalogue, {s})
    /\ UNCHANGED <<faculty, core, secondary, staffRows, byHand>>

\* update_staff: a number is tested against the live ones, a department alone
\* leaves the mark of a number out of range as it was.
Renumber(n, d, code) ==
    /\ OfStaff /\ n \in Kept(staffRows)
    /\ code = staffRows[n].code \/ code \notin InUse(staffRows)
    /\ staffRows' = [staffRows EXCEPT ![n].dept = d, ![n].code = code,
                        ![n].legacy = code \notin NumbersOf(d)]
    /\ byHand' = TRUE
MoveStaff(n, d) ==
    /\ OfStaff /\ n \in Kept(staffRows)
    /\ staffRows' = [staffRows EXCEPT ![n].dept = d] /\ byHand' = TRUE

\* link_teacher, or unlink: no other row of the teacher is looked for.
LinkTeacher(n, t) ==
    /\ OfStaff /\ n \in Kept(staffRows) /\ t \in Kept(faculty) \cup {NoTeacher}
    /\ staffRows' = [staffRows EXCEPT ![n].teacher = t] /\ byHand' = TRUE
DeleteStaff(gone) ==
    /\ OfStaff /\ gone # {} /\ gone \subseteq Kept(staffRows)
    /\ staffRows' = Without(staffRows, gone) /\ byHand' = (byHand \/ ~ Quiet)

NumberStep ==
    \E c \in Desk :
       \/ \E who \in Person, names \in SUBSET Spelling : BeginCreateTeacher(c, who, names)
       \/ BeginSync(c)
       \/ \E d \in Depts, code \in Numbers \cup {NoCode} : BeginCreateStaff(c, d, code)
       \/ \E file \in StaffFiles : BeginImportStaff(c, file)
       \/ CommitNumbers(c)
TeacherStep ==
    \/ \E file \in TeacherFiles : ImportTeachers(file)
    \/ \E t \in DOMAIN faculty :
          \/ \E who \in Person : UpdateTeacher(t, who)
          \/ DeleteTeacher(t)
          \/ \E names \in SUBSET Spelling : SetSubjects(t, names)
          \/ \E w \in Spelling, sections \in SUBSET Section : AssignSecondary(t, w, sections)
    \/ \E gone \in SUBSET DOMAIN faculty : DeleteTeachers(gone)
    \/ \E m \in secondary : RemoveSecondary(m)
    \/ \E s \in DOMAIN catalogue : DropSubject(s)
StaffStep ==
    \/ \E n \in DOMAIN staffRows :
          \/ \E d \in Depts : MoveStaff(n, d) \/ \E code \in Numbers : Renumber(n, d, code)
          \/ \E t \in (DOMAIN faculty) \cup {NoTeacher} : LinkTeacher(n, t)
    \/ \E gone \in SUBSET DOMAIN staffRows : DeleteStaff(gone)

FacultyNext == NumberStep \/ TeacherStep \/ StaffStep

-----------------------------------------------------------------------------
(* Properties.                                                              *)

FacultyTypeOK ==
    /\ \A t \in DOMAIN faculty : faculty[t].name \in Person
    /\ core \subseteq (DOMAIN faculty) \X (DOMAIN catalogue)
    /\ secondary \subseteq (DOMAIN faculty) \X (DOMAIN catalogue) \X Section
    /\ \A n \in DOMAIN staffRows : staffRows[n].teacher \in {NoTeacher} \cup DOMAIN faculty

\* A right goes by the name: whichever row of a subject is picked, and whether
\* it was made before or after the right was given, the form, the lock and the
\* profile of a live teacher say the same.
RightsAgree ==
    \A s \in Kept(catalogue), t \in Kept(faculty), b \in Section :
        /\ t \in Offered(s, b) <=> Teaches(t, s, b)
        /\ TeachesAnywhere(t, s) <=> catalogue[s].name \in SubjectsShown(t)

\* However teachers are added and mirrored at once, a teacher has one row of the
\* staff: nothing but the unique index on the numbers keeps overlapping mirrors
\* apart, so it ends where numbers are given, changed or freed by hand meanwhile.
MirroredOnce ==
    byHand \/ \A n, m \in Kept(staffRows) :
        n # m /\ staffRows[n].teacher # NoTeacher => staffRows[n].teacher # staffRows[m].teacher

\* A number is that of one live row, and until rows are moved it is marked as out
\* of its department's range exactly when it is.
NumbersTold ==
    \A n, m \in Kept(staffRows) :
        /\ n # m => staffRows[n].code # staffRows[m].code
        /\ byHand \/ (staffRows[n].legacy <=> staffRows[n].code \notin NumbersOf(staffRows[n].dept))

FacultySound == RightsAgree /\ MirroredOnce /\ NumbersTold
=============================================================================
