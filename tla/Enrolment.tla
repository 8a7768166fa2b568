----------------------------- MODULE Enrolment -----------------------------
(***************************************************************************)
(* The structure a branch teaches by (academic years, courses, subjects,   *)
(* batches), its students and the import that fills all of them from a     *)
(* file and can be undone (student/services/import_service.py,             *)
(* student_service.py, academic/services, academic/subject_seeding.py,     *)
(* batch/services/batch_service.py).                                       *)
(*                                                                         *)
(* An import reads the tables in one step, "BeginImport", and writes what  *)
(* it decided then, one commit for every chunk of rows; what it created is *)
(* not live before the first commit.  Other requests are one step, but for *)
(* the bulk move of students, which overlaps with itself.  A file is of    *)
(* one target: a course is told by its length.                             *)
(***************************************************************************)
EXTENDS Integers, Sequences, FiniteSets, FiniteSetsExt, SequencesExt

CONSTANTS Key,          \* what tells students apart: numbers and e-mails
          Emails,       \* the keys that are not unique in the database
          NoKey,
          Code, NoBatch,
          Files,        \* what is uploaded: sequences of rows
          FirstYear,    \* the year new students enrol into today
          LastYear,
          Chunk,        \* rows written by one commit (500)
          MaxImports,   \* bound: imports started
          MaxEdits      \* bound: edits of the office

None == 0      \* an empty cell, and no row
Office == 0    \* who made a row, when no import did
Lengths == {1, 2}
FileRows == [ok : BOOLEAN, key : Key \cup {NoKey}, batch : Code \cup {NoBatch},
             start : {None} \cup (FirstYear..LastYear), length : {None} \cup Lengths]

ASSUME EnrolmentAssumption ==
    /\ Emails \subseteq Key /\ NoKey \notin Key /\ NoBatch \notin Code
    /\ FirstYear \in Nat \ {None} /\ LastYear \in Nat
    /\ \A file \in Files : file \in Seq(FileRows)
    /\ Chunk \in Nat \ {0} /\ MaxImports \in Nat /\ MaxEdits \in Nat

VARIABLES years, courses, subjects, batches, students, mappings,
          jobs,      \* student_import_jobs, with what is still to be written
          moves,     \* the bulk moves under way: whom, where, what they retire
          edits,     \* how many edits the office made
          crossed,   \* history: something was written while an import or a move was under way
          strays     \* history: live mappings of students deleted one at a time

structure == <<years, courses, subjects, batches>>
roster == <<students, mappings, strays>>
enrolmentVars == <<structure, roster, jobs, moves, edits, crossed>>

LiveRows(rows) == {n \in DOMAIN rows : rows[n].live}
Retired(rows, gone) ==
    [n \in DOMAIN rows |-> IF n \in gone THEN [rows[n] EXCEPT !.live = FALSE] ELSE rows[n]]
Activated(rows, new) ==
    [n \in DOMAIN rows |-> IF n \in new THEN [rows[n] EXCEPT !.live = TRUE] ELSE rows[n]]

EnrolmentInit ==
    /\ years = <<>> /\ courses = <<>> /\ subjects = <<>> /\ batches = <<>>
    /\ students = <<>> /\ mappings = <<>>
    /\ jobs = <<>> /\ moves = {} /\ edits = 0 /\ crossed = FALSE
    /\ strays = {}

-----------------------------------------------------------------------------
(* What an import decides, from the tables it reads, "db".                  *)

Tables == [years |-> years, courses |-> courses, subjects |-> subjects, batches |-> batches]

YearsAt(db, start) == {y \in LiveRows(db.years) : db.years[y].start = start}
CoursesOf(db, length) == {c \in LiveRows(db.courses) : db.courses[c].length = length}
BatchesOf(db, code) == {b \in LiveRows(db.batches) : db.batches[b].code = code}

\* _load_student_dedup_keys
KeysOnFile == {students[n].key : n \in LiveRows(students)} \ {NoKey}

StartOf(plan) == IF plan.start = None THEN FirstYear ELSE plan.start
LengthOf(plan) == IF plan.length = None THEN 1 ELSE plan.length

\* _required_ay_starts: the duration of a course that exists wins.
RequiredStarts(db, plan) ==
    LET known == CoursesOf(db, LengthOf(plan))
        span  == IF known = {} THEN LengthOf(plan) ELSE db.courses[Min(known)].duration
    IN  StartOf(plan) .. StartOf(plan) + span - 1

StartsOf(db, file) ==
    {FirstYear} \cup UNION {RequiredStarts(db, file[n]) : n \in {m \in DOMAIN file : file[m].ok}}

\* get_academic_year_by_start_year raises when two years start together.
YearsJam(db, file) == \E start \in StartsOf(db, file) : Cardinality(YearsAt(db, start)) > 1

\* _ensure_academic_year, for every year that is needed, in order.
WithYears(db, file, i) ==
    LET new == SetToSortSeq({s \in StartsOf(db, file) : YearsAt(db, s) = {}}, <)
    IN  [db EXCEPT !.years = @ \o [n \in DOMAIN new |-> [start |-> new[n], by |-> i, live |-> TRUE]]]

\* The rows that shape the batches the import creates: a row without a batch is
\* passed over before its key is noted.
Shaping(file) ==
    FoldLeft(LAMBDA acc, n :
        LET r == file[n]
        IN  IF ~ r.ok \/ r.batch = NoBatch \/ r.key \in acc.seen THEN acc
            ELSE [kept |-> acc.kept \cup {n}, seen |-> acc.seen \cup ({r.key} \ {NoKey})],
        [kept |-> {}, seen |-> KeysOnFile], [n \in DOMAIN file |-> n]).kept

\* _override_conflict
Disagree(file, rows) ==
    \/ Cardinality({file[n].start : n \in rows} \ {None}) > 1
    \/ Cardinality({file[n].length : n \in rows} \ {None}) > 1

\* _merge_overrides: the first value of each column.
FirstOf(file, rows, Column(_)) ==
    LET given == {n \in rows : Column(file[n]) # None}
    IN  IF given = {} THEN None ELSE Column(file[Min(given)])
Plan(file, rows) == [start |-> FirstOf(file, rows, LAMBDA r : r.start),
                     length |-> FirstOf(file, rows, LAMBDA r : r.length)]

\* build_subject_skeleton: only for a course that has no subject.
Seeded(db, course, year, i) ==
    IF \E s \in LiveRows(db.subjects) : db.subjects[s].course = course THEN db
    ELSE [db EXCEPT !.subjects = Append(@,
             [course |-> course, year |-> year, by |-> i, chapters |-> {i}, live |-> TRUE])]

\* create_batch: from the first to the last year of the course.
WithBatch(db, code, course, from, i) ==
    LET last == YearsAt(db, db.years[from].start + db.courses[course].duration - 1)
    IN  IF Cardinality(last) # 1 THEN db
        ELSE [db EXCEPT !.batches = Append(@,
                 [code |-> code, course |-> course, from |-> from, to |-> Min(last),
                  by |-> i, live |-> TRUE])]

\* _create_derived_batch, in a savepoint: nothing of it stays when it fails.
WithDerivedBatch(db, code, plan, i) ==
    LET known  == CoursesOf(db, LengthOf(plan))
        with   == IF known # {} THEN db
                  ELSE [db EXCEPT !.courses = Append(@,
                           [length |-> LengthOf(plan), duration |-> LengthOf(plan),
                            by |-> i, live |-> TRUE])]
        course == IF known # {} THEN Min(known) ELSE Len(with.courses)
        from   == Min(YearsAt(db, StartOf(plan)))
        new    == WithBatch(with, code, course, from, i)
    IN  IF YearsAt(db, StartOf(plan)) = {} \/ new = with THEN db
        ELSE Seeded(new, course, from, i)

WithBatches(db, file, i) ==
    LET kept == Shaping(file)
        rows(code) == {n \in kept : file[n].batch = code}
        missing == {code \in {file[n].batch : n \in kept} :
                       BatchesOf(db, code) = {} /\ ~ Disagree(file, rows(code))}
        order == SetToSortSeq(missing, LAMBDA a, b : Min(rows(a)) < Min(rows(b)))
    IN  FoldLeft(LAMBDA acc, code : WithDerivedBatch(acc, code, Plan(file, rows(code)), i),
                 db, order)

\* Mutation: the keys of the file itself are not noted.
PendingUnseen(db, file) ==
    LET fresh(n) == /\ file[n].ok /\ file[n].key \notin KeysOnFile
                    /\ file[n].batch # NoBatch => BatchesOf(db, file[n].batch) # {}
    IN  SelectSeq([n \in DOMAIN file |-> n], fresh)

\* The rows that are written: sound, of a student not on file, of a batch known.
Pending(db, file) ==
    FoldLeft(LAMBDA acc, n :
        LET r == file[n]
        IN  IF \/ ~ r.ok \/ r.key \in acc.seen
               \/ r.batch # NoBatch /\ BatchesOf(db, r.batch) = {} THEN acc
            ELSE [rows |-> Append(acc.rows, n), seen |-> acc.seen \cup ({r.key} \ {NoKey})],
        [rows |-> <<>>, seen |-> KeysOnFile], [n \in DOMAIN file |-> n]).rows

\* Everything the import of a file creates, and the rows it writes.
Structured(file, i, create) ==
    LET dated == WithYears(Tables, file, i)
    IN  IF create THEN WithBatches(dated, file, i) ELSE dated

-----------------------------------------------------------------------------
(* The preview of a file, and its rows as the grid validates them.          *)

\* preview_import: a key is noted whether or not its row will be imported.
Promising(file) ==
    FoldLeft(LAMBDA acc, n :
        LET r == file[n]
        IN  IF r.key \in acc.seen THEN acc
            ELSE [kept |-> IF r.ok THEN acc.kept \cup {n} ELSE acc.kept,
                  seen |-> acc.seen \cup ({r.key} \ {NoKey})],
        [kept |-> {}, seen |-> KeysOnFile], [n \in DOMAIN file |-> n]).kept

\* _missing_batch_blocker, with the years the import will add.
Blocked(file, kept, code) ==
    LET rows  == {n \in kept : file[n].batch = code}
        plan  == Plan(file, rows)
        known == {y.start : y \in {years[n] : n \in LiveRows(years)}} \cup {FirstYear}
                   \cup UNION {RequiredStarts(Tables, file[n]) : n \in kept}
    IN  /\ BatchesOf(Tables, code) = {}
        /\ Disagree(file, rows) \/ ~ RequiredStarts(Tables, plan) \subseteq known

\* The rows it counts as importable.
Importable(file) ==
    LET kept == Promising(file)
    IN  {n \in kept : file[n].batch = NoBatch \/ ~ Blocked(file, kept, file[n].batch)}

\* validate_import_rows: the rows of the grid without an error.  A row is looked at
\* alone: that others want the same batch differently is no error of it, and the
\* years it needs are taken as there.
Clean(file, create) ==
    {n \in Promising(file) : \/ create \/ file[n].batch = NoBatch
                             \/ BatchesOf(Tables, file[n].batch) # {}}

-----------------------------------------------------------------------------
(* The import job.                                                          *)

Running(job) == job.status = "processing" /\ ~ job.dead
UnderWay == moves # {} \/ \E n \in DOMAIN jobs : Running(jobs[n])

\* Something else is written: what was read by others may not hold any more.
Meeting(i) == crossed' = (crossed \/ moves # {} \/ \E n \in (DOMAIN jobs) \ {i} : Running(jobs[n]))

StartImport(file, create) ==
    /\ Len(jobs) < MaxImports
    /\ jobs' = Append(jobs, [status |-> "pending", file |-> file, create |-> create,
                             dead |-> FALSE, opened |-> FALSE, rows |-> <<>>, made |-> <<>>,
                             imported |-> 0])
    /\ UNCHANGED <<structure, roster, moves, edits, crossed>>

\* import_students up to the first insert; its new rows come to life later.
New(old, new) == (DOMAIN new) \ (DOMAIN old)
Hidden(old, new) == Retired(new, New(old, new))
Made(db) == [years |-> New(years, db.years), courses |-> New(courses, db.courses),
             subjects |-> New(subjects, db.subjects), batches |-> New(batches, db.batches)]
BeginImport(i) ==
    LET file == jobs[i].file
        db == Structured(file, i, jobs[i].create)
        rows == Pending(db, file)
        target(n) == IF file[n].batch = NoBatch THEN None ELSE Max(BatchesOf(db, file[n].batch))
    IN  /\ jobs[i].status = "pending" /\ ~ jobs[i].dead
        /\ Meeting(i)
        /\ IF YearsJam(Tables, file)
             THEN /\ jobs' = [jobs EXCEPT ![i].status = "failed"]
                  /\ UNCHANGED structure
             ELSE /\ jobs' = [jobs EXCEPT ![i].status = "processing", ![i].made = Made(db),
                        ![i].rows = [k \in DOMAIN rows |->
                            [key |-> file[rows[k]].key, batch |-> target(rows[k]),
                             year |-> Min(YearsAt(db, FirstYear))]]]
                  /\ years' = Hidden(years, db.years) /\ courses' = Hidden(courses, db.courses)
                  /\ subjects' = Hidden(subjects, db.subjects)
                  /\ batches' = Hidden(batches, db.batches)
        /\ UNCHANGED <<roster, moves, edits>>

\* The first commit of an import brings what it created to life.
Open(job) ==
    IF job.opened THEN UNCHANGED structure
    ELSE /\ years' = Activated(years, job.made.years)
         /\ courses' = Activated(courses, job.made.courses)
         /\ subjects' = Activated(subjects, job.made.subjects)
         /\ batches' = Activated(batches, job.made.batches)

\* _bulk_insert_students: a chunk, or those of its rows the unique index on the
\* numbers lets in.
CommitChunk(i) ==
    LET job  == jobs[i]
        size == Min({Chunk, Len(job.rows)})
        kept == SelectSeq(SubSeq(job.rows, 1, size),
                    LAMBDA r : r.key \in Emails \cup {NoKey} \/ r.key \notin KeysOnFile)
        first == Len(students)
        mapped == SelectSeq([k \in DOMAIN kept |-> k], LAMBDA k : kept[k].batch # None)
    IN  /\ Running(job) /\ job.rows # <<>>
        /\ Open(job)
        /\ students' = students \o [k \in DOMAIN kept |->
               [key |-> kept[k].key, year |-> kept[k].year, by |-> i, live |-> TRUE]]
        /\ mappings' = mappings \o [k \in DOMAIN mapped |->
               [student |-> first + mapped[k], batch |-> kept[mapped[k]].batch, live |-> TRUE]]
        /\ jobs' = [jobs EXCEPT ![i].opened = TRUE, ![i].imported = @ + Len(kept),
                       ![i].rows = SubSeq(@, size + 1, Len(@))]
        /\ Meeting(i)
        /\ UNCHANGED <<moves, edits, strays>>

FinishImport(i) ==
    /\ Running(jobs[i]) /\ jobs[i].rows = <<>>
    /\ Open(jobs[i])
    /\ jobs' = [jobs EXCEPT ![i].status = "completed", ![i].opened = TRUE]
    /\ Meeting(i)
    /\ UNCHANGED <<roster, moves, edits>>

\* An exception is recorded; a process that dies leaves the job as it is.  The
\* chunks that were committed stay.
FailImport(i) ==
    /\ Running(jobs[i])
    /\ jobs' = [jobs EXCEPT ![i].status = "failed"]
    /\ UNCHANGED <<structure, roster, moves, edits, crossed>>
DieImporting(i) ==
    /\ jobs[i].status \in {"pending", "processing"} /\ ~ jobs[i].dead
    /\ jobs' = [jobs EXCEPT ![i].dead = TRUE]
    /\ UNCHANGED <<structure, roster, moves, edits, crossed>>

-----------------------------------------------------------------------------
(* undo_import, whatever the job is doing.                                  *)

By(rows, i) == {n \in LiveRows(rows) : rows[n].by = i}

\* Mutation: the years are reclaimed before the batches that use them.
ReclaimedEarly(i) ==
    LET gone == By(students, i)
        used(m) == {mappings[n].batch : n \in {k \in LiveRows(m) : m[k].student \notin gone}}
        chapters == [n \in DOMAIN subjects |-> subjects[n].chapters \ {i}]
        idle == {s \in By(subjects, i) : chapters[s] = {}}
        empty == By(batches, i) \ used(mappings)
    IN  [students |-> gone, batches |-> empty, subjects |-> idle,
         courses |-> {c \in By(courses, i) :
             /\ \A b \in LiveRows(batches) \ empty : batches[b].course # c
             /\ \A s \in LiveRows(subjects) \ idle : subjects[s].course # c},
         years |-> {y \in By(years, i) :
             /\ \A b \in LiveRows(batches) : y \notin {batches[b].from, batches[b].to}
             /\ \A s \in LiveRows(subjects) : subjects[s].year # y
             /\ \A n \in LiveRows(students) \ gone : students[n].year # y}]

\* Its students, then its batches without a mapping, its subjects without a
\* chapter, its courses and its years that nothing live refers to.
Reclaimed(i) ==
    LET gone == By(students, i)
        used(m) == {mappings[n].batch : n \in {k \in LiveRows(m) : m[k].student \notin gone}}
        chapters == [n \in DOMAIN subjects |-> subjects[n].chapters \ {i}]
        idle == {s \in By(subjects, i) : chapters[s] = {}}
        empty == By(batches, i) \ used(mappings)
    IN  [students |-> gone, batches |-> empty, subjects |-> idle,
         courses |-> {c \in By(courses, i) :
             /\ \A b \in LiveRows(batches) \ empty : batches[b].course # c
             /\ \A s \in LiveRows(subjects) \ idle : subjects[s].course # c},
         years |-> {y \in By(years, i) :
             /\ \A b \in LiveRows(batches) \ empty : y \notin {batches[b].from, batches[b].to}
             /\ \A s \in LiveRows(subjects) \ idle : subjects[s].year # y
             /\ \A n \in LiveRows(students) \ gone : students[n].year # y}]

UndoImport(i) ==
    LET gone == Reclaimed(i)
        pruned == [n \in DOMAIN subjects |->
                      [subjects[n] EXCEPT !.chapters = @ \ {i}]]
    IN  /\ students' = Retired(students, gone.students)
        /\ mappings' = Retired(mappings, {n \in DOMAIN mappings : mappings[n].student \in gone.students})
        /\ batches' = Retired(batches, gone.batches)
        /\ subjects' = Retired(pruned, gone.subjects)
        /\ courses' = Retired(courses, gone.courses)
        /\ years' = Retired(years, gone.years)
        /\ Meeting(None)
        /\ UNCHANGED <<jobs, moves, edits, strays>>

-----------------------------------------------------------------------------
(* The office.                                                              *)

Edit == /\ edits < MaxEdits /\ edits' = edits + 1
        /\ Meeting(None)
        /\ UNCHANGED <<jobs, moves>>

CreateYear(start) ==
    /\ Edit /\ years' = Append(years, [start |-> start, by |-> Office, live |-> TRUE])
    /\ UNCHANGED <<courses, subjects, batches, roster>>

\* delete_academic_year looks at the batches alone.
DeleteYear(y) ==
    /\ Edit /\ y \in LiveRows(years)
    /\ \A b \in LiveRows(batches) : y \notin {batches[b].from, batches[b].to}
    /\ years' = Retired(years, {y}) /\ UNCHANGED <<courses, subjects, batches, roster>>

\* create_course, with a standard set of subjects on request, in the last year.
CreateCourse(length, seeded) ==
    LET new == [Tables EXCEPT !.courses = Append(@,
                   [length |-> length, duration |-> length, by |-> Office, live |-> TRUE])]
        last == {y \in LiveRows(years) : \A z \in LiveRows(years) : years[z].start <= years[y].start}
        db == IF seeded /\ last # {} THEN Seeded(new, Len(new.courses), Min(last), Office) ELSE new
    IN  /\ Edit /\ courses' = db.courses /\ subjects' = db.subjects
        /\ UNCHANGED <<years, batches, roster>>

\* update_course: the batches keep the years they were given.
UpdateCourse(c, duration) ==
    /\ Edit /\ c \in LiveRows(courses)
    /\ courses' = [courses EXCEPT ![c].duration = duration]
    /\ UNCHANGED <<years, subjects, batches, roster>>

\* delete_course looks at the batches alone.
DeleteCourse(c) ==
    /\ Edit /\ c \in LiveRows(courses)
    /\ \A b \in LiveRows(batches) : batches[b].course # c
    /\ courses' = Retired(courses, {c}) /\ UNCHANGED <<years, subjects, batches, roster>>

\* import_syllabus and backfill_curriculum: chapters the imports did not make,
\* on a subject that is made when the course has none.
LoadSyllabus(c, y) ==
    LET own == {s \in LiveRows(subjects) : subjects[s].course = c}
    IN  /\ Edit /\ c \in LiveRows(courses) /\ y \in LiveRows(years)
        /\ subjects' = IF own = {}
               THEN Append(subjects, [course |-> c, year |-> y, by |-> Office,
                                      chapters |-> {Office}, live |-> TRUE])
               ELSE [subjects EXCEPT ![Min(own)].chapters = @ \cup {Office}]
        /\ UNCHANGED <<years, courses, batches, roster>>

DeleteSubject(s) ==
    /\ Edit /\ s \in LiveRows(subjects)
    /\ subjects' = Retired(subjects, {s}) /\ UNCHANGED <<years, courses, batches, roster>>

CreateBatch(code, c, y) ==
    LET db == WithBatch(Tables, code, c, y, Office)
    IN  /\ Edit /\ c \in LiveRows(courses) /\ y \in LiveRows(years) /\ db # Tables
        /\ batches' = db.batches /\ UNCHANGED <<years, courses, subjects, roster>>

\* delete_batch: its students stay mapped to it.
DeleteBatch(b) ==
    /\ Edit /\ b \in LiveRows(batches)
    /\ batches' = Retired(batches, {b}) /\ UNCHANGED <<years, courses, subjects, roster>>

CreateStudent(key, y) ==
    /\ Edit /\ y \in LiveRows(years) /\ (key \in KeysOnFile => key \in Emails)
    /\ students' = Append(students, [key |-> key, year |-> y, by |-> Office, live |-> TRUE])
    /\ UNCHANGED <<structure, mappings, strays>>

\* delete_student leaves the mapping, bulk_delete_students takes it along, and
\* delete_all_students all there are.
DeleteStudent(n) ==
    /\ Edit /\ n \in LiveRows(students)
    /\ students' = Retired(students, {n})
    /\ strays' = strays \cup {m \in LiveRows(mappings) : mappings[m].student = n}
    /\ UNCHANGED <<structure, mappings>>
DeleteStudents(gone) ==
    /\ Edit /\ gone # {} /\ gone \subseteq LiveRows(students)
    /\ students' = Retired(students, gone)
    /\ mappings' = Retired(mappings, {m \in DOMAIN mappings : mappings[m].student \in gone})
    /\ UNCHANGED <<structure, strays>>
DeleteAllStudents ==
    /\ Edit /\ LiveRows(students) # {}
    /\ students' = Retired(students, DOMAIN students) /\ mappings' = Retired(mappings, DOMAIN mappings)
    /\ UNCHANGED <<structure, strays>>

\* bulk_update_students with a batch: retire the mappings there are, add others.
BeginMove(who, b) ==
    LET old == {m \in LiveRows(mappings) : mappings[m].student \in who}
    IN  /\ edits < MaxEdits /\ edits' = edits + 1
        /\ who # {} /\ who \subseteq LiveRows(students) /\ b \in LiveRows(batches)
        /\ moves' = moves \cup {[who |-> who, batch |-> b, old |-> old, id |-> edits']}
        /\ crossed' = (crossed \/ UnderWay)
        /\ UNCHANGED <<structure, roster, jobs>>
CommitMove(move) ==
    /\ mappings' = Retired(mappings, move.old) \o
           SetToSeq({[student |-> n, batch |-> move.batch, live |-> TRUE] : n \in move.who})
    /\ moves' = moves \ {move}
    /\ crossed' = (crossed \/ moves # {move} \/ \E n \in DOMAIN jobs : Running(jobs[n]))
    /\ UNCHANGED <<structure, students, strays, jobs, edits>>

ImportStep ==
    \/ \E file \in Files, create \in BOOLEAN : StartImport(file, create)
    \/ \E i \in DOMAIN jobs :
          \/ BeginImport(i) \/ CommitChunk(i) \/ FinishImport(i)
          \/ FailImport(i) \/ DieImporting(i) \/ UndoImport(i)
OfficeStep ==
    \/ \E start \in FirstYear..LastYear : CreateYear(start)
    \/ \E y \in DOMAIN years :
          \/ DeleteYear(y)
          \/ \E key \in Key : CreateStudent(key, y)
          \/ \E c \in DOMAIN courses :
                LoadSyllabus(c, y) \/ \E code \in Code : CreateBatch(code, c, y)
    \/ \E length \in Lengths, seeded \in BOOLEAN : CreateCourse(length, seeded)
    \/ \E c \in DOMAIN courses : DeleteCourse(c) \/ \E d \in Lengths : UpdateCourse(c, d)
    \/ \E s \in DOMAIN subjects : DeleteSubject(s)
    \/ \E b \in DOMAIN batches : DeleteBatch(b)
    \/ \E n \in DOMAIN students : DeleteStudent(n)
    \/ \E who \in SUBSET DOMAIN students :
          DeleteStudents(who) \/ \E b \in DOMAIN batches : BeginMove(who, b)
    \/ DeleteAllStudents
    \/ \E move \in moves : CommitMove(move)

EnrolmentNext == ImportStep \/ OfficeStep

EnrolmentSpec == EnrolmentInit /\ [][EnrolmentNext]_enrolmentVars

-----------------------------------------------------------------------------
(* Properties.                                                              *)

EnrolmentTypeOK ==
    /\ \A y \in DOMAIN years : years[y].start \in Nat /\ years[y].by \in 0..Len(jobs)
    /\ \A b \in DOMAIN batches : batches[b].course \in DOMAIN courses
                              /\ {batches[b].from, batches[b].to} \subseteq DOMAIN years
    /\ \A s \in DOMAIN subjects : subjects[s].course \in DOMAIN courses
                               /\ subjects[s].chapters \subseteq 0..Len(jobs)
    /\ \A n \in DOMAIN students : students[n].key \in Key \cup {NoKey}
    /\ \A m \in DOMAIN mappings : mappings[m].student \in DOMAIN students
                               /\ mappings[m].batch \in DOMAIN batches

\* While nothing meets, undoing and deleting never takes a course or a year from
\* under a batch that is kept, whoever made which.
BatchesGrounded ==
    crossed \/ \A b \in LiveRows(batches) :
        courses[batches[b].course].live /\ years[batches[b].from].live /\ years[batches[b].to].live

\* While nothing meets, importing files again and again, with repeats in them and
\* after imports that failed half way, never adds a student who is on file.
ImportsNeverDouble ==
    crossed \/ \A n, m \in LiveRows(students) :
        n < m /\ students[n].key = students[m].key /\ students[n].key # NoKey =>
            students[m].by = Office

\* However imports and moves meet, a number is that of one live student, and a
\* job that is through counted the students it added.
NumbersUnique ==
    \A n, m \in LiveRows(students) :
        n # m /\ students[n].key = students[m].key => students[n].key \in Emails \cup {NoKey}
CountsTrue ==
    \A i \in DOMAIN jobs :
        jobs[i].imported = Cardinality({n \in DOMAIN students : students[n].by = i})

\* A student is in one batch, unless requests met.
OneBatchEach ==
    crossed \/ \A n, m \in LiveRows(mappings) : mappings[n].student = mappings[m].student => n = m

\* A live mapping is of a live student, unless requests met or delete_student
\* left it.
MappingsHeld ==
    crossed \/ \A m \in LiveRows(mappings) : students[mappings[m].student].live \/ m \in strays

\* Of a file without repeats an import writes the rows its preview counted.
PreviewTells ==
    \A file \in Files :
        LET keys == {file[n].key : n \in DOMAIN file}
        IN  Cardinality(keys) = Len(file) /\ keys \cap KeysOnFile = {} /\ ~ YearsJam(Tables, file) =>
                Importable(file) = Range(Pending(Structured(file, Len(jobs), TRUE), file))

\* Of a grid without repeats an import writes no row that had an error, and every
\* other row whose batch is asked for alike in all of them: the years each such row
\* needs by itself are then enough to make the batch.
GridTells ==
    \A file \in Files, create \in BOOLEAN :
        LET keys == {file[n].key : n \in DOMAIN file}
            written == Range(Pending(Structured(file, Len(jobs), create), file))
            alike(n) == \A m \in DOMAIN file :
                file[m].batch = file[n].batch => Plan(file, {m}) = Plan(file, {n})
        IN  Cardinality(keys) = Len(file) /\ ~ YearsJam(Tables, file) =>
                /\ written \subseteq Clean(file, create)
                /\ {n \in Clean(file, create) : file[n].batch = NoBatch \/ alike(n)} \subseteq written

EnrolmentSound == /\ BatchesGrounded /\ ImportsNeverDouble /\ NumbersUnique
                  /\ CountsTrue /\ OneBatchEach /\ MappingsHeld /\ PreviewTells /\ GridTells

\* What an undone import leaves of its own, somebody uses: a batch has a live
\* student, a subject chapters, a course batches or subjects, a year any of them.
\* This needs the order of the steps of undo_import.  Unless requests met, only
\* students deleted one at a time keep a batch without any: undo_import counts
\* the mappings that delete_student leaves, though it means to "reclaim ones with
\* no remaining (live) student".
UndoLeavesNothingIdle ==
    [][\A i \in DOMAIN jobs : UndoImport(i) =>
          /\ \A b \in By(batches, i)' : \E m \in LiveRows(mappings)' :
                /\ mappings'[m].batch = b
                /\ students'[mappings'[m].student].live \/ m \in strays' \/ crossed'
          /\ \A s \in By(subjects, i)' : subjects'[s].chapters # {}
          /\ \A c \in By(courses, i)' :
                \/ \E b \in LiveRows(batches)' : batches'[b].course = c
                \/ \E s \in LiveRows(subjects)' : subjects'[s].course = c
          /\ \A y \in By(years, i)' :
                \/ \E b \in LiveRows(batches)' : y \in {batches'[b].from, batches'[b].to}
                \/ \E s \in LiveRows(subjects)' : subjects'[s].year = y
                \/ \E n \in LiveRows(students)' : students'[n].year = y]_enrolmentVars
=============================================================================
