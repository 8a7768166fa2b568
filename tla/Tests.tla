------------------------------- MODULE Tests -------------------------------
(***************************************************************************)
(* One test of the test portal: its paper, the marks that reach it by hand,*)
(* by the result file of the answer sheets, by one file per subject, by    *)
(* reviewed rows and by single answers, and the rank list they make        *)
(* (tests/services/test_service.py, repositories/test_repository.py).      *)
(*                                                                         *)
(* A request reads everything it needs in one step, "Begin...", and writes *)
(* and commits in another; in between a second examiner may commit.  No    *)
(* table has a unique key beside its id: what one request found missing,   *)
(* two may insert, and the lookups that expect one row raise from then on. *)
(***************************************************************************)
EXTENDS Integers, Sequences, FiniteSets, FiniteSetsExt, Functions

CONSTANTS Student, Examiner, Subject, Question, Answer,
          Stranger,      \* a PRN that is no student's
          PaperTotal,    \* total_marks of the test
          SubjectTotals, \* what create_test is given as total of a subject
          Sheets,        \* result files: sequences of rows, a PRN with a score
          AnswerFiles,   \* answers by student and question
          Points,        \* marks_allocated to a question
          MaxPaper,      \* bound: questions put on the paper
          MaxWork        \* bound: requests that read before they write

NoTotal == -1

ASSUME TestsAssumption ==
    /\ Stranger \notin Student
    /\ IsFiniteSet(Student) /\ IsFiniteSet(Subject) /\ IsFiniteSet(Question)
    /\ PaperTotal \in Nat /\ Points \subseteq Nat
    /\ SubjectTotals \subseteq Nat \cup {NoTotal}
    /\ \A sheet \in Sheets : sheet \in Seq([prn : Student \cup {Stranger}, score : Nat])
    /\ \A file \in AnswerFiles : DOMAIN file \subseteq Student \X Question
    /\ MaxPaper \in Nat /\ MaxWork \in Nat

VARIABLES test,         \* the row of the test
          bank,         \* questions: those not deleted, their answer and review
          paper,        \* test_questions, in the order added
          enrolled,     \* the batch of each student, "first" being the primary
          marks,        \* student_marks, in the order inserted, of each student
          subjectMarks, \* test_subject_marks that are not deleted
          reviews,      \* test_import_reviews that are not deleted
          responses,    \* student_responses: their marks, by student and question
          files,        \* the storage: answer-key files
          marking,      \* the request each examiner is in
          begun,        \* how many requests were begun
          outbox,       \* the events the last step emitted
          disturbed,    \* history: two requests were under way at once
          basis,        \* history: where the mark of a student came from
          lost          \* history: rows a file replaced without the mark they are in

testTables == <<test, bank, paper, marks, subjectMarks, reviews, responses>>
testsVars == <<testTables, enrolled, files, marking, begun, outbox, disturbed, basis, lost>>

Batches == {"first", "second"}
NoTest == [status |-> "none", deleted |-> FALSE, batches |-> {}, totals |-> [u \in {} |-> 0], key |-> "none"]

\* Percentages are compared with the one limit that reports count by.
Passed(score, max) == max > 0 /\ 100 * score >= 33 * max
Grade(score, max) == IF Passed(score, max) THEN "passed" ELSE "F"
NoMark == [score |-> 0, max |-> 0, absent |-> TRUE, grade |-> "no mark"]
Present(score, max) ==
    [score |-> score, max |-> max, absent |-> FALSE, grade |-> Grade(score, max)]
Absent(max) == [score |-> 0, max |-> max, absent |-> TRUE, grade |-> "none"]

\* What a request has read and will write; "was" is the row a lookup found.
NoWork == [kind |-> "none"]
Work(kind) == [kind |-> kind, marks |-> [s \in {} |-> [was |-> NoMark, new |-> NoMark]],
               dropped |-> {}, added |-> {}, cleared |-> {}, unmatched |-> {},
               answers |-> [x \in {} |-> 0], resolved |-> {}, by |-> Stranger,
               changes |-> [c \in {} |-> ""], emits |-> {}]

TestsInit ==
    /\ test = NoTest /\ bank = [q \in {} |-> 0] /\ paper = <<>>
    /\ enrolled \in [Student -> Batches \cup {"none"}]
    /\ marks = [s \in Student |-> <<>>] /\ subjectMarks = {} /\ reviews = {}
    /\ responses = [x \in Student \X Question |-> <<>>]
    /\ files = {} /\ marking = [e \in Examiner |-> NoWork] /\ begun = 0
    /\ outbox = {} /\ disturbed = FALSE /\ basis = [s \in Student |-> "none"]
    /\ lost = {}

Live == test # NoTest /\ ~ test.deleted

BeginMarking(e, work) ==
    /\ marking[e] = NoWork /\ begun < MaxWork
    /\ marking' = [marking EXCEPT ![e] = work]
    /\ begun' = begun + 1
    /\ disturbed' = (disturbed \/ \E d \in Examiner : marking[d] # NoWork)
    /\ outbox' = {}
    /\ UNCHANGED <<testTables, enrolled, basis, lost>>

\* A handler that looks nothing up that it writes.
AtOnce ==
    outbox' = {} /\ UNCHANGED <<enrolled, files, marking, begun, disturbed, basis, lost>>

-----------------------------------------------------------------------------
(* Questions and the paper.                                                 *)

NewQuestion(q, answer) ==
    /\ q \notin DOMAIN bank
    /\ bank' = [p \in (DOMAIN bank) \cup {q} |->
                   IF p = q THEN [live |-> TRUE, answer |-> answer, review |-> "approved"]
                   ELSE bank[p]]
    /\ AtOnce /\ UNCHANGED <<test, paper, marks, subjectMarks, reviews, responses>>

Revise(q, row) ==
    /\ q \in DOMAIN bank /\ bank[q].live
    /\ bank' = [bank EXCEPT ![q] = row]
    /\ AtOnce /\ UNCHANGED <<test, paper, marks, subjectMarks, reviews, responses>>

\* update_question: marks given for the old answer stay.
CorrectAnswer(q, answer) ==
    q \in DOMAIN bank /\ Revise(q, [bank[q] EXCEPT !.answer = answer])

DeleteQuestion(q) == q \in DOMAIN bank /\ Revise(q, [bank[q] EXCEPT !.live = FALSE])

\* bulk_set_review_status: deleted questions are skipped.
SetReview(qs, status) ==
    /\ qs # {} /\ qs \subseteq DOMAIN bank
    /\ bank' = [q \in DOMAIN bank |->
                   IF q \in qs /\ bank[q].live THEN [bank[q] EXCEPT !.review = status]
                   ELSE bank[q]]
    /\ AtOnce /\ UNCHANGED <<test, paper, marks, subjectMarks, reviews, responses>>

\* A mark per subject, some mark or none; the first batch is the primary one.
CreateTest(batches, totals) ==
    /\ test = NoTest
    /\ "first" \in batches /\ DOMAIN totals # {}
    /\ test' = [NoTest EXCEPT !.status = "DRAFT", !.batches = batches, !.totals = totals]
    /\ AtOnce /\ UNCHANGED <<bank, paper, marks, subjectMarks, reviews, responses>>

\* add_questions_to_test: whatever the status is, and a question twice.
AddQuestion(q, points) ==
    /\ Live /\ q \in DOMAIN bank /\ Len(paper) < MaxPaper
    /\ paper' = Append(paper, [question |-> q, points |-> points])
    /\ AtOnce /\ UNCHANGED <<test, bank, marks, subjectMarks, reviews, responses>>

DeleteTest ==
    /\ Live /\ test' = [test EXCEPT !.deleted = TRUE]
    /\ AtOnce /\ UNCHANGED <<bank, paper, marks, subjectMarks, reviews, responses>>

BeginPublish(e) ==
    /\ Live /\ test.status \in {"DRAFT", "SCHEDULED"}
    /\ BeginMarking(e, [Work("publish") EXCEPT
           !.changes = [c \in {"status"} |-> "ACTIVE"], !.emits = {"TEST_UPLOADED"}])
    /\ UNCHANGED files

\* set_answer_key: the storage is written, and the old file dropped, before
\* the commit.
BeginAnswerKey(e, name) ==
    /\ Live
    /\ files' = (files \ {test.key}) \cup {name}
    /\ BeginMarking(e, [Work("key") EXCEPT !.changes = [c \in {"key"} |-> name]])

-----------------------------------------------------------------------------
(* Marks.                                                                   *)

\* get_student_mark raises when it finds two rows.
Jammed(students) == \E s \in students : Len(marks[s]) > 1
RowOf(s) == IF marks[s] = <<>> THEN NoMark ELSE marks[s][1]

\* update_student_mark skips what is None: who is absent now keeps the grade.
Updated(was, new) ==
    IF was # NoMark /\ new.grade = "none" THEN [new EXCEPT !.grade = was.grade] ELSE new
Upserted(new) ==
    [s \in DOMAIN new |-> [was |-> RowOf(s), new |-> Updated(RowOf(s), new[s])]]

\* submit_marks, of one student.
BeginSubmit(e, s, mark) ==
    /\ Live /\ ~ Jammed({s})
    /\ BeginMarking(e, [Work("hand") EXCEPT
           !.marks = Upserted([t \in {s} |-> mark]), !.emits = {"MARKS_UPDATED"}])
    /\ UNCHANGED files

\* _batch_roster of some batches.
Roster(batches) == {s \in Student : enrolled[s] \in batches}

\* The rows that name nobody of the roster; "upload" and "line" are their ids.
Review(sheet, line, subject) ==
    [upload |-> begun + 1, line |-> line, score |-> sheet[line].score,
     subject |-> subject, by |-> Stranger]
ReviewId(r) == <<r.upload, r.line>>
Unmatched(sheet, lines, roster, subject) ==
    {Review(sheet, n, subject) : n \in {m \in lines : sheet[m].prn \notin roster}}

\* upload_result: the primary batch; of two rows with one PRN the last counts.
BeginUploadResult(e, sheet) ==
    LET roster == Roster({"first"})
        lines(s) == {n \in DOMAIN sheet : sheet[n].prn = s}
    IN  /\ Live /\ ~ Jammed(roster)
        /\ BeginMarking(e, [Work("omr") EXCEPT
               !.marks = Upserted([s \in roster |->
                   IF lines(s) = {} THEN Absent(PaperTotal)
                   ELSE Present(sheet[Max(lines(s))].score, PaperTotal)]),
               !.cleared = {ReviewId(r) : r \in reviews},
               !.unmatched = Unmatched(sheet, DOMAIN sheet, roster, "all"),
               !.emits = {"MARKS_UPDATED"}])
        /\ UNCHANGED files

TotalOf(rows) == SumFunction([r \in rows |-> r.score])
Possible == SumFunction([u \in DOMAIN test.totals |->
                            IF test.totals[u] = NoTotal THEN 0 ELSE test.totals[u]])

\* _recompute_aggregate_marks: absent is who is present in no subject.
Aggregate(s, rows) ==
    LET present == {r \in rows : r.student = s /\ ~ r.absent}
    IN  IF present = {} THEN Absent(Possible) ELSE Present(TotalOf(present), Possible)

\* Mutation: the absences of an earlier file of the subject stay.
ReplacedPresent(subject) == {r \in subjectMarks : r.subject = subject /\ ~ r.absent}

\* The rows of an earlier file of the subject.
Replaced(subject) == {r \in subjectMarks : r.subject = subject}

\* upload_subject_csv: all batches; a row above the total of the subject is an
\* error, and its student absent; both rows of a PRN count.
BeginUploadSubject(e, subject, sheet) ==
    LET total  == test.totals[subject]
        roster == Roster(test.batches \cup {"first"})
        lines  == {n \in DOMAIN sheet : total = NoTotal \/ sheet[n].score <= total}
        Row(s, n, score, absent) == [upload |-> begun + 1, line |-> n, student |-> s,
                                     subject |-> subject, score |-> score, absent |-> absent]
        sat    == {Row(sheet[n].prn, n, sheet[n].score, FALSE) :
                      n \in {m \in lines : sheet[m].prn \in roster}}
        missed == {Row(s, 0, 0, TRUE) : s \in roster \ {r.student : r \in sat}}
        rows   == (subjectMarks \ Replaced(subject)) \cup sat \cup missed
    IN  /\ Live /\ subject \in DOMAIN test.totals /\ ~ Jammed(roster)
        /\ BeginMarking(e, [Work("subject") EXCEPT
               !.marks = [s \in roster |-> [was |-> RowOf(s), new |-> Aggregate(s, rows)]],
               !.dropped = Replaced(subject), !.added = sat \cup missed,
               !.cleared = {ReviewId(r) : r \in {q \in reviews : q.subject = subject}},
               !.unmatched = Unmatched(sheet, lines, roster, subject),
               !.emits = {"MARKS_UPDATED"}])
        /\ UNCHANGED files

\* resolve_review: the mark of a row of one subject becomes that of the test.
BeginResolve(e, r, s) ==
    /\ Live /\ r \in reviews /\ r.by = Stranger /\ ~ Jammed({s})
    /\ BeginMarking(e, [Work("resolve") EXCEPT
           !.marks = Upserted([t \in {s} |-> Present(r.score, PaperTotal)]),
           !.resolved = {ReviewId(r)}, !.by = s])
    /\ UNCHANGED files

-----------------------------------------------------------------------------
(* Single answers.                                                          *)

OnPaper == {paper[n].question : n \in DOMAIN paper}

\* A question that is on the paper twice counts as it was added last.
PointsOf(q) == paper[Max({n \in DOMAIN paper : paper[n].question = q})].points

\* submit_responses: a question that was deleted has no right answer; the sum
\* takes in the answers given before, and the grade stays.
BeginResponses(e, file) ==
    LET given == {x \in DOMAIN file : x[2] \in OnPaper}
        earned == [x \in given |-> IF bank[x[2]].live /\ file[x] = bank[x[2]].answer
                                   THEN PointsOf(x[2]) ELSE 0]
        max == SumFunction([q \in OnPaper |-> PointsOf(q)])
        OfAnswer(x) == IF x \in given THEN earned[x]
                       ELSE IF responses[x] = <<>> THEN 0 ELSE responses[x][1]
        score(s) == SumFunction([x \in {s} \X Question |-> OfAnswer(x)])
        touched == {x[1] : x \in given}
        new(s) == [score |-> score(s), max |-> max, absent |-> FALSE,
                   grade |-> IF RowOf(s) = NoMark THEN "none" ELSE RowOf(s).grade]
    IN  /\ Live /\ paper # <<>> /\ ~ Jammed(touched)
        /\ \A x \in given : Len(responses[x]) <= 1
        /\ BeginMarking(e, [Work("answers") EXCEPT
               !.marks = [s \in touched |-> [was |-> RowOf(s), new |-> new(s)]],
               !.answers = [x \in given |-> [fresh |-> responses[x] = <<>>, earned |-> earned[x]]]])
        /\ UNCHANGED files

-----------------------------------------------------------------------------
(* The end of a request.                                                    *)

\* The columns a request changed are written, to the row it read.
Merged(now, was, new) == [c \in DOMAIN now |-> IF new[c] = was[c] THEN now[c] ELSE new[c]]
WrittenMarks(s, w) ==
    IF s \notin DOMAIN w.marks THEN marks[s]
    ELSE IF w.marks[s].was = NoMark THEN Append(marks[s], w.marks[s].new)
    ELSE [marks[s] EXCEPT ![1] = Merged(@, w.marks[s].was, w.marks[s].new)]
WrittenAnswers(x, w) ==
    IF x \notin DOMAIN w.answers THEN responses[x]
    ELSE IF w.answers[x].fresh THEN Append(responses[x], w.answers[x].earned)
    ELSE [responses[x] EXCEPT ![1] = w.answers[x].earned]

CommitMarking(e) ==
    LET w == marking[e]
        kept == {r \in reviews : ReviewId(r) \notin w.cleared}
    IN  /\ w # NoWork
        /\ test' = [c \in DOMAIN test |-> IF c \in DOMAIN w.changes THEN w.changes[c] ELSE test[c]]
        /\ marks' = [s \in Student |-> WrittenMarks(s, w)]
        /\ subjectMarks' = (subjectMarks \ w.dropped) \cup w.added
        /\ reviews' = w.unmatched \cup
               {IF ReviewId(r) \in w.resolved THEN [r EXCEPT !.by = w.by] ELSE r : r \in kept}
        /\ responses' = [x \in DOMAIN responses |-> WrittenAnswers(x, w)]
        /\ outbox' = w.emits
        /\ basis' = [s \in Student |-> IF s \in DOMAIN w.marks THEN w.kind ELSE basis[s]]
        /\ lost' = {r \in lost \cup (subjectMarks \cap w.dropped) : r.student \notin DOMAIN w.marks}
        /\ marking' = [marking EXCEPT ![e] = NoWork]
        /\ UNCHANGED <<bank, paper, enrolled, files, begun, disturbed>>

\* A request fails before its commit; a file it stored stays.
Abandon(e) ==
    /\ marking[e] # NoWork
    /\ marking' = [marking EXCEPT ![e] = NoWork]
    /\ disturbed' = TRUE /\ outbox' = {}
    /\ UNCHANGED <<testTables, enrolled, files, begun, basis, lost>>

\* External: a student changes batch, or leaves.
Enrol(s, batch) ==
    /\ batch # enrolled[s]
    /\ enrolled' = [enrolled EXCEPT ![s] = batch]
    /\ outbox' = {}
    /\ UNCHANGED <<testTables, files, marking, begun, disturbed, basis, lost>>

-----------------------------------------------------------------------------
(* What is read off the marks.                                              *)

\* The live rows of the test, by student and position.
MarkRows == UNION {{s} \X DOMAIN marks[s] : s \in Student}
MarkAt(i) == marks[i[1]][i[2]]
Appeared == {i \in MarkRows : ~ MarkAt(i).absent}

\* get_ranklist: who scored more decides.
Rank(i) == 1 + Cardinality({j \in Appeared : MarkAt(j).score > MarkAt(i).score})

\* generate_report.
Report == [appeared |-> Cardinality(Appeared), absent |-> Cardinality(MarkRows \ Appeared),
           pass |-> Cardinality({i \in Appeared : Passed(MarkAt(i).score, MarkAt(i).max)}),
           highest |-> Max({0} \cup {MarkAt(i).score : i \in Appeared})]

\* _subject_columns: none unless some subject has a total of its own.
Columns(s) ==
    IF \E u \in DOMAIN test.totals : test.totals[u] # NoTotal
    THEN {r \in subjectMarks : r.student = s} ELSE {}

QuestionStep ==
    \/ \E q \in Question, a \in Answer : NewQuestion(q, a) \/ CorrectAnswer(q, a)
    \/ \E q \in Question : DeleteQuestion(q)
    \/ \E qs \in SUBSET Question, r \in {"approved", "rejected"} : SetReview(qs, r)
    \/ \E q \in Question, p \in Points : AddQuestion(q, p)

TestStep ==
    \/ \E bs \in SUBSET Batches, us \in SUBSET Subject :
          \E totals \in [us -> SubjectTotals] : CreateTest(bs, totals)
    \/ DeleteTest
    \/ \E e \in Examiner :
          BeginPublish(e) \/ \E name \in {"key.pdf", "new.pdf"} : BeginAnswerKey(e, name)

MarksStep ==
    \/ \E e \in Examiner, s \in Student, n \in {1, 2} : BeginSubmit(e, s, Present(n, PaperTotal))
    \/ \E e \in Examiner, s \in Student : BeginSubmit(e, s, Absent(PaperTotal))
    \/ \E e \in Examiner, sheet \in Sheets :
          \/ BeginUploadResult(e, sheet)
          \/ \E u \in Subject : BeginUploadSubject(e, u, sheet)
    \/ \E e \in Examiner, r \in reviews, s \in Student : BeginResolve(e, r, s)
    \/ \E e \in Examiner, file \in AnswerFiles : BeginResponses(e, file)

TestsNext ==
    \/ QuestionStep \/ TestStep \/ MarksStep
    \/ \E e \in Examiner : CommitMarking(e) \/ Abandon(e)
    \/ \E s \in Student, b \in Batches \cup {"none"} : Enrol(s, b)

TestsSpec == TestsInit /\ [][TestsNext]_testsVars

-----------------------------------------------------------------------------
(* Properties.                                                              *)

TestsTypeOK ==
    /\ test.status \in {"none", "DRAFT", "ACTIVE"} /\ test.deleted \in BOOLEAN
    /\ enrolled \in [Student -> Batches \cup {"none"}]
    /\ \A s \in Student : \A n \in DOMAIN marks[s] :
          /\ marks[s][n].score \in Nat /\ marks[s][n].max \in Nat
          /\ marks[s][n].grade \in {"none", "passed", "F"}
    /\ \A r \in subjectMarks : r.student \in Student /\ r.subject \in DOMAIN test.totals
    /\ \A r \in reviews : r.by \in Student \cup {Stranger}

\* While requests do not meet, a student has one mark and one answer to a
\* question, so that the lookups go on working ...
OneMarkEach ==
    disturbed \/ /\ ~ Jammed(Student)
                 /\ \A x \in DOMAIN responses : Len(responses[x]) <= 1

\* ... and in a subject is absent once or present, from one file.
OneFileASubject ==
    disturbed \/ \A r, q \in subjectMarks :
        r.student = q.student /\ r.subject = q.subject /\ r # q =>
            r.upload = q.upload /\ ~ r.absent /\ ~ q.absent

\* The mark that came from the files of the subjects is what rows say, however
\* they were uploaded, replaced and entered in between.  For whoever was on the
\* roster of the last file these are the live rows.  Whoever had left when a
\* subject was uploaded again keeps a mark that has the replaced rows in it,
\* where _recompute_aggregate_marks speaks of "their per-subject rows" and
\* upload_subject_csv "replaces this subject's prior marks".  The mark is within
\* the totals unless a file names a student twice.
SubjectsAddUp ==
    disturbed \/ \A s \in Student : basis[s] = "subject" =>
        LET rows == {r \in subjectMarks \cup lost : r.student = s}
            present == {r \in rows : ~ r.absent}
            mark == marks[s][1]
        IN  /\ mark.absent = (present = {})
            /\ mark.score = TotalOf(present)
            /\ (/\ \A r, q \in rows : r.subject = q.subject => r = q
                /\ \A u \in DOMAIN test.totals : test.totals[u] # NoTotal)
               => mark.score <= mark.max

\* The report and the rank list agree, on who appeared, passed and came first.
ReportMatchesRanks ==
    /\ Report.appeared + Report.absent = Cardinality(MarkRows)
    /\ Report.pass <= Report.appeared
    /\ \A i \in Appeared : /\ Rank(i) <= Report.appeared
                           /\ Rank(i) = 1 <=> MarkAt(i).score = Report.highest

\* The key on record is in the storage, but for requests that met or failed
\* and while one is under way.
KeyStored ==
    \/ disturbed \/ test.key \in files \cup {"none"}
    \/ \E e \in Examiner : marking[e].kind = "key"

\* What the portal shows of a test is sound (the five above).
MarksSound ==
    OneMarkEach /\ OneFileASubject /\ SubjectsAddUp /\ ReportMatchesRanks /\ KeyStored

\* While requests do not meet, the parents hear of a test once, and a row that
\* was given to a student stays with that student.
MarkingStands ==
    ~ disturbed' =>
        /\ "TEST_UPLOADED" \in outbox' => test.status # "ACTIVE"
        /\ \A r \in reviews, q \in reviews' :
              ReviewId(r) = ReviewId(q) /\ r.by # Stranger => q.by = r.by

(* get_ranklist: "it's always in sync".  A mark that came from the files of  *)
(* the subjects and their reviewed rows is the sum of the columns beside it. *)
RankListInSync ==
    disturbed \/ \A s \in Student :
        basis[s] \in {"subject", "resolve"} /\ Columns(s) # {} =>
            marks[s][1].score = TotalOf({r \in Columns(s) : ~ r.absent})
=============================================================================
