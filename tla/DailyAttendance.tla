---------------------------- MODULE DailyAttendance ----------------------------
(***************************************************************************)
(* One working day of a batch: punches of the terminals, the day register  *)
(* (Layer 1), the lecture rosters projected from it (Layer 2), marks by    *)
(* hand, the absent sweeps and the messages to parents                     *)
(* (attendance/services/daily_service.py, attendance_service.py,           *)
(* integrations/biomax, jobs/tasks.py).                                    *)
(*                                                                         *)
(* A request reads the tables when it begins and writes when it commits;   *)
(* other requests may commit in between.  A row that was read is written   *)
(* back column by column, and a column that equals the one read is not     *)
(* written.  The day is cut into hours; two punches of one hour are within *)
(* DUPLICATE_WINDOW of one another.                                        *)
(***************************************************************************)
EXTENDS Integers, Sequences, FiniteSets, SequencesExt, FiniteSetsExt, Functions, Bags

CONSTANTS Enrolled, Worker,
          Notified,   \* the students in a batch with messages switched on
          Lecture,    \* the lectures of the day: [from, to]
          Punches,    \* the punches <<student, hour>> the terminals will record
          Starts,     \* the class start times the batch is given, grace included
          LastHour,   \* the hour of the nightly sweep: SWEEP_LOCAL_HOUR
          CloseHour,      \* when the campus closes
          Delay,      \* POST_LECTURE_DELAY_MIN
          DayMarks,   \* the statuses marked by hand for a day, of _MANUAL_STATUSES
          LectureMarks, \* and for a lecture, of VALID_ATTENDANCE_STATUSES
          DigestAll   \* daily_digest_scope is ALL

ASSUME AttendanceAssumption ==
    /\ Notified \subseteq Enrolled
    /\ \A l \in Lecture : l.from \in Nat /\ l.to \in Nat /\ l.from < l.to /\ l.to <= LastHour
    /\ Punches \subseteq Enrolled \X (1 .. LastHour)
    /\ Starts \subseteq Nat /\ Starts # {} /\ LastHour \in Nat /\ CloseHour \in Nat
    /\ Delay \in Nat /\ DayMarks \subseteq {"PRESENT", "LATE", "ABSENT"} /\ "none" \notin LectureMarks
    /\ DigestAll \in BOOLEAN

VARIABLES held,     \* the punches the terminals keep: recorded and not acked
          log,      \* raw_punch_logs: for each student the bag of hours
          register, \* daily_attendance: the day row of each student
          roster,   \* attendance_records: the rows of a student and a lecture
          absences, \* the STUDENT_ABSENT events emitted for each student
          digests,  \* the DAILY_ATTENDANCE_DIGEST events: status, by the sweep or not
          hour,     \* the time
          start,    \* class_start_time of the batch
          request,  \* what each worker will write when it commits
          loose,    \* history: students with punches stored without a rebuild
          overtaken     \* history: a request committed that another had overtaken

attendanceTables == <<held, log, register, roster, absences, digests, start, loose>>
attendanceVars == <<attendanceTables, hour, request, overtaken>>

NoRow == [status |-> "none", source |-> "none", first |-> 0, last |-> 0]
NoRecord == [status |-> "none", source |-> "none"]
ManualSources == {"MANUAL", "MANUAL_OVERRIDE"}
DayStatuses == {"PRESENT", "LATE", "ABSENT"}

Idle == [kind |-> "idle"]

\* One punch more.
Stored(hours, h) == hours (+) SetToBag({h})

AttendanceInit ==
    /\ held = {} /\ log = [s \in Enrolled |-> EmptyBag]
    /\ register = [s \in Enrolled |-> NoRow]
    /\ roster = [x \in Enrolled \X Lecture |-> <<>>]
    /\ absences = [s \in Enrolled |-> 0] /\ digests = [s \in Enrolled |-> <<>>]
    /\ hour = 0 /\ start \in Starts
    /\ request = [w \in Worker |-> Idle]
    /\ loose = {} /\ overtaken = FALSE

-----------------------------------------------------------------------------
(* What a day row and a lecture record say.                                 *)

\* _classify: the first punch decides, a single punch is no punch-out.
Classified(hours, cutoff) ==
    IF hours = EmptyBag THEN [status |-> "ABSENT", source |-> "SYSTEM", first |-> 0, last |-> 0]
    ELSE LET first == Min(BagToSet(hours))
         IN  [status |-> IF first <= cutoff THEN "PRESENT" ELSE "LATE",
              source |-> "BIOMETRIC", first |-> first,
              last   |-> IF BagCardinality(hours) > 1 THEN Max(BagToSet(hours)) ELSE 0]

\* Mutation: what a human entered is rebuilt like any row.
RebuiltAlways(row, hours) == Classified(hours, start)

\* rebuild_daily: "human edit wins".
Rebuilt(row, hours) == IF row.source = "MANUAL" THEN row ELSE Classified(hours, start)

\* lecture_status_from_day: a student without a punch-out stayed until close.
OnLecture(row, l) ==
    LET out == IF row.last = 0 THEN CloseHour ELSE row.last
    IN  IF \/ row.status \in {"none", "ABSENT"} \/ row.first = 0
           \/ row.first >= l.to \/ out <= l.from
        THEN "ABSENT"
        ELSE IF row.first <= l.from THEN "PRESENT" ELSE "LATE"

\* project_day_onto_lecture, of a student whose record is at most one.
ProjectedRecord(row, records, l) ==
    IF records # <<>> /\ records[1].source \in ManualSources THEN records[1]
    ELSE [status |-> OnLecture(row, l),
          source |-> IF row.status \in {"none", "ABSENT"} THEN "SYSTEM" ELSE "BIOMETRIC"]

\* What the session writes for a row it read as "old" and made "new".
Written(old, new) ==
    [insert |-> old \in {NoRow, NoRecord},
     columns |-> Restrict(new, {c \in DOMAIN new : new[c] # old[c]})]
Patched(row, w) == [c \in DOMAIN row |-> IF c \in DOMAIN w.columns THEN w.columns[c] ELSE row[c]]

RegisterWrites(rows) ==
    [s \in {x \in Enrolled : rows[x] # register[x]} |-> Written(register[s], rows[s])]

\* get_existing_attendance raises when it finds two rows.
Jammed(lectures) == \E x \in Enrolled \X lectures : Len(roster[x]) > 1

RosterWrites(rows, lectures) ==
    LET was(x) == IF roster[x] = <<>> THEN NoRecord ELSE roster[x][1]
        new(x) == ProjectedRecord(rows[x[1]], roster[x], x[2])
    IN  [x \in {y \in Enrolled \X lectures : new(y) # was(y)} |-> Written(was(x), new(x))]

-----------------------------------------------------------------------------
(* Requests.                                                                *)

\* The punch, the rows and records written, who is reported absent, and the digests.
Work(punch, rows, records, absent, digest) ==
    [kind |-> "open", late |-> FALSE, punch |-> punch, rows |-> rows, records |-> records,
     absent |-> absent, digest |-> digest, broken |-> punch # {} /\ Jammed(Lecture)]

BeginWork(w, what) ==
    /\ request[w] = Idle
    /\ request' = [request EXCEPT ![w] = what]
    /\ UNCHANGED <<attendanceTables, hour, overtaken>>

\* Those under way have read what is now out of date.
Overtaken(w) == [x \in Worker |-> IF x = w THEN Idle
                                  ELSE IF request[x] = Idle THEN Idle
                                  ELSE [request[x] EXCEPT !.late = TRUE]]

\* Mutation: the day is rebuilt before the new punch is flushed.
BeginIngestEarly(w, p) ==
    LET s == p[1]
        rows == [register EXCEPT ![s] = Rebuilt(@, log[s])]
    IN  /\ p \in held /\ p[2] \notin DOMAIN log[s]
        /\ BeginWork(w, Work({p}, RegisterWrites(rows),
                 IF Jammed(Lecture) THEN <<>> ELSE RosterWrites(rows, Lecture), {}, <<>>))

\* ingest_punches of a punch no duplicate of which is stored, rebuild_after_ingest
\* and project_after_ingest, up to where the projection raises.
BeginIngest(w, p) ==
    LET s == p[1]
        rows == [register EXCEPT ![s] = Rebuilt(@, Stored(log[s], p[2]))]
    IN  /\ p \in held /\ p[2] \notin DOMAIN log[s]
        /\ BeginWork(w, Work({p}, RegisterWrites(rows),
                 IF Jammed(Lecture) THEN <<>> ELSE RosterWrites(rows, Lecture), {}, <<>>))

\* A duplicate touches no row and is acked; the ack may be lost, here as ever.
AckDuplicate(p) ==
    /\ p \in held /\ p[2] \in DOMAIN log[p[1]]
    /\ held' = held \ {p}
    /\ UNCHANGED <<log, register, roster, absences, digests, hour, start, request, loose, overtaken>>

\* process_raw_punches of a lecture: every student of the batch gets a day row.
BeginProcess(w, l) ==
    LET rows == [s \in Enrolled |-> Rebuilt(register[s], log[s])]
    IN  /\ ~ Jammed({l})
        /\ BeginWork(w, Work({}, RegisterWrites(rows), RosterWrites(rows, {l}), {}, <<>>))

\* recompute_range: the rows that exist are rebuilt, the rosters are left.
BeginRecompute(w) ==
    LET rows == [s \in Enrolled |-> IF register[s] = NoRow THEN NoRow
                                   ELSE Rebuilt(register[s], log[s])]
    IN  BeginWork(w, Work({}, RegisterWrites(rows), <<>>, {}, <<>>))

\* manual_mark_day: no times are kept, and the rosters are left.
BeginMarkDay(w, s, status) ==
    LET row == [status |-> status, source |-> "MANUAL", first |-> 0, last |-> 0]
    IN  BeginWork(w, Work({}, RegisterWrites([register EXCEPT ![s] = row]), <<>>, {}, <<>>))

\* mark_attendance.
BeginMarkLecture(w, s, l, status) ==
    LET old == IF roster[<<s, l>>] = <<>> THEN NoRecord ELSE roster[<<s, l>>][1]
    IN  /\ ~ Jammed({l})
        /\ BeginWork(w, Work({}, <<>>,
                 [x \in {<<s, l>>} |-> Written(old, [status |-> status, source |-> "MANUAL"])], {}, <<>>))

Swept(missing) == [s \in Enrolled |-> IF s \in missing THEN Classified(EmptyBag, start) ELSE register[s]]
Missing == {s \in Enrolled : register[s] = NoRow}

\* run_daily_digest: once per student and day, whoever asked for it.
Digested(rows) ==
    {s \in Notified : digests[s] = <<>> /\ (DigestAll \/ rows[s].status \notin {"PRESENT", "LATE"})}

\* sweep_due_branches: run_absent_sweep, then the digest, in one transaction.
BeginSweep(w) ==
    LET rows == Swept(Missing)
    IN  /\ hour = LastHour
        /\ BeginWork(w, Work({}, RegisterWrites(rows), <<>>, Missing \cap Notified,
                          [s \in Digested(rows) |-> rows[s].status]))

\* notify_absent_after_last_lecture.
BeginPostLecture(w) ==
    /\ \A l \in Lecture : l.to + Delay <= hour
    /\ LET absent == Missing \cap Notified
       IN  BeginWork(w, Work({}, RegisterWrites(Swept(absent)), <<>>, absent, <<>>))

\* The unique constraint: the row was inserted by another request meanwhile.
Conflicting(r) == \E s \in DOMAIN r.rows : r.rows[s].insert /\ register[s] # NoRow

\* Mutation: a row that is there already is taken over, and the message goes out.
CommitAnyway(w, acked) ==
    LET r == request[w]
    IN  /\ r # Idle
        /\ log' = [s \in Enrolled |-> log[s] (+) SetToBag({p[2] : p \in {q \in r.punch : q[1] = s}})]
        /\ register' = [s \in Enrolled |-> IF s \in DOMAIN r.rows THEN Patched(register[s], r.rows[s])
                                          ELSE register[s]]
        /\ absences' = [s \in Enrolled |-> absences[s] + (IF s \in r.absent THEN 1 ELSE 0)]
        /\ held' = IF acked THEN held \ r.punch ELSE held
        /\ request' = Overtaken(w)
        /\ overtaken' = (overtaken \/ r.late)
        /\ UNCHANGED <<roster, digests, hour, start, loose>>

\* The transaction commits.  A punch of which the projection raised is stored by
\* the AIData handler all the same (it answers 500 and the session commits).
CommitWork(w, acked) ==
    LET r == request[w]
    IN  /\ r # Idle /\ ~ Conflicting(r)
        /\ acked => ~ r.broken
        /\ log' = [s \in Enrolled |-> log[s] (+) SetToBag({p[2] : p \in {q \in r.punch : q[1] = s}})]
        /\ register' = [s \in Enrolled |-> IF s \in DOMAIN r.rows THEN Patched(register[s], r.rows[s])
                                          ELSE register[s]]
        /\ roster' = [x \in DOMAIN roster |->
              IF x \notin DOMAIN r.records THEN roster[x]
              ELSE IF r.records[x].insert THEN Append(roster[x], Patched(NoRecord, r.records[x]))
              ELSE [roster[x] EXCEPT ![1] = Patched(@, r.records[x])]]
        /\ absences' = [s \in Enrolled |-> absences[s] + (IF s \in r.absent THEN 1 ELSE 0)]
        /\ digests' = [s \in Enrolled |-> IF s \in DOMAIN r.digest
              THEN Append(digests[s], [status |-> r.digest[s], nightly |-> TRUE]) ELSE digests[s]]
        /\ held' = IF acked THEN held \ r.punch ELSE held
        /\ loose' = loose \ {s \in Enrolled : r.punch # {} /\ s \in DOMAIN r.rows}
        /\ request' = Overtaken(w)
        /\ overtaken' = (overtaken \/ r.late)
        /\ UNCHANGED <<hour, start>>

\* The transaction is rolled back: the constraint is broken, the projection
\* raised (the iclock handler), or the worker died.  The beat and the terminals
\* try again.
Rollback(w) ==
    /\ request[w] # Idle
    /\ request' = [request EXCEPT ![w] = Idle]
    /\ UNCHANGED <<attendanceTables, hour, overtaken>>

Hurry == request' = [x \in Worker |-> IF request[x] = Idle THEN Idle
                                      ELSE [request[x] EXCEPT !.late = TRUE]]

\* receive_raw_punches stores what the agent sends, tests and rebuilds nothing.
ReceiveRaw(p) ==
    /\ p \in held
    /\ log' = [log EXCEPT ![p[1]] = Stored(@, p[2])]
    /\ held' = held \ {p} /\ loose' = loose \cup {p[1]}
    /\ Hurry /\ UNCHANGED <<register, roster, absences, digests, hour, start, overtaken>>

\* notify_selected_students: the status of the moment; it looks up
\* no earlier digest (bound: asked for at most once).
NotifySelected(s) ==
    /\ digests[s] = <<>>
    /\ digests' = [digests EXCEPT ![s] = Append(@, [nightly |-> FALSE, status |->
          IF register[s] = NoRow THEN "ABSENT" ELSE register[s].status])]
    /\ Hurry /\ UNCHANGED <<held, log, register, roster, absences, hour, start, loose, overtaken>>

SetClassStart(h) ==
    /\ start # h /\ start' = h
    /\ Hurry /\ UNCHANGED <<held, log, register, roster, absences, digests, hour, loose, overtaken>>

\* Time passes; the terminals record the punches of the hour.
Tick ==
    /\ hour < LastHour /\ hour' = hour + 1
    /\ held' = held \cup {p \in Punches : p[2] = hour + 1}
    /\ UNCHANGED <<log, register, roster, absences, digests, start, request, loose, overtaken>>

AttendanceNext ==
    \/ \E w \in Worker :
          \/ \E p \in held : BeginIngest(w, p)
          \/ \E l \in Lecture : BeginProcess(w, l)
          \/ BeginRecompute(w) \/ BeginSweep(w) \/ BeginPostLecture(w)
          \/ \E s \in Enrolled, status \in DayMarks : BeginMarkDay(w, s, status)
          \/ \E s \in Enrolled, l \in Lecture, status \in LectureMarks :
                BeginMarkLecture(w, s, l, status)
          \/ \E acked \in BOOLEAN : CommitWork(w, acked)
          \/ Rollback(w)
    \/ \E p \in held : AckDuplicate(p) \/ ReceiveRaw(p)
    \/ \E s \in Enrolled : NotifySelected(s)
    \/ \E h \in Starts : SetClassStart(h)
    \/ Tick

AttendanceSpec == AttendanceInit /\ [][AttendanceNext]_attendanceVars

-----------------------------------------------------------------------------
(* Properties.                                                              *)

AttendanceTypeOK ==
    /\ held \subseteq Punches
    /\ \A s \in Enrolled :
          /\ register[s].status \in DayStatuses \cup {"none"}
          /\ register[s].source \in {"BIOMETRIC", "SYSTEM", "MANUAL", "none"}
          /\ overtaken \/ (register[s].last # 0 => register[s].first # 0)
    /\ \A x \in DOMAIN roster : \A n \in DOMAIN roster[x] :
          roster[x][n].status \in DayStatuses \cup LectureMarks

\* A parent is told once a day, at most, that the child is absent, although two
\* jobs tell it (after the last lecture and at night), both run again and again,
\* overlap and die: the message goes with the row, and the row is unique.
AbsentToldOnce == \A s \in Enrolled : absences[s] <= 1

\* Unless a request was overtaken, the night's digest goes out once.
DigestOnce ==
    overtaken \/ \A s \in Enrolled :
        Cardinality({n \in DOMAIN digests[s] : digests[s][n].nightly}) <= 1

\* What the parents hear of a day.
ParentsToldOnce == AbsentToldOnce /\ DigestOnce

\* "Never overwritten by automated rebuilds/sweeps" (decision 7): what was marked
\* by hand changes by hand, unless a request was overtaken by it.
HandMarkStays ==
    [][\A s \in Enrolled :
          (register[s].source = "MANUAL" /\ ~ overtaken')
              => register'[s].source = "MANUAL"]_attendanceVars

\* The register tells what the terminals delivered: unless a request was
\* overtaken, a row that no human made spans all the punches stored, and every
\* student with punches has a row; late, repeated and reordered ones included.
RegisterMatchesLog ==
    overtaken \/ \A s \in Enrolled \ loose :
        (log[s] # EmptyBag /\ register[s].source # "MANUAL")
            => /\ register[s].source = "BIOMETRIC"
               /\ register[s].first = Min(BagToSet(log[s]))
               /\ BagCardinality(log[s]) > 1 => register[s].last = Max(BagToSet(log[s]))

\* One roster row per student and lecture, unless a request was overtaken (no
\* constraint keeps it, and a second row stops every later projection).
OneRecordPerLecture == overtaken \/ \A x \in DOMAIN roster : Len(roster[x]) <= 1

\* Both layers: the day register and the rosters projected from it.
RecordsMatchLog == RegisterMatchesLog /\ OneRecordPerLecture
=============================================================================
