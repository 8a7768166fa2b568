------------------------ MODULE DailyAttendance_proofs ------------------------
(***************************************************************************)
(* For any students, lectures, punches and workers: parents are told once  *)
(* of an absence, and, as long as no request commits that another has      *)
(* overtaken, the register and the rosters tell what the log tells, the    *)
(* digest of the night goes out once, and a mark by hand stays.            *)
(* A request that nobody overtook is "Fresh": what it writes is right for  *)
(* the tables as they are now, and not only as they were when it began.    *)
(*                                                                         *)
(* For any staff, punches, shifts, holidays and sessions: everything the   *)
(* office reads of the month tells one story, and, while no two sessions   *)
(* meet, a row tells its punches or what was entered by hand.              *)
(*                                                                         *)
(* For any teachers, subjects, numbers and uploads: the registry of the    *)
(* staff holds together, and so does the timetable that is imported over   *)
(* it.  Requests read in one step and commit in another: what one session  *)
(* is about to write either agrees with the tables or will be refused      *)
(* ("BeatenOrNot"), which the unique index on the numbers alone ensures.   *)
(* Uploads are folds over the rows of a sheet; what holds of them is shown *)
(* of the rows gone through so far.                                        *)
(***************************************************************************)
EXTENDS DailyAttendance, StaffAttendance, TimetableSheets, Sums_proofs, FiniteSetTheorems,
        SequenceTheorems, TLAPS

\* A row of the register: the row that is not there has no status.
RowShape(r) == r = [status |-> r.status, source |-> r.source, first |-> r.first, last |-> r.last]
NewRow(r) == RowShape(r) /\ r.status \in DayStatuses
RowOK(r) == r = NoRow \/ NewRow(r)

\* A row that is inserted gets a status; one that is not was there.
WriteOK(write, row) ==
    /\ "status" \in DOMAIN write.columns => write.columns["status"] \in DayStatuses
    /\ IF write.insert THEN "status" \in DOMAIN write.columns ELSE row # NoRow
RecordWriteOK(write) ==
    /\ "status" \in DOMAIN write.columns => write.columns["status"] # "none"
    /\ write.insert => "status" \in DOMAIN write.columns

\* A request has its fields and no others.
Shaped(r) ==
    r = [kind |-> "open", late |-> r.late, punch |-> r.punch, rows |-> r.rows,
         records |-> r.records, absent |-> r.absent, digest |-> r.digest, broken |-> r.broken]

\* Whom it reports absent it gives a row.
RequestOK(r) ==
    /\ Shaped(r) /\ r.late \in BOOLEAN
    /\ DOMAIN r.rows \subseteq Enrolled
    /\ \A s \in DOMAIN r.rows : WriteOK(r.rows[s], register[s])
    /\ \A s \in r.absent : s \in DOMAIN r.rows /\ r.rows[s].insert
    /\ \A x \in DOMAIN r.records : RecordWriteOK(r.records[x])

BagOK(bag) == bag = [h \in DOMAIN bag |-> bag[h]] /\ \A h \in DOMAIN bag : bag[h] \in Int

\* Who was reported absent has a row, and so is not reported again.
Typed ==
    /\ DOMAIN register = Enrolled /\ \A s \in Enrolled : RowOK(register[s])
    /\ DOMAIN log = Enrolled /\ \A s \in Enrolled : BagOK(log[s])
    /\ DOMAIN roster = Enrolled \X Lecture
    /\ DOMAIN absences = Enrolled /\ DOMAIN digests = Enrolled
    /\ \A s \in Enrolled : absences[s] = 0 \/ (absences[s] = 1 /\ register[s] # NoRow)
    /\ DOMAIN request = Worker
    /\ \A w \in Worker : request[w] = Idle \/ RequestOK(request[w])
    /\ start \in Starts /\ overtaken \in BOOLEAN

-----------------------------------------------------------------------------
(* What a request leaves when it commits.                                   *)

RowAfter(r, s) == IF s \in DOMAIN r.rows THEN Patched(register[s], r.rows[s]) ELSE register[s]
Hours(punch, s) == {p[2] : p \in {q \in punch : q[1] = s}}
LogAfter(r, s) == log[s] (+) SetToBag(Hours(r.punch, s))
LooseAfter(r) == loose \ {s \in Enrolled : r.punch # {} /\ s \in DOMAIN r.rows}

\* The row says what the punches say, at the start time of some moment.
Says(row, hours) ==
    (hours # EmptyBag /\ row.source # "MANUAL") => \E cutoff \in Starts : row = Classified(hours, cutoff)

Fresh(r) ==
    /\ \A s \in Enrolled : register[s].source = "MANUAL" => RowAfter(r, s).source = "MANUAL"
    /\ \A s \in Enrolled \ LooseAfter(r) : Says(RowAfter(r, s), LogAfter(r, s))
    /\ \A x \in DOMAIN r.records : r.records[x].insert => roster[x] = <<>>
    /\ \A s \in DOMAIN r.digest : digests[s] = <<>>

AtMostOne(q) == q = <<>> \/ q = <<q[1]>>
RecordOK(e) == "status" \in DOMAIN e /\ e["status"] # "none"

Calm == ~ overtaken =>
    /\ \A s \in Enrolled \ loose : Says(register[s], log[s])
    /\ \A x \in Enrolled \X Lecture :
          AtMostOne(roster[x]) /\ (roster[x] # <<>> => RecordOK(roster[x][1]))
    /\ \A s \in Enrolled : AtMostOne(digests[s])
    /\ \A w \in Worker : (request[w] # Idle /\ ~ request[w].late) => Fresh(request[w])

-----------------------------------------------------------------------------
(* Rows and bags.                                                           *)

\* What is computed from punches is a row.
LEMMA ClassifiedRow ==
    ASSUME NEW hours, NEW cutoff
    PROVE  NewRow(Classified(hours, cutoff))
<1>1. CASE hours = EmptyBag
  BY <1>1 DEF Classified, NewRow, RowShape, DayStatuses
<1>2. CASE hours # EmptyBag
  <2>1. PICK first, last, n : /\ first = Min(BagToSet(hours)) /\ last = Max(BagToSet(hours))
                              /\ n = BagCardinality(hours)
    OBVIOUS
  <2>2. Classified(hours, cutoff)
          = [status |-> IF first <= cutoff THEN "PRESENT" ELSE "LATE",
             source |-> "BIOMETRIC", first |-> first, last |-> IF n > 1 THEN last ELSE 0]
    BY <1>2, <2>1 DEF Classified
  <2> QED BY <2>2 DEF NewRow, RowShape, DayStatuses
<1> QED BY <1>1, <1>2

\* A rebuilt row is the mark by hand, or says what the punches say.
LEMMA RebuiltSays ==
    ASSUME NEW row, RowOK(row), NEW hours, start \in Starts
    PROVE  /\ Rebuilt(row, hours) = row \/ NewRow(Rebuilt(row, hours))
           /\ Says(Rebuilt(row, hours), hours)
           /\ row.source = "MANUAL" => Rebuilt(row, hours) = row
BY ClassifiedRow DEF Rebuilt, Says

\* Writing the columns that differ makes the old row the new one.
LEMMA PatchedWritten ==
    ASSUME NEW row, RowShape(row), NEW new, RowShape(new)
    PROVE  Patched(row, Written(row, new)) = new
<1> DEFINE F == {"status", "source", "first", "last"}
           C == {c \in DOMAIN new : new[c] # row[c]}
<1>1. /\ DOMAIN row = F /\ row = [c \in F |-> row[c]]
      /\ DOMAIN new = F /\ new = [c \in F |-> new[c]]
  BY DEF RowShape
<1>2. PICK w : w = Written(row, new)
  OBVIOUS
<1>3. w.columns = [c \in C |-> new[c]]
  BY <1>2 DEF Written, Restrict
<1>4. Patched(row, w) = [c \in F |-> IF c \in DOMAIN w.columns THEN w.columns[c] ELSE row[c]]
  BY <1>1 DEF Patched
<1>5. \A c \in F : (IF c \in DOMAIN w.columns THEN w.columns[c] ELSE row[c]) = new[c]
  BY <1>1, <1>3
<1>6. Patched(row, w) = [c \in F |-> new[c]]
  BY <1>4, <1>5
<1> QED BY <1>1, <1>2, <1>6

\* What is written for a row that changes: a row that is not there is inserted.
LEMMA WrittenOK ==
    ASSUME NEW row, RowOK(row), NEW new, NewRow(new)
    PROVE  WriteOK(Written(row, new), row) /\ (Written(row, new).insert <=> row = NoRow)
<1>1. NoRow # NoRecord /\ RowShape(NoRow) /\ NoRow["status"] = "none"
  <2>1. DOMAIN NoRow # DOMAIN NoRecord
    BY DEF NoRow, NoRecord
  <2> QED BY <2>1 DEF RowShape, NoRow
<1>2. RowShape(row) /\ RowShape(new) /\ row # NoRecord
  <2>1. "first" \in DOMAIN row
    BY <1>1 DEF RowOK, NewRow, RowShape
  <2> QED BY <1>1, <2>1 DEF RowOK, NewRow, NoRecord
<1>3. PICK w : w = Written(row, new)
  OBVIOUS
<1>4. w.insert = (row \in {NoRow, NoRecord}) /\ w.columns = [c \in {x \in DOMAIN new : new[x] # row[x]} |-> new[c]]
  BY <1>3 DEF Written, Restrict
<1>5. "status" \in DOMAIN new /\ new["status"] \in DayStatuses /\ new["status"] # "none"
  BY DEF NewRow, RowShape, DayStatuses
<1>6. DOMAIN w.columns = {x \in DOMAIN new : new[x] # row[x]}
  BY <1>4
<1>7. "status" \in DOMAIN w.columns => w.columns["status"] \in DayStatuses
  BY <1>4, <1>5, <1>6
<1>8. row = NoRow => "status" \in DOMAIN w.columns
  BY <1>1, <1>5, <1>6
<1> QED BY <1>2, <1>3, <1>4, <1>7, <1>8 DEF WriteOK

\* A written row stays a row, and is there.
LEMMA PatchedOK ==
    ASSUME NEW row, RowOK(row), NEW write, WriteOK(write, row)
    PROVE  NewRow(Patched(row, write)) /\ Patched(row, write) # NoRow
<1> DEFINE F == {"status", "source", "first", "last"}
           new == Patched(row, write)
<1>1. RowShape(row) /\ DOMAIN row = F
  BY DEF RowOK, NewRow, RowShape, NoRow
<1>2. new = [c \in F |-> IF c \in DOMAIN write.columns THEN write.columns[c] ELSE row[c]]
  BY <1>1 DEF Patched
<1>3. new["status"] \in DayStatuses
  BY <1>2 DEF WriteOK, RowOK, NewRow
<1> HIDE DEF new
<1>4. new = [status |-> new["status"], source |-> new["source"],
             first |-> new["first"], last |-> new["last"]]
  BY <1>2
<1>5. NewRow(new)
  BY <1>3, <1>4 DEF NewRow, RowShape
<1>6. new # NoRow
  BY <1>3 DEF NoRow, DayStatuses
<1> QED BY <1>5, <1>6 DEF new

\* No punch more is the same bag; one punch more is Stored.
LEMMA BagGrows ==
    ASSUME NEW bag, BagOK(bag)
    PROVE  /\ bag (+) SetToBag({}) = bag
           /\ \A h : bag (+) SetToBag({h}) = Stored(bag, h)
           /\ \A H : BagOK(bag (+) SetToBag(H))
           /\ \A h : BagOK(Stored(bag, h))
<1>1. ASSUME NEW H
      PROVE  bag (+) SetToBag(H)
               = [e \in (DOMAIN bag) \cup H |-> (IF e \in DOMAIN bag THEN bag[e] ELSE 0)
                                                 + (IF e \in H THEN 1 ELSE 0)]
  BY DEF (+), SetToBag
<1>2. ASSUME NEW H PROVE BagOK(bag (+) SetToBag(H))
  <2>1. PICK b : b = bag (+) SetToBag(H)
    OBVIOUS
  <2>2. b = [e \in (DOMAIN bag) \cup H |-> (IF e \in DOMAIN bag THEN bag[e] ELSE 0)
                                              + (IF e \in H THEN 1 ELSE 0)]
    BY <1>1, <2>1
  <2>3. \A e \in DOMAIN b : b[e] \in Int
    BY <2>2 DEF BagOK
  <2>4. b = [e \in DOMAIN b |-> b[e]]
    BY <2>2
  <2> QED BY <2>1, <2>3, <2>4 DEF BagOK
<1>3. bag (+) SetToBag({}) = bag
  <2>1. PICK H : H = {}
    OBVIOUS
  <2>2. (DOMAIN bag) \cup H = DOMAIN bag
    BY <2>1
  <2>3. bag (+) SetToBag(H)
          = [e \in DOMAIN bag |-> (IF e \in DOMAIN bag THEN bag[e] ELSE 0) + (IF e \in H THEN 1 ELSE 0)]
    BY <1>1, <2>2
  <2>4. \A e \in DOMAIN bag :
           (IF e \in DOMAIN bag THEN bag[e] ELSE 0) + (IF e \in H THEN 1 ELSE 0) = bag[e]
    BY <2>1 DEF BagOK
  <2>5. bag (+) SetToBag(H) = [e \in DOMAIN bag |-> bag[e]]
    BY <2>3, <2>4
  <2> QED BY <2>1, <2>5 DEF BagOK
<1>4. \A h : bag (+) SetToBag({h}) = Stored(bag, h)
  BY DEF Stored
<1>5. ASSUME NEW h PROVE BagOK(Stored(bag, h))
  BY <1>2, <1>4
<1> QED BY <1>2, <1>3, <1>4, <1>5

-----------------------------------------------------------------------------
(* Requests.                                                                *)

\* A row that is there stays.
RowsStay == \A s \in Enrolled : register[s] # NoRow => register'[s] # NoRow

\* A request keeps what it will write when it becomes late.
LEMMA MadeLate ==
    ASSUME NEW r, Shaped(r), NEW l, l = [r EXCEPT !.late = TRUE]
    PROVE  /\ Shaped(l) /\ l.late = TRUE /\ l # Idle
           /\ l.rows = r.rows /\ l.absent = r.absent /\ l.records = r.records
<1> DEFINE F == {"kind", "late", "punch", "rows", "records", "absent", "digest", "broken"}
<1>1. DOMAIN r = F /\ r["kind"] = "open"
  BY DEF Shaped
<1>2. l = [f \in F |-> IF f = "late" THEN TRUE ELSE r[f]]
  BY <1>1
<1>3. /\ l["kind"] = "open" /\ l["late"] = TRUE /\ l["rows"] = r["rows"]
      /\ l["absent"] = r["absent"] /\ l["records"] = r["records"]
  BY <1>1, <1>2
<1>4. l = [f \in F |-> l[f]]
  BY <1>2
<1>5. l = [kind |-> l["kind"], late |-> l["late"], punch |-> l["punch"], rows |-> l["rows"],
           records |-> l["records"], absent |-> l["absent"], digest |-> l["digest"],
           broken |-> l["broken"]]
  BY <1>4
<1>6. Idle["kind"] = "idle"
  BY DEF Idle
<1> QED BY <1>3, <1>5, <1>6 DEF Shaped

\* Those under way become late, or are done.
LEMMA LateKeeps ==
    ASSUME Typed, RowsStay, NEW done,
           request' = [x \in Worker |-> IF x \in done \/ request[x] = Idle THEN Idle
                                        ELSE [request[x] EXCEPT !.late = TRUE]]
    PROVE  /\ DOMAIN request' = Worker
           /\ \A x \in Worker : (request[x] = Idle \/ RequestOK(request[x]))'
           /\ \A x \in Worker : request'[x] # Idle => request'[x].late
<1>1. DOMAIN request' = Worker
  OBVIOUS
<1>2. ASSUME NEW x \in Worker, request'[x] # Idle
      PROVE  request'[x].late /\ (RequestOK(request[x]))'
  <2>1. PICK r : r = request[x]
    OBVIOUS
  <2>2. PICK l : l = [r EXCEPT !.late = TRUE]
    OBVIOUS
  <2>3. request'[x] = l /\ RequestOK(r)
    BY <1>2, <2>1, <2>2 DEF Typed
  <2>4. /\ Shaped(l) /\ l.late = TRUE
        /\ l.rows = r.rows /\ l.absent = r.absent /\ l.records = r.records
    BY <2>2, <2>3, MadeLate DEF RequestOK
  <2>5. \A s \in DOMAIN l.rows : WriteOK(l.rows[s], register'[s])
    BY <2>3, <2>4 DEF RequestOK, WriteOK, RowsStay
  <2>6. RequestOK(l)'
    BY <2>3, <2>4, <2>5 DEF RequestOK
  <2> QED BY <2>3, <2>4, <2>6 DEF RequestOK
<1> QED BY <1>1, <1>2

\* Nothing but requests that become late: what is not late is not there.
LEMMA HurryKeeps ==
    ASSUME Typed, Hurry, RowsStay
    PROVE  /\ DOMAIN request' = Worker
           /\ \A x \in Worker : (request[x] = Idle \/ RequestOK(request[x]))'
           /\ \A x \in Worker : request'[x] # Idle => request'[x].late
<1>1. PICK done : done = {}
  OBVIOUS
<1>2. request' = [x \in Worker |-> IF x \in done \/ request[x] = Idle THEN Idle
                                   ELSE [request[x] EXCEPT !.late = TRUE]]
  BY <1>1 DEF Hurry
<1> QED BY <1>2, LateKeeps

\* The rows that a request writes become what it computed.
LEMMA RegisterWritten ==
    ASSUME Typed, NEW rows, DOMAIN rows = Enrolled,
           \A s \in Enrolled : rows[s] = register[s] \/ NewRow(rows[s]),
           NEW r, r.rows = RegisterWrites(rows)
    PROVE  /\ DOMAIN r.rows = {s \in Enrolled : rows[s] # register[s]}
           /\ \A s \in DOMAIN r.rows : /\ WriteOK(r.rows[s], register[s])
                                       /\ r.rows[s].insert <=> register[s] = NoRow
           /\ \A s \in Enrolled : RowAfter(r, s) = rows[s]
<1>1. /\ DOMAIN r.rows = {s \in Enrolled : rows[s] # register[s]}
      /\ \A s \in DOMAIN r.rows : r.rows[s] = Written(register[s], rows[s])
  BY DEF RegisterWrites
<1>2. ASSUME NEW s \in DOMAIN r.rows
      PROVE  /\ WriteOK(r.rows[s], register[s])
             /\ r.rows[s].insert <=> register[s] = NoRow
             /\ Patched(register[s], r.rows[s]) = rows[s]
  <2>1. RowOK(register[s]) /\ NewRow(rows[s]) /\ r.rows[s] = Written(register[s], rows[s])
    BY <1>1, <1>2 DEF Typed
  <2>2. RowShape(register[s]) /\ RowShape(rows[s])
    BY <2>1 DEF RowOK, NewRow, RowShape, NoRow
  <2> QED BY <2>1, <2>2, WrittenOK, PatchedWritten
<1>3. ASSUME NEW s \in Enrolled
      PROVE  RowAfter(r, s) = rows[s]
  BY <1>1, <1>2 DEF RowAfter
<1> QED BY <1>1, <1>2, <1>3

\* A request begins: it writes rows and records that are right for the tables.
LEMMA BeginWith ==
    ASSUME Typed, Calm, NEW w \in Worker, NEW punch, NEW rows, NEW records, NEW absent, NEW digest,
           BeginWork(w, Work(punch, RegisterWrites(rows), records, absent, digest)),
           DOMAIN rows = Enrolled,
           \A s \in Enrolled : rows[s] = register[s] \/ NewRow(rows[s]),
           \A s \in absent : s \in Enrolled /\ register[s] = NoRow /\ rows[s] # NoRow,
           \A x \in DOMAIN records : RecordWriteOK(records[x]),
           \A s \in Enrolled : register[s].source = "MANUAL" => rows[s].source = "MANUAL",
           ~ overtaken => \A s \in Enrolled :
               (s \notin loose \/ (punch # {} /\ rows[s] # register[s]))
                   => Says(rows[s], log[s] (+) SetToBag(Hours(punch, s))),
           ~ overtaken => \A x \in DOMAIN records : records[x].insert => roster[x] = <<>>,
           \A s \in DOMAIN digest : digests[s] = <<>>
    PROVE  Typed' /\ Calm'
<1>1. PICK r : r = Work(punch, RegisterWrites(rows), records, absent, digest)
  OBVIOUS
<1>2. /\ Shaped(r) /\ r.late = FALSE /\ r.punch = punch /\ r.rows = RegisterWrites(rows)
      /\ r.records = records /\ r.absent = absent /\ r.digest = digest
  BY <1>1 DEF Work, Shaped
<1>3. /\ DOMAIN r.rows = {s \in Enrolled : rows[s] # register[s]}
      /\ \A s \in DOMAIN r.rows : /\ WriteOK(r.rows[s], register[s])
                                  /\ r.rows[s].insert <=> register[s] = NoRow
      /\ \A s \in Enrolled : RowAfter(r, s) = rows[s]
  <2>1. r.rows = RegisterWrites(rows)
    BY <1>2
  <2>2. DOMAIN r.rows = {s \in Enrolled : rows[s] # register[s]}
    BY <2>1 DEF RegisterWrites
  <2>3. \A s \in DOMAIN r.rows : /\ WriteOK(r.rows[s], register[s])
                                 /\ r.rows[s].insert <=> register[s] = NoRow
    BY <2>1, RegisterWritten
  <2>4. \A s \in Enrolled : RowAfter(r, s) = rows[s]
    BY <2>1, RegisterWritten
  <2> QED BY <2>2, <2>3, <2>4
<1>4. RequestOK(r)
  <2>1. \A s \in r.absent : s \in DOMAIN r.rows /\ r.rows[s].insert
    BY <1>2, <1>3
  <2> QED BY <1>2, <1>3, <2>1 DEF RequestOK
<1>5. ~ overtaken => Fresh(r)
  <2> SUFFICES ASSUME ~ overtaken PROVE Fresh(r)
    OBVIOUS
  <2>1. ASSUME NEW s \in Enrolled \ LooseAfter(r)
        PROVE  Says(RowAfter(r, s), LogAfter(r, s))
    <3>1. s \notin loose \/ (punch # {} /\ rows[s] # register[s])
      BY <1>2, <1>3, <2>1 DEF LooseAfter
    <3> QED BY <1>2, <1>3, <3>1 DEF LogAfter
  <2> QED BY <1>2, <1>3, <2>1 DEF Fresh
<1>6. /\ held' = held /\ log' = log /\ register' = register /\ roster' = roster
      /\ absences' = absences /\ digests' = digests /\ start' = start /\ loose' = loose
      /\ overtaken' = overtaken /\ request' = [request EXCEPT ![w] = r]
  BY <1>1 DEF BeginWork, attendanceTables
<1>7. DOMAIN request' = Worker /\ request'[w] = r /\ \A x \in Worker \ {w} : request'[x] = request[x]
  BY <1>6 DEF Typed
<1>8. ASSUME NEW x \in Worker
      PROVE  (request[x] = Idle \/ RequestOK(request[x]))'
  <2>1. request'[x] = Idle \/ RequestOK(request'[x])
    BY <1>4, <1>7 DEF Typed
  <2> QED BY <1>6, <2>1 DEF RequestOK, WriteOK
<1>9. Typed'
  BY <1>6, <1>7, <1>8 DEF Typed
<1>10. ASSUME ~ overtaken, NEW x \in Worker, request'[x] # Idle, ~ request'[x].late
       PROVE  (Fresh(request[x]))'
  <2>1. Fresh(request'[x])
    BY <1>5, <1>7, <1>10 DEF Calm
  <2> QED BY <1>6, <2>1 DEF Fresh, RowAfter, LogAfter, LooseAfter, Says
<1>11. Calm'
  BY <1>6, <1>10 DEF Calm, Says
<1> QED BY <1>9, <1>11

-----------------------------------------------------------------------------
(* What each request writes.                                                *)

\* A projected record has a status; what is inserted was not there.
LEMMA RecordWritten ==
    ASSUME NEW old, NEW new, DOMAIN new = {"status", "source"}, new["status"] # "none"
    PROVE  /\ RecordWriteOK(Written(old, new))
           /\ RecordOK(old) => ~ Written(old, new).insert
<1>1. PICK w : w = Written(old, new)
  OBVIOUS
<1>2. /\ w.insert = (old \in {NoRow, NoRecord})
      /\ w.columns = [c \in {x \in DOMAIN new : new[x] # old[x]} |-> new[c]]
  BY <1>1 DEF Written, Restrict
<1>3. DOMAIN w.columns = {x \in DOMAIN new : new[x] # old[x]}
  BY <1>2
<1>4. NoRow["status"] = "none" /\ NoRecord["status"] = "none"
  BY DEF NoRow, NoRecord
<1>5. "status" \in DOMAIN w.columns => w.columns["status"] # "none"
  BY <1>2, <1>3
<1>6. w.insert => "status" \in DOMAIN w.columns
  BY <1>2, <1>3, <1>4
<1>7. RecordOK(old) => ~ w.insert
  BY <1>2, <1>4 DEF RecordOK
<1> QED BY <1>1, <1>5, <1>6, <1>7 DEF RecordWriteOK

\* The rosters of lectures of the day, projected from the register.
LEMMA RosterWritten ==
    ASSUME Typed, Calm, NEW rows, NEW lectures \in SUBSET Lecture,
           NEW records, records = RosterWrites(rows, lectures)
    PROVE  /\ \A x \in DOMAIN records : RecordWriteOK(records[x])
           /\ ~ overtaken => \A x \in DOMAIN records : records[x].insert => roster[x] = <<>>
<1> DEFINE was(x) == IF roster[x] = <<>> THEN NoRecord ELSE roster[x][1]
           new(x) == ProjectedRecord(rows[x[1]], roster[x], x[2])
<1>1. \A x \in DOMAIN records :
         /\ x \in Enrolled \X lectures /\ new(x) # was(x)
         /\ records[x] = Written(was(x), new(x))
  BY DEF RosterWrites
<1>2. ASSUME NEW x \in DOMAIN records
      PROVE  /\ RecordWriteOK(records[x])
             /\ ~ overtaken => (records[x].insert => roster[x] = <<>>)
  <2>1. PICK n, m : n = new(x) /\ m = was(x)
    OBVIOUS
  <2>2. n = [status |-> OnLecture(rows[x[1]], x[2]),
             source |-> IF rows[x[1]].status \in {"none", "ABSENT"} THEN "SYSTEM" ELSE "BIOMETRIC"]
    BY <1>1, <1>2, <2>1 DEF ProjectedRecord
  <2>3. OnLecture(rows[x[1]], x[2]) \in DayStatuses
    BY DEF OnLecture, DayStatuses
  <2>4. DOMAIN n = {"status", "source"} /\ n["status"] # "none"
    BY <2>2, <2>3 DEF DayStatuses
  <2>5. RecordWriteOK(Written(m, n)) /\ (RecordOK(m) => ~ Written(m, n).insert)
    BY <2>4, RecordWritten
  <2>6. records[x] = Written(m, n)
    BY <1>1, <1>2, <2>1
  <2>7. x \in Enrolled \X Lecture
    BY <1>1, <1>2
  <2>8. ~ overtaken => (roster[x] # <<>> => RecordOK(m))
    BY <2>1, <2>7 DEF Calm
  <2> QED BY <2>5, <2>6, <2>8
<1> QED BY <1>2

\* No punches, no hours.
LEMMA NoHours ==
    ASSUME Typed
    PROVE  \A s \in Enrolled : log[s] (+) SetToBag(Hours({}, s)) = log[s]
<1>1. ASSUME NEW s \in Enrolled
      PROVE  log[s] (+) SetToBag(Hours({}, s)) = log[s]
  <2>1. PICK b, H : b = log[s] /\ H = Hours({}, s)
    OBVIOUS
  <2>2. H = {} /\ BagOK(b)
    BY <2>1 DEF Hours, Typed
  <2>3. b (+) SetToBag({}) = b
    BY <2>2, BagGrows
  <2>4. b (+) SetToBag(H) = b
    BY <2>2, <2>3
  <2> QED BY <2>1, <2>4
<1> QED BY <1>1

\* A punch of one student.
LEMMA OneHour ==
    ASSUME Typed, NEW t \in Enrolled, NEW h, NEW p, p[1] = t, p[2] = h
    PROVE  \A s \in Enrolled : log[s] (+) SetToBag(Hours({p}, s))
                                 = IF s = t THEN Stored(log[s], h) ELSE log[s]
<1>1. ASSUME NEW s \in Enrolled
      PROVE  log[s] (+) SetToBag(Hours({p}, s)) = IF s = t THEN Stored(log[s], h) ELSE log[s]
  <2>1. PICK b, H : b = log[s] /\ H = Hours({p}, s)
    OBVIOUS
  <2>2. /\ BagOK(b)
        /\ s = t => H = {h}
        /\ s # t => H = {}
    BY <2>1 DEF Hours, Typed
  <2>3. b (+) SetToBag({}) = b /\ b (+) SetToBag({h}) = Stored(b, h)
    BY <2>2, BagGrows
  <2>4. b (+) SetToBag(H) = IF s = t THEN Stored(b, h) ELSE b
    BY <2>2, <2>3
  <2> QED BY <2>1, <2>4
<1> QED BY <1>1

\* An ingested punch: the row is rebuilt with it, or is not touched.
LEMMA IngestKeeps ==
    ASSUME Typed, Calm, NEW w \in Worker, NEW p, p[1] \in Enrolled, BeginIngest(w, p)
    PROVE  Typed' /\ Calm'
<1>1. PICK s, h : s = p[1] /\ h = p[2]
  OBVIOUS
<1>2. PICK rows : rows = [register EXCEPT ![s] = Rebuilt(@, Stored(log[s], h))]
  OBVIOUS
<1>3. PICK records : records = IF Jammed(Lecture) THEN <<>> ELSE RosterWrites(rows, Lecture)
  OBVIOUS
<1>4. BeginWork(w, Work({p}, RegisterWrites(rows), records, {}, <<>>))
  BY <1>1, <1>2, <1>3 DEF BeginIngest
<1>5. /\ DOMAIN rows = Enrolled
      /\ \A x \in Enrolled : rows[x] = IF x = s THEN Rebuilt(register[x], Stored(log[x], h))
                                       ELSE register[x]
  BY <1>1, <1>2 DEF Typed
<1>6. \A x \in Enrolled : /\ Rebuilt(register[x], Stored(log[x], h)) = register[x]
                               \/ NewRow(Rebuilt(register[x], Stored(log[x], h)))
                          /\ Says(Rebuilt(register[x], Stored(log[x], h)), Stored(log[x], h))
                          /\ register[x].source = "MANUAL" => Rebuilt(register[x], Stored(log[x], h)) = register[x]
  BY RebuiltSays DEF Typed
<1>7. /\ \A x \in Enrolled : rows[x] = register[x] \/ NewRow(rows[x])
      /\ \A x \in Enrolled : register[x].source = "MANUAL" => rows[x].source = "MANUAL"
  BY <1>5, <1>6
<1>8. /\ \A x \in DOMAIN records : RecordWriteOK(records[x])
      /\ ~ overtaken => \A x \in DOMAIN records : records[x].insert => roster[x] = <<>>
  <2>1. CASE Jammed(Lecture)
    BY <1>3, <2>1
  <2>2. CASE ~ Jammed(Lecture)
    BY <1>3, <2>2, RosterWritten
  <2> QED BY <2>1, <2>2
<1>9. PICK punch : punch = {p}
  OBVIOUS
<1>10. \A x \in Enrolled : log[x] (+) SetToBag(Hours(punch, x))
                             = IF x = s THEN Stored(log[x], h) ELSE log[x]
  BY <1>1, <1>9, OneHour
<1>11. ~ overtaken => \A x \in Enrolled :
          (x \notin loose \/ (punch # {} /\ rows[x] # register[x]))
              => Says(rows[x], log[x] (+) SetToBag(Hours(punch, x)))
  <2> SUFFICES ASSUME ~ overtaken, NEW x \in Enrolled, x \notin loose \/ rows[x] # register[x]
               PROVE  Says(rows[x], log[x] (+) SetToBag(Hours(punch, x)))
    OBVIOUS
  <2>1. CASE x = s
    BY <1>5, <1>6, <1>10, <2>1
  <2>2. CASE x # s
    BY <1>5, <1>10, <2>2 DEF Calm
  <2> QED BY <2>1, <2>2
<1>12. PICK none, nobody : none = <<>> /\ nobody = {}
  OBVIOUS
<1>13. /\ BeginWork(w, Work(punch, RegisterWrites(rows), records, nobody, none))
       /\ \A x \in nobody : x \in Enrolled /\ register[x] = NoRow /\ rows[x] # NoRow
       /\ \A x \in DOMAIN none : digests[x] = <<>>
  BY <1>4, <1>9, <1>12
<1> QED BY <1>5, <1>7, <1>8, <1>11, <1>13, BeginWith

\* A request that takes no punch.
LEMMA BeginQuietly ==
    ASSUME Typed, Calm, NEW w \in Worker, NEW rows, NEW records, NEW absent, NEW digest,
           BeginWork(w, Work({}, RegisterWrites(rows), records, absent, digest)),
           DOMAIN rows = Enrolled,
           \A s \in Enrolled : rows[s] = register[s] \/ NewRow(rows[s]),
           \A s \in absent : s \in Enrolled /\ register[s] = NoRow /\ rows[s] # NoRow,
           \A x \in DOMAIN records : RecordWriteOK(records[x]),
           \A s \in Enrolled : register[s].source = "MANUAL" => rows[s].source = "MANUAL",
           ~ overtaken => \A s \in Enrolled \ loose : Says(rows[s], log[s]),
           ~ overtaken => \A x \in DOMAIN records : records[x].insert => roster[x] = <<>>,
           \A s \in DOMAIN digest : digests[s] = <<>>
    PROVE  Typed' /\ Calm'
<1>1. PICK punch : punch = {}
  OBVIOUS
<1>2. BeginWork(w, Work(punch, RegisterWrites(rows), records, absent, digest))
  BY <1>1
<1>3. \A s \in Enrolled : log[s] (+) SetToBag(Hours(punch, s)) = log[s]
  BY <1>1, NoHours
<1>4. ~ overtaken => \A s \in Enrolled :
          (s \notin loose \/ (punch # {} /\ rows[s] # register[s]))
              => Says(rows[s], log[s] (+) SetToBag(Hours(punch, s)))
  BY <1>1, <1>3
<1> QED BY <1>2, <1>4, BeginWith

\* Every student of the batch, and the roster of one lecture.
LEMMA ProcessKeeps ==
    ASSUME Typed, Calm, NEW w \in Worker, NEW l \in Lecture, BeginProcess(w, l)
    PROVE  Typed' /\ Calm'
<1>1. PICK rows : rows = [s \in Enrolled |-> Rebuilt(register[s], log[s])]
  OBVIOUS
<1>2. PICK lectures : lectures = {l}
  OBVIOUS
<1>3. PICK records : records = RosterWrites(rows, lectures)
  OBVIOUS
<1>4. PICK nobody, none : nobody = {} /\ none = <<>>
  OBVIOUS
<1>5. BeginWork(w, Work({}, RegisterWrites(rows), records, nobody, none))
  BY <1>1, <1>2, <1>3, <1>4 DEF BeginProcess
<1>6. \A s \in Enrolled : /\ Rebuilt(register[s], log[s]) = register[s] \/ NewRow(Rebuilt(register[s], log[s]))
                          /\ Says(Rebuilt(register[s], log[s]), log[s])
                          /\ register[s].source = "MANUAL" => Rebuilt(register[s], log[s]) = register[s]
  BY RebuiltSays DEF Typed
<1>7. /\ DOMAIN rows = Enrolled
      /\ \A s \in Enrolled : rows[s] = register[s] \/ NewRow(rows[s])
      /\ \A s \in Enrolled : register[s].source = "MANUAL" => rows[s].source = "MANUAL"
      /\ \A s \in Enrolled \ loose : Says(rows[s], log[s])
  BY <1>1, <1>6
<1>8. /\ \A x \in DOMAIN records : RecordWriteOK(records[x])
      /\ ~ overtaken => \A x \in DOMAIN records : records[x].insert => roster[x] = <<>>
  <2>1. lectures \in SUBSET Lecture
    BY <1>2
  <2> QED BY <1>3, <2>1, RosterWritten
<1>9. /\ \A s \in nobody : s \in Enrolled /\ register[s] = NoRow /\ rows[s] # NoRow
      /\ \A s \in DOMAIN none : digests[s] = <<>>
  BY <1>4
<1> QED BY <1>5, <1>7, <1>8, <1>9, BeginQuietly

\* The rows that exist are rebuilt.
LEMMA RecomputeKeeps ==
    ASSUME Typed, Calm, NEW w \in Worker, BeginRecompute(w)
    PROVE  Typed' /\ Calm'
<1>1. PICK rows : rows = [s \in Enrolled |-> IF register[s] = NoRow THEN NoRow
                                             ELSE Rebuilt(register[s], log[s])]
  OBVIOUS
<1>2. PICK nobody, none, records : nobody = {} /\ none = <<>> /\ records = <<>>
  OBVIOUS
<1>3. BeginWork(w, Work({}, RegisterWrites(rows), records, nobody, none))
  BY <1>1, <1>2 DEF BeginRecompute
<1>4. \A s \in Enrolled : /\ Rebuilt(register[s], log[s]) = register[s] \/ NewRow(Rebuilt(register[s], log[s]))
                          /\ Says(Rebuilt(register[s], log[s]), log[s])
                          /\ register[s].source = "MANUAL" => Rebuilt(register[s], log[s]) = register[s]
  BY RebuiltSays DEF Typed
<1>5. /\ DOMAIN rows = Enrolled
      /\ \A s \in Enrolled : rows[s] = register[s] \/ NewRow(rows[s])
      /\ \A s \in Enrolled : register[s].source = "MANUAL" => rows[s].source = "MANUAL"
  BY <1>1, <1>4
<1>6. ~ overtaken => \A s \in Enrolled \ loose : Says(rows[s], log[s])
  <2> SUFFICES ASSUME ~ overtaken, NEW s \in Enrolled \ loose PROVE Says(rows[s], log[s])
    OBVIOUS
  <2>1. CASE register[s] = NoRow
    BY <1>1, <2>1 DEF Calm
  <2>2. CASE register[s] # NoRow
    BY <1>1, <1>4, <2>2
  <2> QED BY <2>1, <2>2
<1>7. /\ \A s \in nobody : s \in Enrolled /\ register[s] = NoRow /\ rows[s] # NoRow
      /\ \A x \in DOMAIN records : RecordWriteOK(records[x]) /\ (records[x].insert => roster[x] = <<>>)
      /\ \A s \in DOMAIN none : digests[s] = <<>>
  BY <1>2
<1> QED BY <1>3, <1>5, <1>6, <1>7, BeginQuietly

\* A day marked by hand.
LEMMA MarkDayKeeps ==
    ASSUME Typed, Calm, NEW w \in Worker, NEW t \in Enrolled, NEW status \in DayMarks,
           BeginMarkDay(w, t, status)
    PROVE  Typed' /\ Calm'
<1>1. PICK row : row = [status |-> status, source |-> "MANUAL", first |-> 0, last |-> 0]
  OBVIOUS
<1>2. PICK rows : rows = [register EXCEPT ![t] = row]
  OBVIOUS
<1>3. PICK nobody, none, records : nobody = {} /\ none = <<>> /\ records = <<>>
  OBVIOUS
<1>4. BeginWork(w, Work({}, RegisterWrites(rows), records, nobody, none))
  BY <1>1, <1>2, <1>3 DEF BeginMarkDay
<1>5. NewRow(row) /\ row.source = "MANUAL"
  BY <1>1, AttendanceAssumption DEF NewRow, RowShape, DayStatuses
<1>6. DOMAIN rows = Enrolled /\ rows[t] = row /\ \A s \in Enrolled \ {t} : rows[s] = register[s]
  BY <1>2 DEF Typed
<1>7. ~ overtaken => \A s \in Enrolled \ loose : Says(rows[s], log[s])
  <2> SUFFICES ASSUME ~ overtaken, NEW s \in Enrolled \ loose PROVE Says(rows[s], log[s])
    OBVIOUS
  <2>1. CASE s = t
    BY <1>5, <1>6, <2>1 DEF Says
  <2>2. CASE s # t
    BY <1>6, <2>2 DEF Calm
  <2> QED BY <2>1, <2>2
<1>8. /\ \A s \in Enrolled : rows[s] = register[s] \/ NewRow(rows[s])
      /\ \A s \in Enrolled : register[s].source = "MANUAL" => rows[s].source = "MANUAL"
  BY <1>5, <1>6
<1>9. /\ \A s \in nobody : s \in Enrolled /\ register[s] = NoRow /\ rows[s] # NoRow
      /\ \A x \in DOMAIN records : RecordWriteOK(records[x]) /\ (records[x].insert => roster[x] = <<>>)
      /\ \A s \in DOMAIN none : digests[s] = <<>>
  BY <1>3
<1> QED BY <1>4, <1>6, <1>7, <1>8, <1>9, BeginQuietly

\* One record marked by hand; no row of the register.
LEMMA MarkLectureKeeps ==
    ASSUME Typed, Calm, NEW w \in Worker, NEW t \in Enrolled, NEW l \in Lecture,
           NEW status \in LectureMarks, BeginMarkLecture(w, t, l, status)
    PROVE  Typed' /\ Calm'
<1>1. PICK key, old, new : /\ key = <<t, l>>
                           /\ old = (IF roster[key] = <<>> THEN NoRecord ELSE roster[key][1])
                           /\ new = [status |-> status, source |-> "MANUAL"]
  OBVIOUS
<1>2. PICK records : records = [x \in {key} |-> Written(old, new)]
  OBVIOUS
<1>3. PICK nobody, none, rows : nobody = {} /\ none = <<>> /\ rows = register
  OBVIOUS
<1>4. RegisterWrites(rows) = <<>>
  <2>1. {x \in Enrolled : rows[x] # register[x]} = {}
    BY <1>3
  <2>2. DOMAIN RegisterWrites(rows) = {}
    BY <2>1 DEF RegisterWrites
  <2>3. RegisterWrites(rows) = [s \in {} |-> Written(register[s], rows[s])]
    BY <2>1 DEF RegisterWrites
  <2> QED BY <2>3
<1>5. BeginWork(w, Work({}, RegisterWrites(rows), records, nobody, none))
  BY <1>1, <1>2, <1>3, <1>4 DEF BeginMarkLecture
<1>6. DOMAIN new = {"status", "source"} /\ new["status"] # "none"
  BY <1>1, AttendanceAssumption
<1>7. RecordWriteOK(Written(old, new)) /\ (RecordOK(old) => ~ Written(old, new).insert)
  BY <1>6, RecordWritten
<1>8. /\ \A x \in DOMAIN records : RecordWriteOK(records[x])
      /\ ~ overtaken => \A x \in DOMAIN records : records[x].insert => roster[x] = <<>>
  <2>1. \A x \in DOMAIN records : x = key /\ records[x] = Written(old, new)
    BY <1>2
  <2>2. key \in Enrolled \X Lecture
    BY <1>1
  <2>3. ~ overtaken => (roster[key] # <<>> => RecordOK(old))
    BY <1>1, <2>2 DEF Calm
  <2> QED BY <1>7, <2>1, <2>3
<1>9. /\ DOMAIN rows = Enrolled
      /\ \A s \in Enrolled : rows[s] = register[s]
      /\ ~ overtaken => \A s \in Enrolled \ loose : Says(rows[s], log[s])
  BY <1>3 DEF Typed, Calm
<1>10. /\ \A s \in nobody : s \in Enrolled /\ register[s] = NoRow /\ rows[s] # NoRow
       /\ \A s \in DOMAIN none : digests[s] = <<>>
  BY <1>3
<1> QED BY <1>5, <1>8, <1>9, <1>10, BeginQuietly

\* A sweep gives a row to students that have none: they have no punches either.
LEMMA SweptKeeps ==
    ASSUME Typed, Calm, NEW w \in Worker, NEW missing, missing \subseteq Missing,
           NEW absent, absent \subseteq missing,
           NEW digest, \A s \in DOMAIN digest : digests[s] = <<>>,
           BeginWork(w, Work({}, RegisterWrites(Swept(missing)), <<>>, absent, digest))
    PROVE  Typed' /\ Calm'
<1>1. PICK row : row = Classified(EmptyBag, start)
  OBVIOUS
<1>2. NewRow(row) /\ row # NoRow
  <2>1. NewRow(row)
    BY <1>1, ClassifiedRow
  <2> QED BY <2>1 DEF NewRow, NoRow, DayStatuses
<1>3. PICK rows : rows = Swept(missing)
  OBVIOUS
<1>4. /\ DOMAIN rows = Enrolled
      /\ \A s \in Enrolled : rows[s] = IF s \in missing THEN row ELSE register[s]
  BY <1>1, <1>3 DEF Swept
<1>5. \A s \in missing : s \in Enrolled /\ register[s] = NoRow
  BY DEF Missing
<1>6. NoRow.source # "MANUAL" /\ \A hours, cutoff : NoRow # Classified(hours, cutoff)
  <2>1. \A hours, cutoff : NewRow(Classified(hours, cutoff))
    BY ClassifiedRow
  <2> QED BY <2>1 DEF NewRow, NoRow, DayStatuses
<1>7. ~ overtaken => \A s \in Enrolled \ loose : Says(rows[s], log[s])
  <2> SUFFICES ASSUME ~ overtaken, NEW s \in Enrolled \ loose PROVE Says(rows[s], log[s])
    OBVIOUS
  <2>1. Says(register[s], log[s])
    BY DEF Calm
  <2>2. CASE s \in missing
    <3>1. log[s] = EmptyBag
      BY <1>5, <1>6, <2>1, <2>2 DEF Says
    <3> QED BY <3>1 DEF Says
  <2>3. CASE s \notin missing
    BY <1>4, <2>1, <2>3
  <2> QED BY <2>2, <2>3
<1>8. PICK records : records = <<>>
  OBVIOUS
<1>9. BeginWork(w, Work({}, RegisterWrites(rows), records, absent, digest))
  BY <1>3, <1>8
<1>10. /\ \A s \in Enrolled : rows[s] = register[s] \/ NewRow(rows[s])
       /\ \A s \in Enrolled : register[s].source = "MANUAL" => rows[s].source = "MANUAL"
       /\ \A s \in absent : s \in Enrolled /\ register[s] = NoRow /\ rows[s] # NoRow
  BY <1>2, <1>4, <1>5, <1>6
<1>11. \A x \in DOMAIN records : RecordWriteOK(records[x]) /\ (records[x].insert => roster[x] = <<>>)
  BY <1>8
<1> QED BY <1>4, <1>7, <1>9, <1>10, <1>11, BeginQuietly

\* The sweep of the night, and the one after the last lecture.
LEMMA SweepsKeep ==
    ASSUME Typed, Calm, NEW w \in Worker, BeginSweep(w) \/ BeginPostLecture(w)
    PROVE  Typed' /\ Calm'
<1>1. CASE BeginSweep(w)
  <2>1. PICK missing, absent, rows : /\ missing = Missing /\ absent = Missing \cap Notified
                                     /\ rows = Swept(Missing)
    OBVIOUS
  <2>2. PICK digest : digest = [s \in Digested(rows) |-> rows[s].status]
    OBVIOUS
  <2>3. \A s \in DOMAIN digest : digests[s] = <<>>
    BY <2>2 DEF Digested
  <2>4. BeginWork(w, Work({}, RegisterWrites(Swept(missing)), <<>>, absent, digest))
    BY <1>1, <2>1, <2>2 DEF BeginSweep
  <2>5. missing \subseteq Missing /\ absent \subseteq missing
    BY <2>1
  <2> QED BY <2>3, <2>4, <2>5, SweptKeeps
<1>2. CASE BeginPostLecture(w)
  <2>1. PICK missing, digest : missing = Missing \cap Notified /\ digest = <<>>
    OBVIOUS
  <2>2. BeginWork(w, Work({}, RegisterWrites(Swept(missing)), <<>>, missing, digest))
    BY <1>2, <2>1 DEF BeginPostLecture
  <2>3. missing \subseteq Missing /\ \A s \in DOMAIN digest : digests[s] = <<>>
    BY <2>1
  <2> QED BY <2>2, <2>3, SweptKeeps
<1> QED BY <1>1, <1>2

-----------------------------------------------------------------------------
(* The commit of a request.                                                 *)

\* The register and the absences reported: the row is new, so the report is.
LEMMA RowsCommitted ==
    ASSUME Typed, NEW w \in Worker, NEW acked, CommitWork(w, acked)
    PROVE  /\ \A s \in Enrolled : register'[s] = RowAfter(request[w], s)
           /\ DOMAIN register' = Enrolled /\ \A s \in Enrolled : RowOK(register'[s])
           /\ RowsStay
           /\ DOMAIN absences' = Enrolled
           /\ \A s \in Enrolled : absences'[s] = 0 \/ (absences'[s] = 1 /\ register'[s] # NoRow)
<1>1. PICK r : r = request[w]
  OBVIOUS
<1>2. RequestOK(r) /\ ~ Conflicting(r)
  BY <1>1 DEF CommitWork, Typed
<1>3. /\ register' = [s \in Enrolled |-> IF s \in DOMAIN r.rows THEN Patched(register[s], r.rows[s])
                                        ELSE register[s]]
      /\ absences' = [s \in Enrolled |-> absences[s] + (IF s \in r.absent THEN 1 ELSE 0)]
  BY <1>1 DEF CommitWork
<1>4. ASSUME NEW s \in Enrolled
      PROVE  /\ register'[s] = RowAfter(r, s)
             /\ RowOK(register'[s])
             /\ register[s] # NoRow => register'[s] # NoRow
             /\ s \in DOMAIN r.rows => register'[s] # NoRow
  <2>1. register'[s] = RowAfter(r, s)
    BY <1>3 DEF RowAfter
  <2>2. CASE s \in DOMAIN r.rows
    <3>1. RowOK(register[s]) /\ WriteOK(r.rows[s], register[s])
      BY <1>2, <2>2 DEF Typed, RequestOK
    <3>2. NewRow(Patched(register[s], r.rows[s])) /\ Patched(register[s], r.rows[s]) # NoRow
      BY <3>1, PatchedOK
    <3> QED BY <2>1, <2>2, <3>2 DEF RowAfter, RowOK
  <2>3. CASE s \notin DOMAIN r.rows
    BY <2>1, <2>3 DEF RowAfter, Typed
  <2> QED BY <2>1, <2>2, <2>3
<1>5. ASSUME NEW s \in Enrolled
      PROVE  absences'[s] = 0 \/ (absences'[s] = 1 /\ register'[s] # NoRow)
  <2>1. CASE s \in r.absent
    <3>1. s \in DOMAIN r.rows /\ r.rows[s].insert
      BY <1>2, <2>1 DEF RequestOK
    <3>2. register[s] = NoRow
      BY <1>2, <3>1 DEF Conflicting
    <3>3. absences[s] = 0
      BY <3>2 DEF Typed
    <3> QED BY <1>3, <1>4, <2>1, <3>1, <3>3
  <2>2. CASE s \notin r.absent
    <3>1. absences'[s] = absences[s] + 0
      BY <1>3, <2>2
    <3>2. absences[s] = 0 \/ (absences[s] = 1 /\ register[s] # NoRow)
      BY DEF Typed
    <3> QED BY <1>4, <3>1, <3>2
  <2> QED BY <2>1, <2>2
<1>6. DOMAIN register' = Enrolled /\ DOMAIN absences' = Enrolled
  BY <1>3
<1> QED BY <1>1, <1>4, <1>5, <1>6 DEF RowsStay

\* A sequence of one.
LEMMA OneOnly ==
    ASSUME NEW e, NEW q, q = <<e>>
    PROVE  AtMostOne(q) /\ q[1] = e
<1>1. q[1] = e
  OBVIOUS
<1>2. q = <<q[1]>>
  BY <1>1
<1> QED BY <1>1, <1>2 DEF AtMostOne

\* The record of a student and a lecture stays the only one.
LEMMA RecordCommitted ==
    ASSUME NEW records, NEW write, RecordWriteOK(write), AtMostOne(records),
           records # <<>> => RecordOK(records[1]), write.insert => records = <<>>,
           NEW after, after = IF write.insert THEN Append(records, Patched(NoRecord, write))
                              ELSE [records EXCEPT ![1] = Patched(@, write)]
    PROVE  AtMostOne(after) /\ (after # <<>> => RecordOK(after[1]))
<1>1. CASE write.insert
  <2>1. PICK e : e = Patched(NoRecord, write)
    OBVIOUS
  <2>2. after = <<e>>
    BY <1>1, <2>1
  <2>3. e = [c \in DOMAIN NoRecord |-> IF c \in DOMAIN write.columns THEN write.columns[c] ELSE NoRecord[c]]
    BY <2>1 DEF Patched
  <2>4. "status" \in DOMAIN NoRecord
    BY DEF NoRecord
  <2>5. RecordOK(e)
    BY <1>1, <2>3, <2>4 DEF RecordOK, RecordWriteOK
  <2> QED BY <2>2, <2>5, OneOnly
<1>2. CASE ~ write.insert /\ records = <<>>
  <2>1. after = <<>>
    BY <1>2
  <2> QED BY <2>1 DEF AtMostOne
<1>3. CASE ~ write.insert /\ records # <<>>
  <2>1. PICK e, new : e = records[1] /\ new = Patched(e, write)
    OBVIOUS
  <2>2. records = <<e>> /\ RecordOK(e)
    BY <1>3, <2>1 DEF AtMostOne
  <2>3. after = <<new>>
    BY <1>3, <2>1, <2>2
  <2>4. new = [c \in DOMAIN e |-> IF c \in DOMAIN write.columns THEN write.columns[c] ELSE e[c]]
    BY <2>1 DEF Patched
  <2>5. RecordOK(new)
    BY <2>2, <2>4 DEF RecordOK, RecordWriteOK
  <2> QED BY <2>3, <2>5, OneOnly
<1> QED BY <1>1, <1>2, <1>3

\* What a request that nobody overtook leaves is right, and the others are late.
LEMMA CommitKeeps ==
    ASSUME Typed, Calm, NEW w \in Worker, NEW acked \in BOOLEAN, CommitWork(w, acked)
    PROVE  Typed' /\ Calm'
<1>1. PICK r : r = request[w]
  OBVIOUS
<1>2. RequestOK(r) /\ r # Idle
  BY <1>1 DEF CommitWork, Typed
<1>3. /\ log' = [s \in Enrolled |-> log[s] (+) SetToBag({p[2] : p \in {q \in r.punch : q[1] = s}})]
      /\ roster' = [x \in DOMAIN roster |->
            IF x \notin DOMAIN r.records THEN roster[x]
            ELSE IF r.records[x].insert THEN Append(roster[x], Patched(NoRecord, r.records[x]))
            ELSE [roster[x] EXCEPT ![1] = Patched(@, r.records[x])]]
      /\ digests' = [s \in Enrolled |-> IF s \in DOMAIN r.digest
            THEN Append(digests[s], [status |-> r.digest[s], nightly |-> TRUE]) ELSE digests[s]]
      /\ loose' = loose \ {s \in Enrolled : r.punch # {} /\ s \in DOMAIN r.rows}
      /\ request' = Overtaken(w) /\ overtaken' = (overtaken \/ r.late) /\ start' = start
  BY <1>1 DEF CommitWork
<1>4. /\ \A s \in Enrolled : register'[s] = RowAfter(r, s)
      /\ DOMAIN register' = Enrolled /\ \A s \in Enrolled : RowOK(register'[s])
      /\ RowsStay
      /\ DOMAIN absences' = Enrolled
      /\ \A s \in Enrolled : absences'[s] = 0 \/ (absences'[s] = 1 /\ register'[s] # NoRow)
  BY <1>1, RowsCommitted
<1>5. /\ DOMAIN request' = Worker
      /\ \A x \in Worker : (request[x] = Idle \/ RequestOK(request[x]))'
      /\ \A x \in Worker : request'[x] # Idle => request'[x].late
  <2>1. PICK done : done = {w}
    OBVIOUS
  <2>2. request' = [x \in Worker |-> IF x \in done \/ request[x] = Idle THEN Idle
                                     ELSE [request[x] EXCEPT !.late = TRUE]]
    BY <1>3, <2>1 DEF Overtaken
  <2> QED BY <1>4, <2>2, LateKeeps
<1>6. DOMAIN log' = Enrolled /\ \A s \in Enrolled : log'[s] = LogAfter(r, s) /\ BagOK(log'[s])
  <2>1. DOMAIN log' = Enrolled /\ \A s \in Enrolled : log'[s] = LogAfter(r, s)
    BY <1>3 DEF LogAfter, Hours
  <2>2. ASSUME NEW s \in Enrolled PROVE BagOK(LogAfter(r, s))
    BY BagGrows DEF LogAfter, Typed
  <2> QED BY <2>1, <2>2
<1>7. DOMAIN roster' = Enrolled \X Lecture /\ DOMAIN digests' = Enrolled /\ overtaken' \in BOOLEAN
  BY <1>2, <1>3 DEF Typed, RequestOK
<1>8. Typed'
  BY <1>3, <1>4, <1>5, <1>6, <1>7 DEF Typed
<1>9. ASSUME ~ overtaken'
      PROVE  /\ \A s \in Enrolled \ loose' : Says(register'[s], log'[s])
             /\ \A x \in Enrolled \X Lecture :
                   AtMostOne(roster'[x]) /\ (roster'[x] # <<>> => RecordOK(roster'[x][1]))
             /\ \A s \in Enrolled : AtMostOne(digests'[s])
  <2>1. ~ overtaken /\ ~ r.late
    BY <1>3, <1>9
  <2>2. Fresh(r)
    BY <1>1, <1>2, <2>1 DEF Calm
  <2>3. ASSUME NEW s \in Enrolled \ loose' PROVE Says(register'[s], log'[s])
    <3>1. loose' = LooseAfter(r)
      BY <1>3 DEF LooseAfter
    <3> QED BY <1>4, <1>6, <2>2, <3>1 DEF Fresh
  <2>4. ASSUME NEW x \in Enrolled \X Lecture
        PROVE  AtMostOne(roster'[x]) /\ (roster'[x] # <<>> => RecordOK(roster'[x][1]))
    <3>1. /\ x \in DOMAIN roster /\ AtMostOne(roster[x])
          /\ roster[x] # <<>> => RecordOK(roster[x][1])
      BY <2>1 DEF Typed, Calm
    <3>2. CASE x \notin DOMAIN r.records
      BY <1>3, <3>1, <3>2
    <3>3. CASE x \in DOMAIN r.records
      <4>1. PICK write, records, after : write = r.records[x] /\ records = roster[x] /\ after = roster'[x]
        OBVIOUS
      <4>2. after = IF write.insert THEN Append(records, Patched(NoRecord, write))
                    ELSE [records EXCEPT ![1] = Patched(@, write)]
        BY <1>3, <3>1, <3>3, <4>1
      <4>3. RecordWriteOK(write) /\ (write.insert => records = <<>>)
        BY <1>2, <2>2, <3>3, <4>1 DEF RequestOK, Fresh
      <4>4. AtMostOne(records) /\ (records # <<>> => RecordOK(records[1]))
        BY <3>1, <4>1
      <4>5. AtMostOne(after) /\ (after # <<>> => RecordOK(after[1]))
        BY <4>2, <4>3, <4>4, RecordCommitted
      <4> QED BY <4>1, <4>5
    <3> QED BY <3>2, <3>3
  <2>5. ASSUME NEW s \in Enrolled PROVE AtMostOne(digests'[s])
    <3>1. CASE s \in DOMAIN r.digest
      <4>1. digests[s] = <<>>
        BY <2>2, <3>1 DEF Fresh
      <4>2. PICK e, q : e = [status |-> r.digest[s], nightly |-> TRUE] /\ q = <<e>>
        OBVIOUS
      <4>3. digests'[s] = Append(digests[s], e)
        BY <1>3, <3>1, <4>2
      <4>4. digests'[s] = q
        BY <4>1, <4>2, <4>3
      <4>5. AtMostOne(q)
        BY <4>2, OneOnly
      <4> QED BY <4>4, <4>5
    <3>2. CASE s \notin DOMAIN r.digest
      BY <1>3, <2>1, <3>2 DEF Calm
    <3> QED BY <3>1, <3>2
  <2> QED BY <2>3, <2>4, <2>5
<1>10. Calm'
  BY <1>5, <1>9 DEF Calm
<1> QED BY <1>8, <1>10

-----------------------------------------------------------------------------
(* The steps of others.                                                     *)

\* The day begins with nothing.
LEMMA InitHolds == AttendanceInit => Typed /\ Calm
<1> SUFFICES ASSUME AttendanceInit PROVE Typed /\ Calm
  OBVIOUS
<1>1. BagOK(EmptyBag)
  BY DEF EmptyBag, BagOK, SetToBag
<1>2. NoRow.source # "MANUAL" /\ ~ (EmptyBag # EmptyBag)
  BY DEF NoRow
<1>3. /\ DOMAIN register = Enrolled /\ \A s \in Enrolled : register[s] = NoRow
      /\ DOMAIN log = Enrolled /\ \A s \in Enrolled : log[s] = EmptyBag
      /\ DOMAIN roster = Enrolled \X Lecture /\ \A x \in Enrolled \X Lecture : roster[x] = <<>>
      /\ DOMAIN absences = Enrolled /\ \A s \in Enrolled : absences[s] = 0
      /\ DOMAIN digests = Enrolled /\ \A s \in Enrolled : digests[s] = <<>>
      /\ DOMAIN request = Worker /\ \A w \in Worker : request[w] = Idle
      /\ start \in Starts /\ overtaken = FALSE
  BY DEF AttendanceInit
<1>4. Typed
  BY <1>1, <1>3 DEF Typed, RowOK
<1>5. Calm
  BY <1>3 DEF Calm, Says, AtMostOne
<1> QED BY <1>4, <1>5

\* Punches stored without a rebuild: the student is loose from then on.
LEMMA ReceiveKeeps ==
    ASSUME Typed, Calm, NEW p, p[1] \in Enrolled, ReceiveRaw(p)
    PROVE  Typed' /\ Calm'
<1>1. PICK t, h : t = p[1] /\ h = p[2]
  OBVIOUS
<1>2. /\ log' = [log EXCEPT ![t] = Stored(@, h)] /\ loose' = loose \cup {t} /\ t \in Enrolled
      /\ register' = register /\ roster' = roster /\ absences' = absences /\ digests' = digests
      /\ start' = start /\ overtaken' = overtaken /\ Hurry
  BY <1>1 DEF ReceiveRaw
<1>3. DOMAIN log' = Enrolled /\ \A s \in Enrolled : log'[s] = IF s = t THEN Stored(log[s], h) ELSE log[s]
  BY <1>2 DEF Typed
<1>4. ASSUME NEW s \in Enrolled PROVE BagOK(log'[s])
  <2>1. BagOK(log[s]) /\ BagOK(Stored(log[s], h))
    BY BagGrows DEF Typed
  <2> QED BY <1>3, <2>1
<1>5. RowsStay
  BY <1>2 DEF RowsStay
<1>6. /\ DOMAIN request' = Worker
      /\ \A x \in Worker : (request[x] = Idle \/ RequestOK(request[x]))'
      /\ \A x \in Worker : request'[x] # Idle => request'[x].late
  BY <1>2, <1>5, HurryKeeps
<1>7. Typed'
  BY <1>2, <1>3, <1>4, <1>6 DEF Typed
<1>8. \A s \in Enrolled \ loose' : s \in Enrolled \ loose /\ log'[s] = log[s]
  BY <1>2, <1>3
<1>9. Calm'
  BY <1>2, <1>6, <1>8 DEF Calm
<1> QED BY <1>7, <1>9

\* The digest asked for by hand is the first, or another is under way and late.
LEMMA NotifyKeeps ==
    ASSUME Typed, Calm, NEW t \in Enrolled, NotifySelected(t)
    PROVE  Typed' /\ Calm'
<1>1. PICK e : e = [nightly |-> FALSE, status |-> IF register[t] = NoRow THEN "ABSENT" ELSE register[t].status]
  OBVIOUS
<1>2. /\ digests[t] = <<>> /\ digests' = [digests EXCEPT ![t] = Append(@, e)]
      /\ log' = log /\ loose' = loose
      /\ register' = register /\ roster' = roster /\ absences' = absences
      /\ start' = start /\ overtaken' = overtaken /\ Hurry
  BY <1>1 DEF NotifySelected
<1>3. DOMAIN digests' = Enrolled /\ \A s \in Enrolled : digests'[s] = IF s = t THEN <<e>> ELSE digests[s]
  BY <1>2 DEF Typed
<1>4. RowsStay
  BY <1>2 DEF RowsStay
<1>5. /\ DOMAIN request' = Worker
      /\ \A x \in Worker : (request[x] = Idle \/ RequestOK(request[x]))'
      /\ \A x \in Worker : request'[x] # Idle => request'[x].late
  BY <1>2, <1>4, HurryKeeps
<1>6. Typed'
  BY <1>2, <1>3, <1>5 DEF Typed
<1>7. ASSUME ~ overtaken, NEW s \in Enrolled PROVE AtMostOne(digests'[s])
  <2>1. AtMostOne(digests[s])
    BY <1>7 DEF Calm
  <2>2. PICK q : q = <<e>>
    OBVIOUS
  <2>3. AtMostOne(q)
    BY <2>2, OneOnly
  <2> QED BY <1>3, <2>1, <2>2, <2>3
<1>8. Calm'
  BY <1>2, <1>5, <1>7 DEF Calm
<1> QED BY <1>6, <1>8

\* Another start time: what is under way is late, the rows stay what they were.
LEMMA StartKeeps ==
    ASSUME Typed, Calm, NEW h \in Starts, SetClassStart(h)
    PROVE  Typed' /\ Calm'
<1>1. /\ log' = log /\ loose' = loose /\ digests' = digests
      /\ register' = register /\ roster' = roster /\ absences' = absences
      /\ start' \in Starts /\ overtaken' = overtaken /\ Hurry
  BY DEF SetClassStart
<1>2. RowsStay
  BY <1>1 DEF RowsStay
<1>3. /\ DOMAIN request' = Worker
      /\ \A x \in Worker : (request[x] = Idle \/ RequestOK(request[x]))'
      /\ \A x \in Worker : request'[x] # Idle => request'[x].late
  BY <1>1, <1>2, HurryKeeps
<1>4. Typed'
  BY <1>1, <1>3 DEF Typed
<1>5. Calm'
  BY <1>1, <1>3 DEF Calm
<1> QED BY <1>4, <1>5

\* A request given up is gone.
LEMMA RollbackKeeps ==
    ASSUME Typed, Calm, NEW w \in Worker, Rollback(w)
    PROVE  Typed' /\ Calm'
<1>1. /\ held' = held /\ log' = log /\ register' = register /\ roster' = roster
      /\ absences' = absences /\ digests' = digests /\ start' = start /\ loose' = loose
      /\ overtaken' = overtaken /\ request' = [request EXCEPT ![w] = Idle]
  BY DEF Rollback, attendanceTables
<1>2. DOMAIN request' = Worker /\ request'[w] = Idle /\ \A x \in Worker \ {w} : request'[x] = request[x]
  BY <1>1 DEF Typed
<1>3. ASSUME NEW x \in Worker
      PROVE  (request[x] = Idle \/ RequestOK(request[x]))'
  <2>1. request'[x] = Idle \/ RequestOK(request'[x])
    BY <1>2 DEF Typed
  <2> QED BY <1>1, <2>1 DEF RequestOK, WriteOK
<1>4. Typed'
  BY <1>1, <1>2, <1>3 DEF Typed
<1>5. ASSUME ~ overtaken, NEW x \in Worker, request'[x] # Idle, ~ request'[x].late
      PROVE  (Fresh(request[x]))'
  <2>1. Fresh(request'[x])
    BY <1>2, <1>5 DEF Calm
  <2> QED BY <1>1, <2>1 DEF Fresh, RowAfter, LogAfter, LooseAfter, Says
<1>6. Calm'
  BY <1>1, <1>5 DEF Calm, Says
<1> QED BY <1>4, <1>6

\* The tables of a step that only acknowledges, or lets time pass.
LEMMA QuietKeeps ==
    ASSUME Typed, Calm,
           UNCHANGED <<log, register, roster, absences, digests, start, request, loose, overtaken>>
    PROVE  Typed' /\ Calm'
<1>1. ASSUME NEW x \in Worker
      PROVE  (request[x] = Idle \/ RequestOK(request[x]))'
  BY DEF Typed, RequestOK, WriteOK
<1>2. Typed'
  BY <1>1 DEF Typed
<1>3. ASSUME ~ overtaken, NEW x \in Worker, request'[x] # Idle, ~ request'[x].late
      PROVE  (Fresh(request[x]))'
  <2>1. Fresh(request[x])
    BY <1>3 DEF Calm
  <2> QED BY <2>1 DEF Fresh, RowAfter, LogAfter, LooseAfter, Says
<1>4. Calm'
  BY <1>3 DEF Calm, Says
<1> QED BY <1>2, <1>4

-----------------------------------------------------------------------------
(* Every step.                                                              *)

AttendanceInv == Typed /\ Calm /\ held \subseteq Punches

\* A step of the day keeps the invariant.
LEMMA StepKeeps ==
    ASSUME AttendanceInv, [AttendanceNext]_attendanceVars
    PROVE  AttendanceInv'
<1>1. Typed /\ Calm /\ held \subseteq Punches
  BY DEF AttendanceInv
<1>2. \A p \in held : p[1] \in Enrolled
  BY <1>1, AttendanceAssumption
<1>3. ASSUME NEW w \in Worker, NEW p \in held, BeginIngest(w, p) PROVE AttendanceInv'
  <2>1. held' = held
    BY <1>3 DEF BeginIngest, BeginWork, attendanceTables
  <2> QED BY <1>1, <1>2, <1>3, <2>1, IngestKeeps DEF AttendanceInv
<1>4. ASSUME NEW w \in Worker, NEW l \in Lecture, BeginProcess(w, l) PROVE AttendanceInv'
  <2>1. held' = held
    BY <1>4 DEF BeginProcess, BeginWork, attendanceTables
  <2> QED BY <1>1, <1>4, <2>1, ProcessKeeps DEF AttendanceInv
<1>5. ASSUME NEW w \in Worker, BeginRecompute(w) PROVE AttendanceInv'
  <2>1. held' = held
    BY <1>5 DEF BeginRecompute, BeginWork, attendanceTables
  <2> QED BY <1>1, <1>5, <2>1, RecomputeKeeps DEF AttendanceInv
<1>6. ASSUME NEW w \in Worker, BeginSweep(w) \/ BeginPostLecture(w) PROVE AttendanceInv'
  <2>1. held' = held
    BY <1>6 DEF BeginSweep, BeginPostLecture, BeginWork, attendanceTables
  <2> QED BY <1>1, <1>6, <2>1, SweepsKeep DEF AttendanceInv
<1>7. ASSUME NEW w \in Worker, NEW s \in Enrolled, NEW status \in DayMarks, BeginMarkDay(w, s, status)
      PROVE  AttendanceInv'
  <2>1. held' = held
    BY <1>7 DEF BeginMarkDay, BeginWork, attendanceTables
  <2> QED BY <1>1, <1>7, <2>1, MarkDayKeeps DEF AttendanceInv
<1>8. ASSUME NEW w \in Worker, NEW s \in Enrolled, NEW l \in Lecture, NEW status \in LectureMarks,
             BeginMarkLecture(w, s, l, status)
      PROVE  AttendanceInv'
  <2>1. held' = held
    BY <1>8 DEF BeginMarkLecture, BeginWork, attendanceTables
  <2> QED BY <1>1, <1>8, <2>1, MarkLectureKeeps DEF AttendanceInv
<1>9. ASSUME NEW w \in Worker, NEW acked \in BOOLEAN, CommitWork(w, acked) PROVE AttendanceInv'
  <2>1. held' \subseteq held
    BY <1>9 DEF CommitWork
  <2> QED BY <1>1, <1>9, <2>1, CommitKeeps DEF AttendanceInv
<1>10. ASSUME NEW w \in Worker, Rollback(w) PROVE AttendanceInv'
  <2>1. held' = held
    BY <1>10 DEF Rollback, attendanceTables
  <2> QED BY <1>1, <1>10, <2>1, RollbackKeeps DEF AttendanceInv
<1>11. ASSUME NEW p \in held, AckDuplicate(p) PROVE AttendanceInv'
  <2>1. /\ held' \subseteq held
        /\ UNCHANGED <<log, register, roster, absences, digests, start, request, loose, overtaken>>
    BY <1>11 DEF AckDuplicate
  <2> QED BY <1>1, <2>1, QuietKeeps DEF AttendanceInv
<1>12. ASSUME NEW p \in held, ReceiveRaw(p) PROVE AttendanceInv'
  <2>1. held' \subseteq held
    BY <1>12 DEF ReceiveRaw
  <2> QED BY <1>1, <1>2, <1>12, <2>1, ReceiveKeeps DEF AttendanceInv
<1>13. ASSUME NEW s \in Enrolled, NotifySelected(s) PROVE AttendanceInv'
  <2>1. held' = held
    BY <1>13 DEF NotifySelected
  <2> QED BY <1>1, <1>13, <2>1, NotifyKeeps DEF AttendanceInv
<1>14. ASSUME NEW h \in Starts, SetClassStart(h) PROVE AttendanceInv'
  <2>1. held' = held
    BY <1>14 DEF SetClassStart
  <2> QED BY <1>1, <1>14, <2>1, StartKeeps DEF AttendanceInv
<1>15. ASSUME Tick PROVE AttendanceInv'
  <2>1. /\ held' \subseteq held \cup Punches
        /\ UNCHANGED <<log, register, roster, absences, digests, start, request, loose, overtaken>>
    BY <1>15 DEF Tick
  <2> QED BY <1>1, <2>1, QuietKeeps DEF AttendanceInv
<1>16. ASSUME UNCHANGED attendanceVars PROVE AttendanceInv'
  <2>1. /\ held' = held
        /\ UNCHANGED <<log, register, roster, absences, digests, start, request, loose, overtaken>>
    BY <1>16 DEF attendanceVars, attendanceTables
  <2> QED BY <1>1, <2>1, QuietKeeps DEF AttendanceInv
<1> QED
  BY <1>3, <1>4, <1>5, <1>6, <1>7, <1>8, <1>9, <1>10, <1>11, <1>12, <1>13, <1>14, <1>15, <1>16
  DEF AttendanceNext

\* Who has a row was reported absent at most once, and what nobody overtook is right.
THEOREM Invariance == AttendanceSpec => []AttendanceInv
<1>1. AttendanceInit => AttendanceInv
  BY InitHolds DEF AttendanceInv, AttendanceInit
<1>2. AttendanceInv /\ [AttendanceNext]_attendanceVars => AttendanceInv'
  BY StepKeeps
<1> QED BY <1>1, <1>2, PTL DEF AttendanceSpec

\* The sweeps of any number of workers, after the last lecture and at night, tell
\* the parents of a student at most once that the child is absent
\* (daily_service.py); the night's digest goes out once, unless a request was overtaken.
THEOREM AttendanceTold == AttendanceSpec => []ParentsToldOnce
<1>1. AttendanceInv => ParentsToldOnce
  <2> SUFFICES ASSUME AttendanceInv PROVE ParentsToldOnce
    OBVIOUS
  <2>1. AbsentToldOnce
    BY DEF AttendanceInv, Typed, AbsentToldOnce
  <2>2. ASSUME ~ overtaken, NEW s \in Enrolled
        PROVE  Cardinality({n \in DOMAIN digests[s] : digests[s][n].nightly}) <= 1
    <3>1. PICK q : q = digests[s]
      OBVIOUS
    <3>2. q = <<>> \/ q = <<q[1]>>
      BY <2>2, <3>1 DEF AttendanceInv, Calm, AtMostOne
    <3>3. DOMAIN q \subseteq {1}
      BY <3>2
    <3>4. PICK S, one : S = {n \in DOMAIN q : q[n].nightly} /\ one = 1
      OBVIOUS
    <3>5. S = {} \/ S = {one}
      BY <3>3, <3>4
    <3>6. Cardinality({}) = 0
      BY FS_EmptySet
    <3>7. Cardinality({one}) = 1
      BY FS_Singleton
    <3>8. Cardinality(S) <= 1
      BY <3>5, <3>6, <3>7
    <3> QED BY <3>1, <3>4, <3>8
  <2>3. DigestOnce
    BY <2>2 DEF DigestOnce
  <2> QED BY <2>1, <2>3 DEF ParentsToldOnce
<1> QED BY <1>1, Invariance, PTL

\* The register spans the punches stored, and a student has one record of a
\* lecture, as long as no request commits that another has overtaken
\* (rebuild_daily, project_day_onto_lecture).
THEOREM AttendanceRecorded == AttendanceSpec => []RecordsMatchLog
<1>1. AttendanceInv => RecordsMatchLog
  <2> SUFFICES ASSUME AttendanceInv PROVE RecordsMatchLog
    OBVIOUS
  <2>1. ASSUME ~ overtaken, NEW s \in Enrolled \ loose, log[s] # EmptyBag, register[s].source # "MANUAL"
        PROVE  /\ register[s].source = "BIOMETRIC"
               /\ register[s].first = Min(BagToSet(log[s]))
               /\ BagCardinality(log[s]) > 1 => register[s].last = Max(BagToSet(log[s]))
    <3>1. PICK cutoff \in Starts : register[s] = Classified(log[s], cutoff)
      BY <2>1 DEF AttendanceInv, Calm, Says
    <3>2. PICK first, last, n : /\ first = Min(BagToSet(log[s])) /\ last = Max(BagToSet(log[s]))
                                /\ n = BagCardinality(log[s])
      OBVIOUS
    <3>3. register[s] = [status |-> IF first <= cutoff THEN "PRESENT" ELSE "LATE",
                         source |-> "BIOMETRIC", first |-> first, last |-> IF n > 1 THEN last ELSE 0]
      BY <2>1, <3>1, <3>2 DEF Classified
    <3> QED BY <3>2, <3>3
  <2>2. RegisterMatchesLog
    BY <2>1 DEF RegisterMatchesLog
  <2>3. ASSUME ~ overtaken, NEW x \in DOMAIN roster PROVE Len(roster[x]) <= 1
    <3>1. PICK q : q = roster[x]
      OBVIOUS
    <3>2. q = <<>> \/ q = <<q[1]>>
      BY <2>3, <3>1 DEF AttendanceInv, Typed, Calm, AtMostOne
    <3>3. PICK e : e = q[1]
      OBVIOUS
    <3>4. CASE q = <<>>
      BY <3>1, <3>4
    <3>5. CASE q = <<e>>
      BY <3>1, <3>5
    <3> QED BY <3>2, <3>3, <3>4, <3>5
  <2>4. OneRecordPerLecture
    BY <2>3 DEF OneRecordPerLecture
  <2> QED BY <2>2, <2>4 DEF RecordsMatchLog
<1> QED BY <1>1, Invariance, PTL

\* A mark by hand of the day stays a mark by hand, whatever sweeps and rebuilds
\* run beside it, unless a request commits that another has overtaken.
THEOREM HandMarks == AttendanceSpec => HandMarkStays
<1>1. AttendanceInv /\ [AttendanceNext]_attendanceVars
        => [\A s \in Enrolled : (register[s].source = "MANUAL" /\ ~ overtaken')
              => register'[s].source = "MANUAL"]_attendanceVars
  <2> SUFFICES ASSUME AttendanceInv, [AttendanceNext]_attendanceVars, NEW s \in Enrolled,
                      register[s].source = "MANUAL", ~ overtaken'
               PROVE  register'[s].source = "MANUAL"
    OBVIOUS
  <2>1. ASSUME NEW w \in Worker, NEW acked \in BOOLEAN, CommitWork(w, acked)
        PROVE  register'[s].source = "MANUAL"
    <3>1. PICK r : r = request[w]
      OBVIOUS
    <3>2. r # Idle /\ ~ overtaken /\ ~ r.late
      BY <2>1, <3>1 DEF CommitWork
    <3>3. Fresh(r)
      BY <3>1, <3>2 DEF AttendanceInv, Calm
    <3>4. register'[s] = RowAfter(r, s)
      BY <2>1, <3>1, RowsCommitted DEF AttendanceInv
    <3> QED BY <3>3, <3>4 DEF Fresh
  <2>2. (\E w \in Worker, acked \in BOOLEAN : CommitWork(w, acked)) \/ register' = register
    BY DEF AttendanceNext, BeginIngest, BeginProcess, BeginRecompute, BeginSweep, BeginPostLecture,
           BeginMarkDay, BeginMarkLecture, BeginWork, Rollback, AckDuplicate, ReceiveRaw,
           NotifySelected, SetClassStart, Tick, attendanceVars, attendanceTables
  <2> QED BY <2>1, <2>2
<1> QED BY <1>1, Invariance, PTL DEF AttendanceSpec, HandMarkStays

-----------------------------------------------------------------------------
(* The staff.                                                               *)

DayRow == [in: Nat, out: Nat \cup {NoTime}, work: Nat, status: Attended,
           signoff: {"MISSING", "COMPLETE"}, ot: Nat, source: {"BIOMETRIC", "MANUAL"}, by: BOOLEAN]

\* What a session may be about to write; a row it found is still there.
HandOK(w) ==
    /\ w.kind \in {"punches", "mark"} /\ w.punches \subseteq StaffDays \X Times
    /\ DOMAIN w.new = DOMAIN w.was /\ DOMAIN w.was \subseteq StaffDays
    /\ \A d \in DOMAIN w.was :
          /\ w.was[d] \in DayRow \cup {NoDayRow} /\ w.new[d] \in DayRow
          /\ w.was[d] # NoDayRow => dayRows[d] # NoDayRow

StaffTyped ==
    /\ punches \subseteq StaffDays \X Times
    /\ dayRows \in [StaffDays -> DayRow \cup {NoDayRow}]
    /\ shift \in (Times \X Times) \cup {NoShift} /\ declared \subseteq StaffDays
    /\ sheet \in Timesheets
    /\ hand = [h \in Hand |-> hand[h]]
    /\ \A h \in Hand : hand[h] # NoHand => HandOK(hand[h])

\* A row made of punches tells the first and the last; a late one is late.
Tells(row, times) ==
    row.source = "BIOMETRIC" =>
        /\ row.in = Min(times)
        /\ row.out = IF Cardinality(times) = 1 THEN NoTime ELSE Max(times)
Tardy(row) == row.status = "LATE" => row.in > From + Grace

\* What a session read is still so, and what it will write is right.
HandRight(w) ==
    /\ \A d \in DOMAIN w.was :
          /\ w.was[d] = dayRows[d] /\ Tells(w.new[d], TimesOn(d, punches \cup w.punches))
          /\ (w.kind = "punches" /\ dayRows[d] # NoDayRow /\ dayRows[d].source = "MANUAL") =>
                w.new[d] = dayRows[d]
    /\ \A p \in w.punches : p[1] \in DOMAIN w.was

\* While no two sessions were at work at once ...
StaffCalm ==
    met \/ /\ \A g, h \in Hand : hand[g] # NoHand /\ hand[h] # NoHand => g = h
           /\ \A d \in StaffDays :
                 IF HasRow(d) THEN Tells(dayRows[d], TimesOn(d, punches))
                 ELSE TimesOn(d, punches) = {}
           /\ \A h \in Hand : hand[h] # NoHand => HandRight(hand[h])

\* ... and while the shift is the one the rows were made with.
StaffTardy ==
    met \/ reshifted \/
        /\ \A d \in StaffDays : HasRow(d) => Tardy(dayRows[d])
        /\ \A h \in Hand : hand[h] # NoHand => \A d \in DOMAIN hand[h].new : Tardy(hand[h].new[d])

StaffInv == StaffTyped /\ StaffCalm /\ StaffTardy

LEMMA NoDayIsNone == NoDayRow \notin DayRow /\ \A w : HandOK(w) => w # NoHand
BY DEF NoDayRow, DayRow, HandOK, NoHand

LEMMA BoundsAre ==
    ASSUME StaffTyped
    PROVE  From \in Nat /\ To \in Nat /\ Grace \in Nat
<1>1. BranchShift[1] \in Nat /\ BranchShift[2] \in Nat /\ Grace \in Nat
  BY StaffAssumption
<1>2. shift # NoShift => shift[1] \in Nat /\ shift[2] \in Nat
  BY StaffAssumption DEF StaffTyped
<1> QED
  BY <1>1, <1>2 DEF From, To

\* The punches of a day.
LEMMA TimesAre ==
    ASSUME NEW stored \in SUBSET (StaffDays \X Times), NEW d, NEW times, times = TimesOn(d, stored)
    PROVE  times \in SUBSET Nat /\ IsFiniteSet(times)
<1>1. times \subseteq Times
  BY DEF TimesOn
<1> QED
  BY <1>1, StaffAssumption, FS_Subset

LEMMA StatusIs ==
    ASSUME StaffTyped, NEW in \in Nat, NEW out \in Nat \cup {NoTime}, NEW work \in Nat,
           NEW status, status = Status(in, out, work)
    PROVE  status \in Attended /\ (status = "LATE" => in > From + Grace)
BY DEF Status, Attended

\* The row made of the punches of a day.
LEMMA ClassifyIs ==
    ASSUME StaffTyped, NEW times \in SUBSET Nat, IsFiniteSet(times), times # {},
           NEW row, row = Classify(times)
    PROVE  row \in DayRow /\ Tells(row, times) /\ Tardy(row)
<1> PICK in, n : in = Min(times) /\ n = Cardinality(times)
  OBVIOUS
<1> PICK out : out = IF n > 1 THEN Max(times) ELSE NoTime
  OBVIOUS
<1> PICK work : work = IF out = NoTime THEN 0 ELSE out - in
  OBVIOUS
<1> PICK status : status = Status(in, out, work)
  OBVIOUS
<1>1. in \in times /\ \A y \in times : in <= y
  BY LeastIs
<1>2. Max(times) \in times
  BY GreatestIs
<1>3. n \in Nat /\ n # 0
  BY FS_CardinalityType, FS_EmptySet
<1>4. in \in Nat /\ out \in Nat \cup {NoTime} /\ work \in Nat
  <2>1. in \in Nat /\ Max(times) \in Nat /\ in <= Max(times)
    BY <1>1, <1>2
  <2>2. CASE out = NoTime
    BY <2>1, <2>2
  <2>3. CASE out # NoTime
    <3>1. out = Max(times)
      BY <2>3
    <3>2. work = out - in
      BY <2>3
    <3> QED
      BY <2>1, <3>1, <3>2
  <2> QED
    BY <2>2, <2>3
<1>5. status \in Attended /\ (status = "LATE" => in > From + Grace)
  BY <1>4, StatusIs
<1>6. row = [in |-> in, out |-> out, work |-> work, status |-> status,
             signoff |-> IF out = NoTime THEN "MISSING" ELSE "COMPLETE",
             ot |-> IF out = NoTime THEN 0 ELSE AtLeast0(out - To),
             source |-> "BIOMETRIC", by |-> FALSE]
  BY DEF Classify
<1> PICK ot : ot = IF out = NoTime THEN 0 ELSE AtLeast0(out - To)
  OBVIOUS
<1>7. ot \in Nat
  BY <1>4, BoundsAre DEF AtLeast0
<1>8. row \in DayRow
  BY <1>4, <1>5, <1>6, <1>7 DEF DayRow
<1>9. Tells(row, times)
  BY <1>3, <1>6 DEF Tells
<1> QED
  BY <1>5, <1>6, <1>8, <1>9 DEF Tardy

LEMMA HandBecomes ==
    ASSUME StaffTyped, NEW h \in Hand, NEW w, hand' = [hand EXCEPT ![h] = w]
    PROVE  /\ hand' = [g \in Hand |-> hand'[g]]
           /\ \A g \in Hand : hand'[g] = IF g = h THEN w ELSE hand[g]
<1>1. hand = [g \in Hand |-> hand[g]]
  BY DEF StaffTyped
<1> QED
  BY <1>1

\* A session reads.
LEMMA TakeKeeps ==
    ASSUME StaffInv, NEW h \in Hand, NEW w, Take(h, w), HandOK(w),
           ~ met => HandRight(w),
           ~ met /\ ~ reshifted => \A d \in DOMAIN w.new : Tardy(w.new[d])
    PROVE  StaffInv' /\ MarkedByHandStays
<1>1. /\ UNCHANGED <<punches, dayRows, shift, declared, sheet, reshifted>>
      /\ hand' = [hand EXCEPT ![h] = w] /\ met' = (met \/ \E g \in Hand : hand[g] # NoHand)
  BY DEF Take, staffTables
<1>2. /\ hand' = [g \in Hand |-> hand'[g]]
      /\ \A g \in Hand : hand'[g] = IF g = h THEN w ELSE hand[g]
  BY <1>1, HandBecomes DEF StaffInv
<1>3. /\ \A v : HandOK(v)' = HandOK(v) /\ HandRight(v)' = HandRight(v)
      /\ \A r : Tardy(r)' = Tardy(r)
  BY <1>1 DEF HandOK, HandRight, Tardy, From, Tells, TimesOn
<1>4. StaffTyped'
  BY <1>1, <1>2, <1>3 DEF StaffInv, StaffTyped
<1>5. ASSUME ~ met' PROVE StaffCalm' /\ StaffTardy'
  <2>1. ~ met /\ \A g \in Hand : hand[g] = NoHand
    BY <1>1, <1>5
  <2>2. \A g \in Hand : hand'[g] # NoHand => g = h /\ hand'[g] = w
    BY <1>2, <2>1
  <2>3. \A d \in StaffDays :
            IF HasRow(d)' THEN Tells(dayRows[d], TimesOn(d, punches))' ELSE TimesOn(d, punches)' = {}
    BY <1>1, <2>1 DEF StaffInv, StaffCalm, HasRow, Tells, TimesOn
  <2>4. StaffCalm'
    BY <1>3, <2>1, <2>2, <2>3 DEF StaffCalm
  <2>5. StaffTardy'
    <3>1. \A d \in StaffDays : HasRow(d)' = HasRow(d)
      BY <1>1 DEF HasRow
    <3> QED
      BY <1>1, <1>3, <2>1, <2>2, <3>1 DEF StaffInv, StaffTardy
  <2> QED
    BY <2>4, <2>5
<1>6. ASSUME met' PROVE StaffCalm' /\ StaffTardy'
  BY <1>6 DEF StaffCalm, StaffTardy
<1>7. MarkedByHandStays
  BY <1>1 DEF MarkedByHandStays
<1> QED
  BY <1>4, <1>5, <1>6, <1>7 DEF StaffInv

LEMMA BeginPunchesKeeps ==
    ASSUME StaffInv, NEW h \in Hand, NEW new \in SUBSET (StaffDays \X Times), BeginPunches(h, new)
    PROVE  StaffInv' /\ MarkedByHandStays
<1> PICK days : days = {p[1] : p \in new}
  OBVIOUS
<1> PICK stored : stored = punches \cup new
  OBVIOUS
<1> PICK was : was = [d \in days |-> dayRows[d]]
  OBVIOUS
<1> PICK now : now = [d \in days |-> RebuiltRow(d, TimesOn(d, stored))]
  OBVIOUS
<1> PICK w : w = [kind |-> "punches", punches |-> new, was |-> was, new |-> now]
  OBVIOUS
<1>1. Take(h, w)
  BY DEF BeginPunches
<1>2. StaffTyped /\ stored \in SUBSET (StaffDays \X Times) /\ days \subseteq StaffDays
  BY DEF StaffInv, StaffTyped
<1>3. ASSUME NEW d \in days
      PROVE  /\ now[d] \in DayRow /\ was[d] = dayRows[d] /\ Tells(now[d], TimesOn(d, stored))
             /\ (dayRows[d] # NoDayRow /\ dayRows[d].source = "MANUAL") => now[d] = dayRows[d]
             /\ (now[d] = dayRows[d] /\ dayRows[d] # NoDayRow) \/ Tardy(now[d])
  <2> PICK times : times = TimesOn(d, stored)
    OBVIOUS
  <2> PICK made : made = Classify(times)
    OBVIOUS
  <2>1. times \in SUBSET Nat /\ IsFiniteSet(times)
    BY <1>2, TimesAre
  <2>2. times # {}
    <3> PICK p \in new : p[1] = d
      OBVIOUS
    <3> QED
      BY DEF TimesOn
  <2>3. made \in DayRow /\ Tells(made, times) /\ Tardy(made)
    BY <1>2, <2>1, <2>2, ClassifyIs
  <2>4. dayRows[d] \in DayRow \cup {NoDayRow}
    BY <1>2 DEF StaffTyped
  <2>5. now[d] = RebuiltRow(d, times) /\ was[d] = dayRows[d]
    OBVIOUS
  <2>6. CASE dayRows[d] # NoDayRow /\ dayRows[d].source = "MANUAL"
    <3>1. now[d] = dayRows[d]
      BY <2>5, <2>6 DEF RebuiltRow
    <3> QED
      BY <2>4, <2>5, <2>6, <3>1 DEF Tells
  <2>7. CASE ~ (dayRows[d] # NoDayRow /\ dayRows[d].source = "MANUAL")
    <3> PICK by : by = (dayRows[d] # NoDayRow /\ dayRows[d].by)
      OBVIOUS
    <3>1. now[d] = [made EXCEPT !.by = by]
      BY <2>5, <2>7 DEF RebuiltRow
    <3>2. by \in BOOLEAN
      BY <2>4 DEF DayRow
    <3>3. now[d] \in DayRow
      BY <2>3, <3>1, <3>2 DEF DayRow
    <3>4. now[d].source = made.source /\ now[d].in = made.in /\ now[d].out = made.out
          /\ now[d].status = made.status
      BY <2>3, <3>1 DEF DayRow
    <3>5. Tells(now[d], times) /\ Tardy(now[d])
      BY <2>3, <3>4 DEF Tells, Tardy
    <3> QED
      BY <2>5, <2>7, <3>3, <3>5
  <2> QED
    BY <2>6, <2>7
<1>4. DOMAIN was = days /\ DOMAIN now = days
  OBVIOUS
<1>5. HandOK(w)
  <2>1. \A d \in days : was[d] \in DayRow \cup {NoDayRow}
    BY <1>2, <1>3 DEF StaffTyped
  <2> QED
    BY <1>2, <1>3, <1>4, <2>1 DEF HandOK
<1>6. HandRight(w)
  BY <1>3, <1>4 DEF HandRight
<1>7. ~ met /\ ~ reshifted => \A d \in DOMAIN w.new : Tardy(w.new[d])
  BY <1>2, <1>3, <1>4 DEF StaffInv, StaffTardy, HasRow
<1> QED
  BY <1>1, <1>5, <1>6, <1>7, TakeKeeps

LEMMA BeginMarkKeeps ==
    ASSUME StaffInv, NEW h \in Hand, NEW d \in StaffDays, NEW in \in Times,
           NEW out \in Times \cup {NoTime}, BeginMark(h, d, in, out)
    PROVE  StaffInv' /\ MarkedByHandStays
<1> PICK row : row = ByHand(in, out, dayRows[d])
  OBVIOUS
<1> PICK was, new : was = [x \in {d} |-> dayRows[d]] /\ new = [x \in {d} |-> row]
  OBVIOUS
<1> PICK w : w = [kind |-> "mark", punches |-> {}, was |-> was, new |-> new]
  OBVIOUS
<1>1. Take(h, w) /\ (out = NoTime \/ out > in)
  BY DEF BeginMark
<1>2. StaffTyped /\ dayRows[d] \in DayRow \cup {NoDayRow}
  BY DEF StaffInv, StaffTyped
<1>3. in \in Nat /\ out \in Nat \cup {NoTime}
  BY StaffAssumption
<1> PICK work : work = IF out = NoTime THEN 0 ELSE out - in
  OBVIOUS
<1> PICK status : status = Status(in, out, work)
  OBVIOUS
<1> PICK ot : ot = IF dayRows[d] = NoDayRow THEN 0 ELSE dayRows[d].ot
  OBVIOUS
<1>4. work \in Nat
  <2>1. CASE out = NoTime
    BY <2>1
  <2>2. CASE out # NoTime
    <3>1. out \in Nat /\ out > in /\ work = out - in
      BY <1>1, <1>3, <2>2
    <3> QED
      BY <1>3, <3>1
  <2> QED
    BY <2>1, <2>2
<1>5. status \in Attended /\ (status = "LATE" => in > From + Grace)
  BY <1>2, <1>3, <1>4, StatusIs
<1>6. ot \in Nat
  BY <1>2 DEF DayRow
<1>7. row = [in |-> in, out |-> out, work |-> work, status |-> status,
             signoff |-> IF out = NoTime THEN "MISSING" ELSE "COMPLETE",
             ot |-> ot, source |-> "MANUAL", by |-> TRUE]
  BY DEF ByHand
<1>8. row \in DayRow /\ Tardy(row) /\ row.source = "MANUAL"
  BY <1>3, <1>4, <1>5, <1>6, <1>7 DEF DayRow, Tardy
<1>9. HandOK(w)
  BY <1>2, <1>8 DEF HandOK
<1>10. HandRight(w)
  BY <1>8 DEF HandRight, Tells
<1> QED
  BY <1>1, <1>8, <1>9, <1>10, TakeKeeps

\* What a commit makes of a row.
LEMMA WrittenRowIs ==
    ASSUME NEW was \in DayRow \cup {NoDayRow}, NEW new \in DayRow, NEW now \in DayRow \cup {NoDayRow},
           was = NoDayRow => now = NoDayRow, was # NoDayRow => now # NoDayRow,
           NEW row, row = WrittenRow(was, new, now)
    PROVE  row \in DayRow /\ (was = now => row = new)
<1>1. CASE was = NoDayRow
  BY <1>1 DEF WrittenRow
<1>2. CASE was # NoDayRow
  <2>1. was \in DayRow /\ now \in DayRow
    BY <1>2
  <2> DEFINE columns == {"in", "out", "work", "status", "signoff", "ot", "source", "by"}
  <2>2. /\ DOMAIN now = columns /\ DOMAIN new = columns
        /\ new = [c \in columns |-> new[c]]
    BY <2>1 DEF DayRow
  <2>3. row = [c \in columns |-> IF was[c] = new[c] THEN now[c] ELSE new[c]]
    BY <1>2, <2>2 DEF WrittenRow
  <2>4. \A c \in columns : row[c] = now[c] \/ row[c] = new[c]
    BY <2>3
  <2>5. row = [c \in columns |-> row[c]]
    BY <2>3
  <2>6. row \in DayRow
    <3>1. row = [in |-> row.in, out |-> row.out, work |-> row.work, status |-> row.status,
                 signoff |-> row.signoff, ot |-> row.ot, source |-> row.source, by |-> row.by]
      BY <2>5
    <3>2. /\ row.in \in Nat /\ row.out \in Nat \cup {NoTime} /\ row.work \in Nat
          /\ row.status \in Attended /\ row.signoff \in {"MISSING", "COMPLETE"} /\ row.ot \in Nat
          /\ row.source \in {"BIOMETRIC", "MANUAL"} /\ row.by \in BOOLEAN
      BY <2>1, <2>4 DEF DayRow
    <3> QED
      BY <3>1, <3>2 DEF DayRow
  <2>7. was = now => row = new
    BY <2>2, <2>3
  <2> QED
    BY <2>6, <2>7
<1> QED
  BY <1>1, <1>2

\* A session commits.
LEMMA CommitHandKeeps ==
    ASSUME StaffInv, NEW h \in Hand, CommitHand(h)
    PROVE  StaffInv' /\ MarkedByHandStays
<1> PICK w : w = hand[h]
  OBVIOUS
<1>1. /\ w # NoHand /\ hand' = [hand EXCEPT ![h] = NoHand]
      /\ UNCHANGED <<shift, declared, sheet, met, reshifted>>
  BY DEF CommitHand
<1>2. StaffTyped /\ HandOK(w)
  BY <1>1 DEF StaffInv, StaffTyped
<1>3. /\ hand' = [g \in Hand |-> hand'[g]]
      /\ \A g \in Hand : hand'[g] = IF g = h THEN NoHand ELSE hand[g]
  BY <1>1, <1>2, HandBecomes
<1>4. /\ dayRows \in [StaffDays -> DayRow \cup {NoDayRow}] /\ punches \subseteq StaffDays \X Times
      /\ w.punches \subseteq StaffDays \X Times
      /\ DOMAIN w.new = DOMAIN w.was /\ DOMAIN w.was \subseteq StaffDays
  BY <1>2 DEF StaffTyped, HandOK
<1>5. CASE Collides(w)
  <2>1. punches' = punches /\ dayRows' = dayRows
    BY <1>5, <1>1 DEF CommitHand, staffTables
  <2>2. \A v : HandOK(v)' = HandOK(v)
    BY <2>1 DEF HandOK
  <2>3. StaffTyped'
    BY <1>1, <1>2, <1>3, <2>1, <2>2 DEF StaffTyped
  <2>4. \A v : HandRight(v)' = HandRight(v)
    BY <2>1 DEF HandRight, Tells, TimesOn
  <2>5. /\ \A d : HasRow(d)' = HasRow(d)
        /\ \A d : Tells(dayRows[d], TimesOn(d, punches))' = Tells(dayRows[d], TimesOn(d, punches))
        /\ \A d : (TimesOn(d, punches) = {})' = (TimesOn(d, punches) = {})
        /\ \A r : Tardy(r)' = Tardy(r)
    BY <1>1, <2>1 DEF HasRow, Tells, TimesOn, Tardy, From
  <2>6. StaffCalm'
    BY <1>1, <1>3, <2>4, <2>5 DEF StaffInv, StaffCalm
  <2>7. StaffTardy'
    BY <1>1, <1>3, <2>1, <2>5 DEF StaffInv, StaffTardy
  <2>8. MarkedByHandStays
    BY <2>1 DEF MarkedByHandStays
  <2> QED
    BY <2>3, <2>6, <2>7, <2>8 DEF StaffInv
<1>6. CASE ~ Collides(w)
  <2>1. /\ punches' = punches \cup w.punches
        /\ dayRows' = [d \in StaffDays |->
               IF d \in DOMAIN w.new THEN WrittenRow(w.was[d], w.new[d], dayRows[d]) ELSE dayRows[d]]
    BY <1>6 DEF CommitHand
  <2>2. ASSUME NEW d \in DOMAIN w.was
        PROVE  dayRows'[d] \in DayRow /\ (w.was[d] = dayRows[d] => dayRows'[d] = w.new[d])
    <3>1. /\ w.was[d] \in DayRow \cup {NoDayRow} /\ w.new[d] \in DayRow
          /\ w.was[d] # NoDayRow => dayRows[d] # NoDayRow
          /\ dayRows[d] \in DayRow \cup {NoDayRow}
      BY <1>2, <1>4 DEF HandOK
    <3>2. w.was[d] = NoDayRow => dayRows[d] = NoDayRow
      BY <1>6 DEF Collides
    <3>3. dayRows'[d] = WrittenRow(w.was[d], w.new[d], dayRows[d])
      BY <1>4, <2>1
    <3> QED
      BY <3>1, <3>2, <3>3, WrittenRowIs
  <2>3. \A d \in StaffDays \ DOMAIN w.was : dayRows'[d] = dayRows[d]
    BY <1>4, <2>1
  <2>4. dayRows' \in [StaffDays -> DayRow \cup {NoDayRow}]
    <3>1. \A d \in StaffDays : dayRows'[d] \in DayRow \cup {NoDayRow}
      BY <1>4, <2>2, <2>3
    <3>2. dayRows' = [d \in StaffDays |-> dayRows'[d]]
      BY <2>1
    <3> QED
      BY <3>1, <3>2
  <2>5. \A d \in StaffDays : dayRows[d] # NoDayRow => dayRows'[d] # NoDayRow
    BY <2>2, <2>3, NoDayIsNone
  <2>6. ASSUME NEW g \in Hand, hand'[g] # NoHand PROVE HandOK(hand[g])'
    <3>1. hand'[g] = hand[g] /\ HandOK(hand[g])
      BY <1>2, <1>3, <2>6 DEF StaffTyped
    <3> QED
      BY <2>5, <3>1 DEF HandOK
  <2>7. StaffTyped'
    <3>1. punches' \subseteq StaffDays \X Times
      BY <1>4, <2>1
    <3> QED
      BY <1>1, <1>2, <1>3, <2>4, <2>6, <3>1 DEF StaffTyped
  <2>8. ASSUME ~ met
        PROVE  /\ \A g \in Hand : hand'[g] = NoHand
               /\ HandRight(w) /\ \A d \in DOMAIN w.was : w.was[d] = dayRows[d] /\ dayRows'[d] = w.new[d]
    <3>1. HandRight(w) /\ \A g \in Hand : hand[g] # NoHand => g = h
      BY <1>1, <2>8 DEF StaffInv, StaffCalm
    <3>2. \A d \in DOMAIN w.was : w.was[d] = dayRows[d]
      BY <3>1 DEF HandRight
    <3> QED
      BY <1>3, <2>2, <3>1, <3>2
  <2>9. StaffCalm'
    <3> SUFFICES ASSUME ~ met PROVE StaffCalm'
      BY <1>1 DEF StaffCalm
    <3>1. ASSUME NEW d \in StaffDays
          PROVE  IF HasRow(d)' THEN Tells(dayRows[d], TimesOn(d, punches))' ELSE TimesOn(d, punches)' = {}
      <4>1. CASE d \in DOMAIN w.was
        <5>1. Tells(w.new[d], TimesOn(d, punches \cup w.punches)) /\ dayRows'[d] = w.new[d]
          BY <2>8, <4>1 DEF HandRight
        <5>2. dayRows'[d] # NoDayRow
          BY <2>2, <4>1, NoDayIsNone
        <5> QED
          BY <2>1, <5>1, <5>2 DEF HasRow, Tells, TimesOn
      <4>2. CASE d \notin DOMAIN w.was
        <5>1. dayRows'[d] = dayRows[d]
          BY <2>3, <4>2
        <5>2. TimesOn(d, punches') = TimesOn(d, punches)
          <6>1. \A p \in w.punches : p[1] # d
            BY <2>8, <4>2 DEF HandRight
          <6> QED
            BY <2>1, <6>1 DEF TimesOn
        <5>3. IF HasRow(d) THEN Tells(dayRows[d], TimesOn(d, punches)) ELSE TimesOn(d, punches) = {}
          BY <1>1 DEF StaffInv, StaffCalm
        <5> QED
          BY <5>1, <5>2, <5>3 DEF HasRow, Tells, TimesOn
      <4> QED
        BY <4>1, <4>2
    <3> QED
      BY <2>8, <3>1 DEF StaffCalm
  <2>10. StaffTardy'
    <3> SUFFICES ASSUME ~ met, ~ reshifted PROVE StaffTardy'
      BY <1>1 DEF StaffTardy
    <3>1. /\ \A d \in StaffDays : HasRow(d) => Tardy(dayRows[d])
          /\ \A d \in DOMAIN w.new : Tardy(w.new[d])
      BY <1>1 DEF StaffInv, StaffTardy
    <3>2. \A r : Tardy(r)' = Tardy(r)
      BY <1>1 DEF Tardy, From
    <3>3. ASSUME NEW d \in StaffDays, HasRow(d)' PROVE Tardy(dayRows[d])'
      <4>1. CASE d \in DOMAIN w.was
        BY <1>4, <2>8, <3>1, <3>2, <4>1
      <4>2. CASE d \notin DOMAIN w.was
        BY <2>3, <3>1, <3>2, <3>3, <4>2 DEF HasRow
      <4> QED
        BY <4>1, <4>2
    <3> QED
      BY <2>8, <3>3 DEF StaffTardy
  <2>11. MarkedByHandStays
    <3> SUFFICES ASSUME NEW d \in StaffDays, HasRow(d), dayRows[d].source = "MANUAL",
                        dayRows'[d] # dayRows[d], ~ met
                 PROVE  hand[h].kind = "mark" /\ hand'[h] = NoHand
      BY DEF MarkedByHandStays
    <3>1. d \in DOMAIN w.was
      BY <2>3
    <3>2. dayRows'[d] = w.new[d] /\ HandRight(w)
      BY <2>8, <3>1
    <3>3. w.kind # "punches"
      BY <3>1, <3>2 DEF HandRight, HasRow
    <3> QED
      BY <1>2, <1>3, <3>3 DEF HandOK
  <2> QED
    BY <2>7, <2>9, <2>10, <2>11 DEF StaffInv
<1> QED
  BY <1>5, <1>6

LEMMA StaffStart == StaffInit => StaffInv
<1> SUFFICES ASSUME StaffInit PROVE StaffInv
  OBVIOUS
<1>1. shift \in (Times \X Times) \cup {NoShift}
  BY StaffAssumption DEF StaffInit
<1>2. StaffTyped
  BY <1>1 DEF StaffInit, StaffTyped
<1>3. StaffCalm /\ StaffTardy
  BY DEF StaffInit, StaffCalm, StaffTardy, HasRow, TimesOn
<1> QED
  BY <1>2, <1>3 DEF StaffInv

LEMMA RecordsStep ==
    ASSUME StaffInv, [StaffNext]_staffVars
    PROVE  StaffInv' /\ (StaffNext => MarkedByHandStays)
<1>1. ASSUME NEW h \in Hand, NEW new \in SUBSET (StaffDays \X Times), BeginPunches(h, new)
      PROVE  StaffInv' /\ MarkedByHandStays
  BY <1>1, BeginPunchesKeeps
<1>2. ASSUME NEW h \in Hand, NEW d \in StaffDays, NEW in \in Times, NEW out \in Times \cup {NoTime},
             BeginMark(h, d, in, out)
      PROVE  StaffInv' /\ MarkedByHandStays
  BY <1>2, BeginMarkKeeps
<1>3. ASSUME NEW h \in Hand, CommitHand(h)
      PROVE  StaffInv' /\ MarkedByHandStays
  BY <1>3, CommitHandKeeps
<1>4. ASSUME UNCHANGED <<punches, dayRows, sheet, hand, met>>, declared' \subseteq StaffDays,
             shift' \in (Times \X Times) \cup {NoShift},
             reshifted' \/ (shift' = shift /\ reshifted' = reshifted)
      PROVE  StaffInv' /\ MarkedByHandStays
  <2>1. \A v : HandOK(v)' = HandOK(v) /\ HandRight(v)' = HandRight(v)
    BY <1>4 DEF HandOK, HandRight, Tells, TimesOn
  <2>2. StaffTyped'
    BY <1>4, <2>1 DEF StaffInv, StaffTyped
  <2>3. /\ \A d : HasRow(d)' = HasRow(d)
        /\ \A d : Tells(dayRows[d], TimesOn(d, punches))' = Tells(dayRows[d], TimesOn(d, punches))
        /\ \A d : (TimesOn(d, punches) = {})' = (TimesOn(d, punches) = {})
    BY <1>4 DEF HasRow, Tells, TimesOn
  <2>4. StaffCalm'
    BY <1>4, <2>1, <2>3 DEF StaffInv, StaffCalm
  <2>5. StaffTardy'
    <3>1. ASSUME shift' = shift, reshifted' = reshifted PROVE StaffTardy'
      <4>1. \A r : Tardy(r)' = Tardy(r)
        BY <3>1 DEF Tardy, From
      <4> QED
        BY <1>4, <2>3, <3>1, <4>1 DEF StaffInv, StaffTardy
    <3> QED
      BY <1>4, <3>1 DEF StaffTardy
  <2>6. MarkedByHandStays
    BY <1>4 DEF MarkedByHandStays
  <2> QED
    BY <2>2, <2>4, <2>5, <2>6 DEF StaffInv
<1>5. shift \in (Times \X Times) \cup {NoShift} /\ declared \subseteq StaffDays
  BY DEF StaffInv, StaffTyped
<1>6. ASSUME NEW new \in OwnShifts \cup {NoShift}, SetShift(new) PROVE StaffInv' /\ MarkedByHandStays
  <2>1. new \in (Times \X Times) \cup {NoShift}
    BY StaffAssumption
  <2> QED
    <3>1. UNCHANGED <<punches, dayRows, sheet, hand, met>> /\ declared' \subseteq StaffDays
      BY <1>5, <1>6 DEF SetShift, staffTables
    <3>2. reshifted' /\ shift' \in (Times \X Times) \cup {NoShift}
      BY <1>6, <2>1 DEF SetShift
    <3>3. reshifted' \/ (shift' = shift /\ reshifted' = reshifted)
      BY <3>2
    <3> QED
      BY ONLY <1>4, <3>1, <3>2, <3>3, Zenon
<1>7. ASSUME NEW days \in SUBSET StaffDays, Declare(days) PROVE StaffInv' /\ MarkedByHandStays
  BY <1>4, <1>5, <1>7 DEF Declare, staffTables
<1>8. ASSUME UNCHANGED staffVars PROVE StaffInv' /\ MarkedByHandStays
  BY <1>4, <1>5, <1>8 DEF staffVars, staffTables
<1> QED
  BY <1>1, <1>2, <1>3, <1>6, <1>7, <1>8 DEF StaffNext

-----------------------------------------------------------------------------
(* What is read off the rows of the staff.                                  *)

LEMMA RowIs ==
    ASSUME StaffTyped, NEW d \in StaffDays
    PROVE  /\ HasRow(d) => dayRows[d] \in DayRow /\ dayRows[d].status \in Attended
           /\ Worked(d) <=> HasRow(d)
<1>1. dayRows[d] \in DayRow \cup {NoDayRow}
  BY DEF StaffTyped
<1> QED
  BY <1>1 DEF HasRow, Worked, DayRow

LEMMA StaffReportsDoAgree == StaffTyped => StaffReportsAgree
<1> SUFFICES ASSUME StaffTyped PROVE StaffReportsAgree
  OBVIOUS
<1> PICK worked : worked = {d \in StaffDays : Worked(d)}
  OBVIOUS
<1> PICK half : half = {d \in StaffDays : HasRow(d) /\ dayRows[d].status = "HALF_DAY"}
  OBVIOUS
<1>1. \A d \in StaffDays : /\ HasRow(d) => dayRows[d].status \in {"PRESENT", "LATE", "HALF_DAY"}
                           /\ Worked(d) <=> HasRow(d)
  BY RowIs DEF Attended
<1>2. IsFiniteSet(StaffDays) /\ WeeklyOff \subseteq StaffDays /\ declared \subseteq StaffDays
  BY StaffAssumption DEF StaffTyped
<1>3. worked = Performance.present
  BY <1>1 DEF Performance
<1>4. worked = Listed("present") /\ half = Listed("half_day")
  BY <1>1 DEF Listed, Attended
<1>5. DatewiseTotal("P") + DatewiseTotal("L") + DatewiseTotal("HD") = Cardinality(worked)
  <2> PICK present, late, short :
          /\ present = {d \in StaffDays : DayCode(d) = "P"} /\ late = {d \in StaffDays : DayCode(d) = "L"}
          /\ short = {d \in StaffDays : DayCode(d) = "HD"}
    OBVIOUS
  <2>1. \A d \in StaffDays : /\ DayCode(d) = "P" <=> HasRow(d) /\ dayRows[d].status = "PRESENT"
                             /\ DayCode(d) = "L" <=> HasRow(d) /\ dayRows[d].status = "LATE"
                             /\ DayCode(d) = "HD" <=> HasRow(d) /\ dayRows[d].status = "HALF_DAY"
    BY <1>1 DEF DayCode
  <2>2. worked = (present \cup late) \cup short
    BY <1>1, <2>1
  <2>3. present \cap late = {} /\ (present \cup late) \cap short = {}
    OBVIOUS
  <2>4. IsFiniteSet(present) /\ IsFiniteSet(late) /\ IsFiniteSet(short)
    BY <1>2, FS_Subset
  <2>5. IsFiniteSet(present \cup late) /\ Cardinality(present \cup late) = Cardinality(present) + Cardinality(late)
    BY <2>3, <2>4, BothApart
  <2>6. Cardinality(worked) = Cardinality(present \cup late) + Cardinality(short)
    <3> PICK early : early = present \cup late
      OBVIOUS
    <3>1. IsFiniteSet(early) /\ IsFiniteSet(short) /\ early \cap short = {} /\ worked = early \cup short
      BY <2>2, <2>3, <2>4, <2>5
    <3>2. Cardinality(early \cup short) = Cardinality(early) + Cardinality(short)
      BY ONLY <3>1, BothApart
    <3> QED
      BY <3>1, <3>2
  <2> QED
    BY <2>4, <2>5, <2>6, FS_CardinalityType DEF DatewiseTotal
<1>6. DatewiseTotal("A") = Cardinality(Performance.absent)
  <2>1. {d \in StaffDays : DayCode(d) = "A"} = Performance.absent
    BY <1>1, <1>2 DEF DayCode, Performance
  <2> QED
    BY <2>1 DEF DatewiseTotal
<1>7. /\ DatewiseTotal("HL") = Cardinality(Performance.holiday)
      /\ DatewiseTotal("HL") = Cardinality(CreditedHolidays)
  <2>1. /\ {d \in StaffDays : DayCode(d) = "HL"} = Performance.holiday
        /\ {d \in StaffDays : DayCode(d) = "HL"} = CreditedHolidays
    BY <1>1, <1>2 DEF DayCode, Performance, CreditedHolidays
  <2> QED
    BY <2>1 DEF DatewiseTotal
<1>8. Performance.absent = Listed("absent") \ declared
  BY <1>1, <1>2 DEF Performance, Listed
<1>9. \A d \in StaffDays \ declared : Register(d) \in {"WO", "ABSENT"} <=> ~ Worked(d)
  BY <1>1 DEF Register
<1>10. PresentHalves = 2 * Cardinality(worked) - Cardinality(half)
  <2> PICK f : f = [d \in worked |-> IF dayRows[d].status = "HALF_DAY" THEN 1 ELSE 2]
    OBVIOUS
  <2> PICK one, more : one = [d \in worked |-> 1] /\ more = [d \in worked |-> f[d] - 1]
    OBVIOUS
  <2> PICK whole : whole = worked \ half
    OBVIOUS
  <2>1. half \subseteq worked /\ IsFiniteSet(worked) /\ IsFiniteSet(half) /\ IsFiniteSet(whole)
    BY <1>1, <1>2, FS_Subset
  <2>2. PresentHalves = Total(f, worked)
    BY SumOfAll DEF PresentHalves
  <2>3. \A d \in worked : f[d] \in Int /\ one[d] \in Int /\ one[d] = 1 /\ more[d] = f[d] - one[d]
    OBVIOUS
  <2>4. /\ \A d \in whole : more[d] = 1 /\ more[d] \in Int
        /\ \A d \in half : more[d] = 0 /\ more[d] \in Int
    BY <1>1, <2>1
  <2>5. Total(more, worked) = Total(f, worked) - Total(one, worked)
    BY <2>1, <2>3, TotalLess
  <2>6. Total(one, worked) = Cardinality(worked) /\ Total(more, whole) = Cardinality(whole)
    BY <2>1, <2>3, <2>4, TotalOfOnes
  <2>7. Total(more, whole) = Total(more, worked)
    <3>1. \A d \in worked : more[d] \in Int
      BY <2>3
    <3>2. \A d \in worked \ whole : more[d] = 0
      BY <2>4
    <3>3. whole \in SUBSET worked
      OBVIOUS
    <3> QED
      BY <2>1, <3>1, <3>2, <3>3, TotalWithoutZeros
  <2>8. Cardinality(whole) = Cardinality(worked) - Cardinality(half)
    <3>1. worked \cap half = half
      BY <2>1
    <3>2. Cardinality(worked \ half) = Cardinality(worked) - Cardinality(worked \cap half)
      BY ONLY <2>1, FS_Difference
    <3> QED
      BY <3>1, <3>2
  <2>9. Total(f, worked) \in Int /\ Cardinality(worked) \in Nat /\ Cardinality(half) \in Nat
    BY <2>1, <2>3, TotalIsInt, FS_CardinalityType
  <2> PICK a, b, x, y, z : /\ a = Total(f, worked) /\ b = Cardinality(worked) /\ x = Cardinality(half)
                           /\ y = Total(more, worked) /\ z = Cardinality(whole)
    OBVIOUS
  <2>10. PresentHalves = a /\ y = a - b /\ y = z /\ z = b - x /\ a \in Int /\ b \in Nat /\ x \in Nat
    BY <2>2, <2>5, <2>6, <2>7, <2>8, <2>9
  <2>11. PresentHalves = 2 * b - x
    BY ONLY <2>10
  <2> QED
    BY <2>11
<1> QED
  BY <1>3, <1>4, <1>5, <1>6, <1>7, <1>8, <1>9, <1>10 DEF StaffReportsAgree

\* Every minute from the first is in a slab, and costs something.
SlabsCover == \A minutes \in Nat \ {0} : FineFor(minutes) > 0

LEMMA LateAreFined == SlabsCover /\ StaffInv => LateIsFined
<1> SUFFICES ASSUME SlabsCover, StaffInv, ~ met, ~ reshifted, NEW d \in Listed("late_in")
             PROVE  d \in Fined
  BY DEF LateIsFined
<1> PICK row : row = dayRows[d]
  OBVIOUS
<1>1. d \in StaffDays /\ HasRow(d) /\ row.status = "LATE"
  BY DEF Listed
<1>2. row \in DayRow /\ row.in \in Nat /\ row.in > From + Grace
  BY <1>1, RowIs DEF StaffInv, StaffTardy, Tardy, DayRow
<1>3. From \in Nat /\ Grace \in Nat
  BY BoundsAre DEF StaffInv
<1>4. StartForDay(d) \in Nat /\ StartForDay(d) <= From
  <2>1. CASE shift # NoShift
    BY <1>3, <2>1 DEF StartForDay, From
  <2>2. CASE shift = NoShift
    BY <2>2, <1>3, StaffAssumption DEF StartForDay, From
  <2> QED
    BY <2>1, <2>2
<1>5. LateMinutes(d) \in Nat \ {0}
  BY <1>2, <1>3, <1>4 DEF LateMinutes, AtLeast0
<1> QED
  BY <1>1, <1>5 DEF SlabsCover, Fined

\* What the lectures of a sheet are.
LEMMA SheetsAre ==
    ASSUME StaffTyped
    PROVE  /\ DOMAIN sheet = 1 .. Len(sheet) /\ Len(sheet) \in Nat /\ IsFiniteSet(DOMAIN sheet)
           /\ Cardinality(DOMAIN sheet) = Len(sheet)
           /\ \A n \in DOMAIN sheet : sheet[n].from \in Nat /\ sheet[n].start \in Nat \cup {NoTime}
<1> PICK rows : rows = [teacher : STRING, actual : STRING, from : Nat, to : Nat,
                        start : Nat \cup {NoTime}, stop : Nat \cup {NoTime}]
  OBVIOUS
<1>1. sheet \in Seq(rows)
  BY StaffAssumption DEF StaffTyped
<1>2. DOMAIN sheet = 1 .. Len(sheet) /\ Len(sheet) \in Nat
  BY <1>1
<1>3. IsFiniteSet(1 .. Len(sheet)) /\ Cardinality(1 .. Len(sheet)) = Len(sheet)
  <2>1. Len(sheet) \in Int /\ 1 \in Int /\ Len(sheet) - 1 + 1 = Len(sheet)
    BY <1>2
  <2>2. Len(sheet) < 1 => Len(sheet) = 0
    BY <1>2
  <2> QED
    BY <2>1, <2>2, FS_Interval
<1>4. \A n \in DOMAIN sheet : sheet[n].from \in Nat /\ sheet[n].start \in Nat \cup {NoTime}
  <2> SUFFICES ASSUME NEW n \in DOMAIN sheet
               PROVE  sheet[n].from \in Nat /\ sheet[n].start \in Nat \cup {NoTime}
    OBVIOUS
  <2>1. sheet[n] \in rows
    BY <1>1, <1>2, ElementOfSeq
  <2> QED
    BY <2>1
<1> QED
  BY <1>2, <1>3, <1>4

LEMMA LecturesAreCredited == StaffTyped => LecturesCredited
<1> SUFFICES ASSUME StaffTyped PROVE LecturesCredited
  OBVIOUS
<1> PICK D : D = DOMAIN sheet
  OBVIOUS
<1> PICK teachers : teachers = UNION {{sheet[n].teacher, sheet[n].actual} : n \in D}
  OBVIOUS
<1> PICK part : part = [t \in teachers |-> Given(t)]
  OBVIOUS
<1>1. IsFiniteSet(D) /\ Cardinality(D) = Len(sheet)
  BY SheetsAre
<1>2. IsFiniteSet(teachers)
  <2> PICK f, g : f = [n \in D |-> sheet[n].teacher] /\ g = [n \in D |-> sheet[n].actual]
    OBVIOUS
  <2> PICK F, G : F = {f[n] : n \in D} /\ G = {g[n] : n \in D}
    OBVIOUS
  <2>1. IsFiniteSet({f[n] : n \in D}) /\ IsFiniteSet({g[n] : n \in D})
    BY ONLY <1>1, ImageFinite
  <2>2. IsFiniteSet(F) /\ IsFiniteSet(G)
    BY <2>1
  <2>3. IsFiniteSet(F \cup G)
    BY ONLY <2>2, FS_Union
  <2>4. teachers = F \cup G
    OBVIOUS
  <2> QED
    BY <2>3, <2>4
<1>3. Parts(part, teachers, D)
  <2>1. \A n \in D : (IF sheet[n].actual = "none" THEN sheet[n].teacher ELSE sheet[n].actual) \in teachers
    OBVIOUS
  <2>2. \A t : Given(t) = {n \in D : (IF sheet[n].actual = "none" THEN sheet[n].teacher
                                      ELSE sheet[n].actual) = t}
    BY DEF Given
  <2> QED
    BY <2>1, <2>2 DEF Parts
<1>4. Total([t \in teachers |-> Cardinality(part[t])], teachers) = Len(sheet)
  <2>1. IsFiniteSet(D) /\ IsFiniteSet(teachers) /\ Parts(part, teachers, D)
    BY <1>1, <1>2, <1>3
  <2>2. Total([t \in teachers |-> Cardinality(part[t])], teachers) = Cardinality(D)
    BY ONLY <2>1, CountOfParts
  <2> QED
    BY <1>1, <2>2
<1>5. SumFunction([t \in teachers |-> FacultyStats(t).total]) = Len(sheet)
  <2>1. [t \in teachers |-> FacultyStats(t).total] = [t \in teachers |-> Cardinality(part[t])]
    BY DEF FacultyStats
  <2> PICK f : f = [t \in teachers |-> Cardinality(part[t])]
    OBVIOUS
  <2>2. SumFunction(f) = Total(f, teachers)
    BY SumOfAll
  <2> QED
    BY <1>4, <2>1, <2>2
<1>6. ASSUME NEW t \in teachers
      PROVE  /\ FacultyStats(t).delayed > 0 <=> FacultyStats(t).lost > 0
             /\ FacultyStats(t).delayed + FacultyStats(t).onTime <= FacultyStats(t).total
  <2> PICK given : given = Given(t)
    OBVIOUS
  <2> PICK begun : begun = {n \in given : sheet[n].start # NoTime}
    OBVIOUS
  <2> PICK late : late = {n \in begun : sheet[n].start > sheet[n].from}
    OBVIOUS
  <2> PICK f : f = [n \in given |-> Lost(sheet[n])]
    OBVIOUS
  <2>1. /\ FacultyStats(t).delayed = Cardinality(late) /\ FacultyStats(t).onTime = Cardinality(begun \ late)
        /\ FacultyStats(t).total = Cardinality(given) /\ FacultyStats(t).lost = SumFunction(f)
    BY DEF FacultyStats
  <2>2. given \subseteq D /\ begun \subseteq given /\ late \subseteq begun
    BY DEF Given
  <2>3. IsFiniteSet(given) /\ IsFiniteSet(begun) /\ IsFiniteSet(late) /\ IsFiniteSet(begun \ late)
    BY <1>1, <2>2, FS_Subset
  <2>4. SumFunction(f) = Total(f, given)
    BY SumOfAll
  <2>5. \A n \in given : f[n] \in Nat /\ (f[n] = 0 <=> n \notin late)
    <3> SUFFICES ASSUME NEW n \in given PROVE f[n] \in Nat /\ (f[n] = 0 <=> n \notin late)
      OBVIOUS
    <3>1. sheet[n].from \in Nat /\ sheet[n].start \in Nat \cup {NoTime}
      BY <2>2, SheetsAre
    <3>2. f[n] = Lost(sheet[n])
      OBVIOUS
    <3>3. n \in late <=> sheet[n].start # NoTime /\ sheet[n].start > sheet[n].from
      OBVIOUS
    <3> QED
      BY <3>1, <3>2, <3>3 DEF Lost, AtLeast0
  <2>6. Cardinality(late) \in Nat /\ (Cardinality(late) = 0 <=> late = {})
    BY <2>3, FS_CardinalityType, FS_EmptySet
  <2>7. FacultyStats(t).delayed + FacultyStats(t).onTime <= FacultyStats(t).total
    <3> PICK rest : rest = begun \ late
      OBVIOUS
    <3>1. IsFiniteSet(rest) /\ late \cap rest = {} /\ late \cup rest = begun
      BY <2>2, <2>3
    <3>2. Cardinality(late \cup rest) = Cardinality(late) + Cardinality(rest)
      BY <2>3, <3>1, BothApart
    <3>3. Cardinality(begun) <= Cardinality(given)
      BY <2>2, <2>3, FS_Subset
    <3> QED
      BY <2>1, <3>1, <3>2, <3>3
  <2>8. CASE late = {}
    <3>1. Total(f, given) = 0
      BY <2>3, <2>5, <2>8, TotalOfZeros
    <3>2. FacultyStats(t).lost = 0 /\ FacultyStats(t).delayed = 0
      BY <2>1, <2>4, <2>6, <2>8, <3>1
    <3> QED
      BY <2>7, <3>2
  <2>9. CASE late # {}
    <3> PICK n \in late : TRUE
      BY <2>9
    <3>1. n \in given /\ f[n] \in Nat /\ f[n] # 0
      BY <2>2, <2>5
    <3>2. Total(f, given) = f[n] + Total(f, given \ {n})
      BY <2>3, <2>5, <3>1, TotalTake
    <3>3. Total(f, given \ {n}) \in Nat
      <4>1. IsFiniteSet(given \ {n})
        BY <2>3, FS_Subset
      <4> QED
        BY <2>5, <4>1, TotalIsNat
    <3> PICK u, v : u = Total(f, given) /\ v = Total(f, given \ {n})
      OBVIOUS
    <3>4. u > 0
      BY <3>1, <3>2, <3>3
    <3>5. FacultyStats(t).lost > 0
      BY <2>1, <2>4, <3>4
    <3>6. FacultyStats(t).delayed > 0
      BY <2>1, <2>6, <2>9
    <3> QED
      BY <2>7, <3>5, <3>6
  <2> QED
    BY <2>8, <2>9
<1> QED
  BY <1>5, <1>6 DEF LecturesCredited

LEMMA StaffInvariance == StaffSpec => []StaffInv
<1>1. StaffInv /\ [StaffNext]_staffVars => StaffInv'
  BY RecordsStep
<1> QED
  BY <1>1, StaffStart, PTL DEF StaffSpec

\* However batches of punches, marks by hand, shifts and holidays interleave:
\* while no two sessions met, the row of a day tells its first and last punch;
\* grid, date-wise sheet, lists, register and payroll always tell one story of
\* every day; every lecture is one teacher's and delayed exactly when minutes
\* were lost; and if the slabs leave no minute free, who is late on the register
\* is fined, as long as the shift is the one the rows were made with.
THEOREM StaffRecords ==
    StaffSpec => [](/\ LecturesCredited /\ RowsTellPunches /\ StaffReportsAgree
                    /\ SlabsCover => StaffRecordsSound)
<1>1. ASSUME StaffInv
      PROVE  /\ LecturesCredited /\ RowsTellPunches /\ StaffReportsAgree
             /\ SlabsCover => StaffRecordsSound
  <2>1. StaffTyped /\ StaffCalm
    BY <1>1 DEF StaffInv
  <2>2. LecturesCredited /\ StaffReportsAgree
    BY <2>1, LecturesAreCredited, StaffReportsDoAgree
  <2>3. RowsTellPunches
    <3> SUFFICES ASSUME ~ met, NEW d \in StaffDays
                 PROVE  IF ~ HasRow(d) THEN TimesOn(d, punches) = {}
                        ELSE Tells(dayRows[d], TimesOn(d, punches))
      BY DEF RowsTellPunches, Tells
    <3> QED
      BY <2>1 DEF StaffCalm
  <2>4. SlabsCover => LateIsFined
    BY <1>1, LateAreFined
  <2> QED
    BY <2>2, <2>3, <2>4 DEF StaffRecordsSound
<1> QED
  BY <1>1, StaffInvariance, PTL

\* While sessions do not meet, only another mark changes a row entered by hand:
\* no rebuild of the day does ("human edit wins").
THEOREM MarksByHandStay == StaffSpec => [][MarkedByHandStays]_staffVars
<1>1. StaffInv /\ [StaffNext]_staffVars => [MarkedByHandStays]_staffVars
  BY RecordsStep
<1> QED
  BY <1>1, StaffInvariance, PTL DEF StaffSpec

-----------------------------------------------------------------------------
(* Folds: what the uploads of the office build row by row.                   *)

\* What holds of the empty set, and of a set when it holds of what is left of it, holds
\* of every finite set.
Picks(pick, S) == \A s \in SUBSET S : s # {} => pick[s] \in s
Climbs(pick, S, G) == \A s \in SUBSET S : s # {} /\ (s \ {pick[s]}) \in G => s \in G
LEMMA BySubsets ==
    ASSUME NEW S, IsFiniteSet(S), NEW G, {} \in G, NEW pick, Picks(pick, S), Climbs(pick, S, G)
    PROVE  S \in G
<1> DEFINE Good(n) == \A s \in SUBSET S : Cardinality(s) <= n => s \in G
           N == {n \in Nat : Good(n)}
<1>1. \A s \in SUBSET S : IsFiniteSet(s) /\ Cardinality(s) \in Nat /\ Cardinality(s) <= Cardinality(S)
  BY FS_Subset, FS_CardinalityType
<1>2. 0 \in N
  <2>1. ASSUME NEW s \in SUBSET S, Cardinality(s) <= 0 PROVE s \in G
    BY <1>1, <2>1, NoneOf
  <2> QED
    BY <2>1
<1>3. ASSUME NEW n \in Nat, Good(n) PROVE Good(n + 1)
  <2>1. ASSUME NEW s \in SUBSET S, Cardinality(s) <= n + 1, s # {} PROVE s \in G
    <3> PICK x : x = pick[s]
      OBVIOUS
    <3>1. x \in s /\ IsFiniteSet(s)
      BY <1>1, <2>1 DEF Picks
    <3>2. Cardinality(s \ {x}) <= n
      BY ONLY <2>1, <3>1, n \in Nat, OneLess
    <3>3. s \ {x} \in G
      BY <1>3, <3>2
    <3> QED
      BY <2>1, <3>3 DEF Climbs
  <2> QED
    BY <1>2, <2>1
<1> PICK k : k = Cardinality(S)
  OBVIOUS
<1>4. k \in Nat /\ Cardinality(S) <= k
  BY <1>1
<1>5. k \in N
  <2>1. ASSUME NEW n \in N PROVE n + 1 \in N
    BY <1>3
  <2> HIDE DEF N
  <2>2. N \in SUBSET Nat
    BY DEF N
  <2> QED
    BY <1>2, <1>4, <2>1, <2>2, AllNumbers
<1> QED
  BY <1>4, <1>5

\* A fold that takes the elements one by one has a value at every set.
FoldAt(base, pick, step, s, g) ==
    IF s = {} THEN base ELSE step[<<g[s \ {pick[s]}], pick[s]>>]
Foldings(S, A, base, pick, step) ==
    {g \in [SUBSET S -> A] : \A s \in SUBSET S : g[s] = FoldAt(base, pick, step, s, g)}
LEMMA Folding ==
    ASSUME NEW S, IsFiniteSet(S), NEW A, NEW base \in A, NEW pick, Picks(pick, S),
           NEW step \in [A \X S -> A]
    PROVE  Foldings(S, A, base, pick, step) # {}
<1> DEFINE T(g, s) == FoldAt(base, pick, step, s, g)
           Good(g, n) == /\ g \in [SUBSET S -> A]
                         /\ \A s \in SUBSET S : Cardinality(s) <= n => g[s] = T(g, s)
           N == {n \in Nat : \E g : Good(g, n)}
<1>1. \A s \in SUBSET S : IsFiniteSet(s) /\ Cardinality(s) \in Nat /\ Cardinality(s) <= Cardinality(S)
  BY FS_Subset, FS_CardinalityType
<1>2. 0 \in N
  <2> PICK g : g = [s \in SUBSET S |-> base]
    OBVIOUS
  <2>1. ASSUME NEW s \in SUBSET S, Cardinality(s) <= 0 PROVE g[s] = T(g, s)
    <3>1. s = {}
      BY <1>1, <2>1, NoneOf
    <3> QED
      BY <3>1 DEF FoldAt
  <2> QED
    BY <2>1
<1>3. ASSUME NEW n \in Nat, NEW g, Good(g, n) PROVE \E h : Good(h, n + 1)
  <2> PICK h : h = [s \in SUBSET S |-> T(g, s)]
    OBVIOUS
  <2>1. h \in [SUBSET S -> A]
    <3>1. ASSUME NEW s \in SUBSET S PROVE T(g, s) \in A
      <4>1. CASE s = {}
        BY <4>1 DEF FoldAt
      <4>2. CASE s # {}
        <5>1. pick[s] \in S /\ g[s \ {pick[s]}] \in A
          BY <1>3, <4>2 DEF Picks
        <5> QED
          BY <4>2, <5>1 DEF FoldAt
      <4> QED
        BY <4>1, <4>2
    <3> QED
      BY <3>1
  <2>2. ASSUME NEW s \in SUBSET S, Cardinality(s) <= n + 1 PROVE h[s] = T(h, s)
    <3>1. h[s] = T(g, s)
      OBVIOUS
    <3>2. CASE s = {}
      BY <3>1, <3>2 DEF FoldAt
    <3>3. CASE s # {}
      <4> PICK x, t : x = pick[s] /\ t = s \ {x}
        OBVIOUS
      <4>1. x \in s /\ IsFiniteSet(s)
        BY <1>1, <3>3 DEF Picks
      <4>2. Cardinality(s \ {x}) <= n
        BY ONLY <2>2, <4>1, n \in Nat, OneLess
      <4>3. t \in SUBSET S /\ Cardinality(t) <= n
        BY <4>2
      <4>4. h[t] = g[t]
        BY <1>3, <4>3
      <4> QED
        BY <3>1, <3>3, <4>4 DEF FoldAt
    <3> QED
      BY <3>2, <3>3
  <2> QED
    BY <2>1, <2>2
<1> PICK k : k = Cardinality(S)
  OBVIOUS
<1>4. k \in Nat /\ \A s \in SUBSET S : Cardinality(s) <= k
  BY <1>1
<1>5. k \in N
  <2>1. ASSUME NEW n \in N PROVE n + 1 \in N
    <3>1. PICK g : Good(g, n)
      OBVIOUS
    <3>2. \E h : Good(h, n + 1)
      BY <1>3, <3>1
    <3> HIDE DEF Good
    <3> QED
      BY <3>2
  <2> HIDE DEF N
  <2>2. N \in SUBSET Nat
    BY DEF N
  <2> QED
    BY <1>2, <1>4, <2>1, <2>2, AllNumbers
<1>6. PICK g : Good(g, k)
  BY <1>5
<1>7. g \in [SUBSET S -> A] /\ \A s \in SUBSET S : g[s] = FoldAt(base, pick, step, s, g)
  BY <1>4, <1>6
<1> QED
  BY <1>7 DEF Foldings

-----------------------------------------------------------------------------
(* The registry: numbers, ranges and rows.                                   *)

-----------------------------------------------------------------------------
(* Numbers of the staff.                                                    *)

\* Each place of a finite set of numbers is taken by one of them.
LEMMA NthIs ==
    ASSUME NEW S \in SUBSET Int, IsFiniteSet(S), NEW k \in 1 .. Cardinality(S)
    PROVE  Nth(S, k) \in S /\ Cardinality({y \in S : y < Nth(S, k)}) = k - 1
<1> PICK n : n = Cardinality(S)
  OBVIOUS
<1> PICK below : below = [x \in S |-> {y \in S : y < x}]
  OBVIOUS
<1> PICK rank : rank = [x \in S |-> Cardinality(below[x])]
  OBVIOUS
<1>1. n \in Nat
  BY FS_CardinalityType
<1>2. ASSUME NEW x \in S
      PROVE  /\ below[x] \in SUBSET S /\ x \notin below[x] /\ IsFiniteSet(below[x])
             /\ rank[x] \in Nat /\ rank[x] <= n /\ rank[x] # n
  <2>1. below[x] \in SUBSET S /\ x \notin below[x] /\ rank[x] = Cardinality(below[x])
    OBVIOUS
  <2>2. /\ IsFiniteSet(below[x]) /\ Cardinality(below[x]) <= Cardinality(S)
        /\ (Cardinality(S) = Cardinality(below[x]) => S = below[x])
        /\ Cardinality(below[x]) \in Nat
    BY ONLY <2>1, IsFiniteSet(S), FS_Subset, FS_CardinalityType
  <2> QED
    BY <2>1, <2>2
<1>3. ASSUME NEW x \in S, NEW z \in S, x < z PROVE rank[x] # rank[z]
  <2>0. below[x] = {y \in S : y < x} /\ below[z] = {y \in S : y < z} /\ x \notin below[x]
    BY <1>2
  <2>1. below[x] \in SUBSET below[z] /\ x \in below[z] /\ x \notin below[x]
    <3>1. x \in Int /\ z \in Int /\ \A y \in S : y < x => y < z
      BY <1>3
    <3> QED
      BY ONLY <1>3, <2>0, <3>1
  <2>2. IsFiniteSet(below[z])
    BY <1>2
  <2>3. Cardinality(below[z]) = Cardinality(below[x]) => below[z] = below[x]
    BY ONLY <2>1, <2>2, FS_Subset
  <2>4. rank[x] = Cardinality(below[x]) /\ rank[z] = Cardinality(below[z])
    OBVIOUS
  <2> QED
    BY ONLY <2>1, <2>3, <2>4
<1>4. \A x, z \in S : rank[x] = rank[z] => x = z
  <2>1. \A x, z \in S : x = z \/ x < z \/ z < x
    OBVIOUS
  <2> QED
    BY <1>3, <2>1
<1> PICK m : m = n - 1
  OBVIOUS
<1>5. 1 <= n /\ m \in Int /\ 0 \in Int /\ IsFiniteSet(0 .. m) /\ Cardinality(0 .. m) = n
  <2>1. 1 <= n /\ m \in Int /\ 0 \in Int /\ ~ (0 > m) /\ m - 0 + 1 = n
    BY <1>1
  <2>2. IsFiniteSet(0 .. m) /\ Cardinality(0 .. m) = IF 0 > m THEN 0 ELSE m - 0 + 1
    BY ONLY <2>1, FS_Interval
  <2> QED
    BY <2>1, <2>2
<1>6. rank \in Injection(S, 0 .. m)
  <2>1. \A x \in S : rank[x] \in 0 .. m
    <3>1. ASSUME NEW x \in S PROVE rank[x] \in 0 .. m
      <4>1. rank[x] \in Nat /\ rank[x] <= n /\ rank[x] # n
        BY <1>2
      <4> QED
        BY <1>1, <4>1
    <3> QED
      BY <3>1
  <2> QED
    BY <1>4, <2>1 DEF Injection, IsInjective
<1>7. rank \in Surjection(S, 0 .. m)
  <2>1. Cardinality(S) = Cardinality(0 .. m)
    BY <1>5
  <2> QED
    BY ONLY <1>5, <1>6, <2>1, FS_Injection
<1>8. k - 1 \in 0 .. m
  BY <1>1
<1>9. \E x \in S : rank[x] = k - 1
  BY <1>7, <1>8 DEF Surjection
<1>10. \E x \in S : Cardinality({y \in S : y < x}) = k - 1
  BY <1>9
<1> QED
  BY <1>10 DEF Nth

\* Two places are taken by two of them.
LEMMA NthApart ==
    ASSUME NEW S \in SUBSET Int, IsFiniteSet(S), NEW k \in 1 .. Cardinality(S),
           NEW j \in 1 .. Cardinality(S), Nth(S, k) = Nth(S, j)
    PROVE  k = j
<1>1. Cardinality(S) \in Nat
  BY FS_CardinalityType
<1>2. k - 1 = j - 1
  BY NthIs
<1> QED
  BY <1>1, <1>2

\* Two tables one after the other.
LEMMA Joined ==
    ASSUME NEW T, NEW a \in Seq(T), NEW b \in Seq(T)
    PROVE  /\ a \o b \in Seq(T) /\ Len(a \o b) = Len(a) + Len(b)
           /\ Len(a) \in Nat /\ Len(b) \in Nat
           /\ DOMAIN a = 1 .. Len(a) /\ DOMAIN b = 1 .. Len(b)
           /\ DOMAIN (a \o b) = 1 .. (Len(a) + Len(b))
           /\ \A n \in DOMAIN a : (a \o b)[n] = a[n] /\ n \in DOMAIN (a \o b)
           /\ \A k \in DOMAIN b : (a \o b)[Len(a) + k] = b[k] /\ Len(a) + k \in DOMAIN (a \o b)
           /\ \A n \in DOMAIN (a \o b) :
                 n \in DOMAIN a \/ \E k \in DOMAIN b : n = Len(a) + k
<1>1. /\ a \o b \in Seq(T) /\ Len(a \o b) = Len(a) + Len(b)
      /\ Len(a) \in Nat /\ Len(b) \in Nat
      /\ DOMAIN a = 1 .. Len(a) /\ DOMAIN b = 1 .. Len(b)
      /\ DOMAIN (a \o b) = 1 .. (Len(a) + Len(b))
  OBVIOUS
<1>2. \A n \in DOMAIN a : (a \o b)[n] = a[n] /\ n \in DOMAIN (a \o b)
  OBVIOUS
<1>3. \A k \in DOMAIN b : (a \o b)[Len(a) + k] = b[k] /\ Len(a) + k \in DOMAIN (a \o b)
  OBVIOUS
<1>4. ASSUME NEW n \in DOMAIN (a \o b), n \notin DOMAIN a
      PROVE  \E k \in DOMAIN b : n = Len(a) + k
  <2>1. n - Len(a) \in 1 .. Len(b) /\ n = Len(a) + (n - Len(a))
    BY <1>1, <1>4
  <2> QED
    BY <1>1, <2>1
<1> QED
  BY <1>1, <1>2, <1>3, <1>4

\* A row of the staff, and a teacher.
StaffRec == [dept : Depts, code : Nat \ {NoCode}, legacy : BOOLEAN, teacher : Int, live : BOOLEAN]
TeacherRec == [name : Person, live : BOOLEAN]
Order == [teacher : Person \cup {Nobody}, names : SUBSET Spelling, rows : Seq(StaffRec), open : BOOLEAN]

\* Whom the rows that a session is about to write may name.
Named(order, teachers) ==
    \A k \in DOMAIN order.rows :
        /\ order.rows[k].live
        /\ order.rows[k].teacher \in {NoTeacher, Self} \cup DOMAIN teachers
        /\ order.rows[k].teacher = Self => order.teacher # Nobody

\* The tables of the registry, and what the sessions carry.
RegistryTyped ==
    /\ faculty \in Seq(TeacherRec) /\ staffRows \in Seq(StaffRec)
    /\ \A n \in DOMAIN staffRows : staffRows[n].teacher \in {NoTeacher} \cup DOMAIN faculty
    /\ desk \in [Desk -> Order]
    /\ \A c \in Desk : Named(desk[c], faculty)

InRange(row) == row.legacy <=> row.code \notin NumbersOf(row.dept)

\* Rows that one request is about to write, no number of them given by hand.
Wellmade(rows) ==
    \A k \in DOMAIN rows :
        /\ InRange(rows[k])
        /\ rows[k].teacher # NoTeacher => rows[k].dept = Teaching
        /\ \A j \in DOMAIN rows : k # j /\ rows[k].teacher # NoTeacher
              => rows[k].teacher # rows[j].teacher
OfTeaching(rows) == {k \in DOMAIN rows : rows[k].dept = Teaching}

\* A request with rows of the teachers' department will be refused, or nobody took
\* a number of the department or mirrored a teacher since it read the table.
Beaten(rows, table) == \E k \in OfTeaching(rows) : rows[k].code \in InUse(table)
UpToDate(rows, table) ==
    /\ \E k \in OfTeaching(rows) : rows[k].code = NextCode(table, Teaching)
    /\ \A k \in DOMAIN rows : \A n \in Kept(table) :
          rows[k].teacher # NoTeacher => rows[k].teacher # table[n].teacher
BeatenOrNot(rows, table) ==
    OfTeaching(rows) # {} => (Beaten(rows, table) \/ UpToDate(rows, table))

\* No number twice; and unless somebody gave, changed or freed one by hand, rows are
\* marked as they should be and a teacher has one.
CodesApart(table) == \A n, m \in Kept(table) : n # m => table[n].code # table[m].code
TableCalm(table) ==
    \A n \in Kept(table) :
        /\ InRange(table[n])
        /\ table[n].teacher # NoTeacher => table[n].dept = Teaching
        /\ \A m \in Kept(table) : n # m /\ table[n].teacher # NoTeacher
              => table[n].teacher # table[m].teacher
RegistryCalm ==
    /\ TableCalm(staffRows)
    /\ \A c \in Desk : desk[c].open => Wellmade(desk[c].rows) /\ BeatenOrNot(desk[c].rows, staffRows)

RegistryInv == RegistryTyped /\ CodesApart(staffRows) /\ (byHand \/ RegistryCalm)

\* The range of a department.
LEMMA RangesAre ==
    ASSUME NEW d \in Depts
    PROVE  /\ Ranges[d][1] \in Nat \ {NoCode} /\ Ranges[d][2] \in Nat \ {NoCode}
           /\ NumbersOf(d) \in SUBSET (Nat \ {NoCode}) /\ IsFiniteSet(NumbersOf(d))
           /\ Teaching \in Depts
<1>1. Ranges[d] \in (Nat \ {NoCode}) \X (Nat \ {NoCode}) /\ Teaching \in Depts
  BY FacultyAssumption DEF Depts
<1>2. Ranges[d][1] \in Nat \ {NoCode} /\ Ranges[d][2] \in Nat \ {NoCode}
  BY <1>1
<1>3. NumbersOf(d) \in SUBSET (Nat \ {NoCode})
  BY <1>2 DEF NumbersOf, NoCode
<1>4. Ranges[d][1] \in Int /\ Ranges[d][2] \in Int
  BY <1>2
<1>5. IsFiniteSet(Ranges[d][1] .. Ranges[d][2])
  BY ONLY <1>4, FS_Interval
<1> QED
  BY <1>1, <1>2, <1>3, <1>5 DEF NumbersOf

\* What decides on the next number of a department.
CodesIn(rows, d) == {rows[n].code : n \in {m \in Kept(rows) : rows[m].dept = d}}

LEMMA NextSame ==
    ASSUME NEW a, NEW b, NEW d, CodesIn(a, d) = CodesIn(b, d)
    PROVE  NextCode(a, d) = NextCode(b, d)
<1>1. {a[n].code : n \in {m \in Kept(a) : a[m].dept = d}} = {b[n].code : n \in {m \in Kept(b) : b[m].dept = d}}
  BY DEF CodesIn
<1> QED
  BY <1>1 DEF NextCode

\* The next number is in the range of the department.
LEMMA NextCodeIs ==
    ASSUME NEW rows, NEW d \in Depts
    PROVE  /\ NextCode(rows, d) \in Nat
           /\ NextCode(rows, d) # NoCode => NextCode(rows, d) \in NumbersOf(d)
<1> PICK used : used = {rows[n].code : n \in {m \in Kept(rows) : rows[m].dept = d}} \cap NumbersOf(d)
  OBVIOUS
<1> PICK next : next = IF used = {} THEN Ranges[d][1] ELSE Max(used) + 1
  OBVIOUS
<1> PICK lo, hi : lo = Ranges[d][1] /\ hi = Ranges[d][2]
  OBVIOUS
<1>1. NextCode(rows, d) = IF next > hi THEN NoCode ELSE next
  BY DEF NextCode
<1>2. lo \in Nat \ {NoCode} /\ hi \in Nat \ {NoCode} /\ NumbersOf(d) = lo .. hi
  BY RangesAre DEF NumbersOf
<1>3. next \in Nat /\ next >= lo
  <2>1. CASE used = {}
    BY <1>2, <2>1
  <2>2. CASE used # {}
    <3>1. used \in SUBSET NumbersOf(d) /\ IsFiniteSet(NumbersOf(d)) /\ used \in SUBSET Nat
      BY RangesAre
    <3>2. IsFiniteSet(used)
      BY ONLY <3>1, FS_Subset
    <3>3. Max(used) \in used
      BY ONLY <2>2, <3>1, <3>2, GreatestIs
    <3>4. Max(used) \in lo .. hi
      BY <1>2, <3>1, <3>3
    <3> QED
      BY <1>2, <2>2, <3>4
  <2> QED
    BY <2>1, <2>2
<1> QED
  BY <1>1, <1>2, <1>3 DEF NoCode

\* A row of the staff as a request makes it.
LEMMA StaffRowIs ==
    ASSUME NEW d \in Depts, NEW code \in Nat \ {NoCode}, NEW t \in Int,
           NEW row, row = StaffRow(d, code, t)
    PROVE  /\ row \in StaffRec /\ InRange(row)
           /\ row.dept = d /\ row.code = code /\ row.teacher = t /\ row.live
<1>1. PICK b \in BOOLEAN : b = (code \notin NumbersOf(d))
  OBVIOUS
<1>2. row = [dept |-> d, code |-> code, legacy |-> b, teacher |-> t, live |-> TRUE]
  BY <1>1, Zenon DEF StaffRow
<1>3. row \in StaffRec
  BY <1>2 DEF StaffRec
<1>4. row.dept = d /\ row.code = code /\ row.legacy = b /\ row.teacher = t /\ row.live
  BY <1>2
<1>5. InRange(row)
  BY <1>1, <1>4, Zenon DEF InRange
<1> QED
  BY <1>3, <1>4, <1>5

\* The rows of the teachers that have none: as many as there are numbers left.
LEMMA MirrorsAre ==
    ASSUME RegistryTyped, NEW fresh \in {{}, {Self}}, NEW rows, rows = Mirrors(fresh)
    PROVE  /\ rows \in Seq(StaffRec) /\ Wellmade(rows) /\ BeatenOrNot(rows, staffRows)
           /\ \A k \in DOMAIN rows : rows[k].live /\ rows[k].teacher \in fresh \cup DOMAIN faculty
<1> PICK linked : linked = {staffRows[n].teacher : n \in Kept(staffRows)}
  OBVIOUS
<1> PICK due : due = (Kept(faculty) \cup fresh) \ linked
  OBVIOUS
<1> PICK next : next = NextCode(staffRows, Teaching)
  OBVIOUS
<1> PICK room : room = IF next = NoCode THEN 0
                       ELSE Min({Cardinality(due), Ranges[Teaching][2] - next + 1})
  OBVIOUS
<1>0. Teaching \in Depts
  BY FacultyAssumption
<1>1. rows = [k \in 1 .. room |-> StaffRow(Teaching, next + k - 1, Nth(due, k))]
  BY DEF Mirrors
<1>2. due \in SUBSET Int /\ IsFiniteSet(due) /\ due \in SUBSET (fresh \cup DOMAIN faculty)
      /\ Cardinality(due) \in Nat
  <2>1. DOMAIN faculty = 1 .. Len(faculty) /\ Len(faculty) \in Nat
    BY DEF RegistryTyped
  <2>2. Len(faculty) \in Int /\ 1 \in Int
    BY <2>1
  <2>3. IsFiniteSet(1 .. Len(faculty))
    BY ONLY <2>2, FS_Interval
  <2>4. IsFiniteSet(fresh)
    <3>1. IsFiniteSet({}) /\ IsFiniteSet({Self})
      BY FS_EmptySet, FS_Singleton
    <3> QED
      BY <3>1
  <2>5. IsFiniteSet(fresh \cup DOMAIN faculty)
    BY <2>1, <2>3, <2>4, FS_Union
  <2>6. due \in SUBSET (fresh \cup DOMAIN faculty)
    BY DEF Kept
  <2>7. fresh \cup DOMAIN faculty \in SUBSET Int
    BY <2>1 DEF Self
  <2>8. IsFiniteSet(due) /\ Cardinality(due) \in Nat
    BY ONLY <2>5, <2>6, FS_Subset, FS_CardinalityType
  <2> QED
    BY <2>6, <2>7, <2>8
<1>3. next \in Nat /\ (next # NoCode => next \in NumbersOf(Teaching))
  BY <1>0, NextCodeIs
<1>4. /\ room \in Nat /\ room <= Cardinality(due)
      /\ \A k \in 1 .. room : next # NoCode /\ next + k - 1 \in Nat \ {NoCode}
  <2>1. CASE next = NoCode
    BY <1>2, <2>1
  <2>2. CASE next # NoCode
    <3> PICK left : left = Ranges[Teaching][2] - next + 1
      OBVIOUS
    <3>1. left \in Nat /\ next \in Nat \ {NoCode}
      <4>1. Ranges[Teaching][2] \in Nat /\ Ranges[Teaching][1] \in Nat
        BY <1>0, RangesAre
      <4> QED
        BY <1>3, <2>2, <4>1 DEF NumbersOf
    <3> PICK both : both = {Cardinality(due), left}
      OBVIOUS
    <3>2. both \in SUBSET Nat /\ both # {}
      BY <1>2, <3>1
    <3>3. Min(both) \in both /\ \A y \in both : Min(both) <= y
      BY ONLY <3>2, LeastIs
    <3>4. room = Min(both)
      BY <2>2
    <3>5. room \in Nat /\ room <= Cardinality(due)
      BY <3>2, <3>3, <3>4
    <3> QED
      BY <2>2, <3>1, <3>5 DEF NoCode
  <2> QED
    BY <2>1, <2>2
<1>5. ASSUME NEW k \in 1 .. room
      PROVE  /\ Nth(due, k) \in due /\ Nth(due, k) \in Int
             /\ rows[k] = StaffRow(Teaching, next + k - 1, Nth(due, k))
             /\ rows[k] \in StaffRec /\ InRange(rows[k]) /\ rows[k].dept = Teaching
             /\ rows[k].code = next + k - 1 /\ rows[k].teacher = Nth(due, k) /\ rows[k].live
  <2>1. k \in 1 .. Cardinality(due)
    BY <1>2, <1>4
  <2>2. Nth(due, k) \in due
    BY ONLY <1>2, <2>1, NthIs
  <2>3. Nth(due, k) \in Int
    BY <1>2, <2>2
  <2>4. rows[k] = StaffRow(Teaching, next + k - 1, Nth(due, k))
    BY <1>1
  <2>5. next + k - 1 \in Nat \ {NoCode}
    BY <1>4
  <2> PICK number, who : number = next + k - 1 /\ who = Nth(due, k)
    OBVIOUS
  <2>6. number \in Nat \ {NoCode} /\ who \in Int
    BY ONLY <2>3, <2>5, number = next + k - 1, who = Nth(due, k)
  <2>7. rows[k] = StaffRow(Teaching, number, who)
    BY ONLY <2>4, number = next + k - 1, who = Nth(due, k)
  <2>8. /\ rows[k] \in StaffRec /\ InRange(rows[k])
        /\ rows[k].dept = Teaching /\ rows[k].code = number
        /\ rows[k].teacher = who /\ rows[k].live
    BY ONLY <1>0, <2>6, <2>7, StaffRowIs
  <2> QED
    BY ONLY <2>2, <2>3, <2>4, <2>8, number = next + k - 1, who = Nth(due, k)
<1>6. DOMAIN rows = 1 .. room /\ rows \in Seq(StaffRec)
  <2>1. DOMAIN rows = 1 .. room /\ rows = [k \in 1 .. room |-> rows[k]]
    BY ONLY <1>1
  <2>2. \A k \in 1 .. room : rows[k] \in StaffRec
    BY <1>5
  <2>3. rows \in [1 .. room -> StaffRec]
    BY ONLY <2>1, <2>2
  <2>4. room \in Nat
    BY <1>4
  <2> QED
    BY ONLY <2>1, <2>3, <2>4
<1>7. Wellmade(rows)
  <2>1. ASSUME NEW k \in 1 .. room, NEW j \in 1 .. room, rows[k].teacher = rows[j].teacher
        PROVE  k = j
    <3>1. k \in 1 .. Cardinality(due) /\ j \in 1 .. Cardinality(due)
      BY <1>2, <1>4
    <3>2. Nth(due, k) = Nth(due, j)
      <4>1. rows[k].teacher = Nth(due, k) /\ rows[j].teacher = Nth(due, j)
        BY <1>5
      <4> QED
        BY <2>1, <4>1
    <3> QED
      BY ONLY <1>2, <3>1, <3>2, NthApart
  <2> QED
    BY <1>5, <1>6, <2>1 DEF Wellmade
<1>8. ASSUME OfTeaching(rows) # {} PROVE UpToDate(rows, staffRows)
  <2>1. 1 \in 1 .. room
    <3>1. room \in Nat /\ 1 .. room # {}
      BY <1>4, <1>6, <1>8 DEF OfTeaching
    <3> QED
      BY ONLY <3>1
  <2>2. rows[1].code = next + 1 - 1 /\ rows[1].dept = Teaching
    BY <1>5, <2>1
  <2>3. rows[1].code = NextCode(staffRows, Teaching) /\ 1 \in OfTeaching(rows)
    <3>1. next + 1 - 1 = next
      BY <1>3
    <3> QED
      BY <1>6, <2>1, <2>2, <3>1 DEF OfTeaching
  <2>4. \A k \in DOMAIN rows : \A n \in Kept(staffRows) : rows[k].teacher # staffRows[n].teacher
    <3>1. ASSUME NEW k \in DOMAIN rows, NEW n \in Kept(staffRows) PROVE rows[k].teacher # staffRows[n].teacher
      <4>1. rows[k].teacher = Nth(due, k) /\ Nth(due, k) \in due
        BY <1>5, <1>6
      <4>2. staffRows[n].teacher \in linked /\ due = (Kept(faculty) \cup fresh) \ linked
        OBVIOUS
      <4> QED
        BY ONLY <4>1, <4>2
    <3> QED
      BY <3>1
  <2> QED
    BY <2>3, <2>4 DEF UpToDate
<1>9. \A k \in DOMAIN rows : rows[k].live /\ rows[k].teacher \in fresh \cup DOMAIN faculty
  BY <1>2, <1>5, <1>6
<1> QED
  BY <1>6, <1>7, <1>8, <1>9 DEF BeatenOrNot

\* The rows of two tables, one after the other.
LEMMA KeptJoined ==
    ASSUME NEW a \in Seq(StaffRec), NEW b \in Seq(StaffRec)
    PROVE  /\ \A n \in Kept(a) : n \in Kept(a \o b) /\ (a \o b)[n] = a[n]
           /\ \A k \in Kept(b) : Len(a) + k \in Kept(a \o b) /\ (a \o b)[Len(a) + k] = b[k]
           /\ \A n \in Kept(a \o b) : n \in Kept(a) \/ \E k \in Kept(b) : n = Len(a) + k
<1>1. /\ \A n \in DOMAIN a : (a \o b)[n] = a[n] /\ n \in DOMAIN (a \o b)
      /\ \A k \in DOMAIN b : (a \o b)[Len(a) + k] = b[k] /\ Len(a) + k \in DOMAIN (a \o b)
      /\ \A n \in DOMAIN (a \o b) : n \in DOMAIN a \/ \E k \in DOMAIN b : n = Len(a) + k
  BY Joined
<1>2. ASSUME NEW n \in Kept(a) PROVE n \in Kept(a \o b) /\ (a \o b)[n] = a[n]
  BY <1>1 DEF Kept
<1>3. ASSUME NEW k \in Kept(b) PROVE Len(a) + k \in Kept(a \o b) /\ (a \o b)[Len(a) + k] = b[k]
  BY <1>1 DEF Kept
<1>4. ASSUME NEW n \in Kept(a \o b) PROVE n \in Kept(a) \/ \E k \in Kept(b) : n = Len(a) + k
  <2>1. n \in DOMAIN (a \o b) /\ (a \o b)[n].live
    BY DEF Kept
  <2>2. CASE n \in DOMAIN a
    BY <1>1, <2>1, <2>2 DEF Kept
  <2>3. CASE \E k \in DOMAIN b : n = Len(a) + k
    BY <1>1, <2>1, <2>3 DEF Kept
  <2> QED
    BY <1>1, <2>1, <2>2, <2>3
<1> QED
  BY <1>2, <1>3, <1>4

\* Numbers in use in two tables, one after the other.
LEMMA CodesJoined ==
    ASSUME NEW a \in Seq(StaffRec), NEW b \in Seq(StaffRec), NEW d
    PROVE  CodesIn(a \o b, d) = CodesIn(a, d) \cup CodesIn(b, d)
<1>1. /\ \A n \in Kept(a) : n \in Kept(a \o b) /\ (a \o b)[n] = a[n]
      /\ \A k \in Kept(b) : Len(a) + k \in Kept(a \o b) /\ (a \o b)[Len(a) + k] = b[k]
      /\ \A n \in Kept(a \o b) : n \in Kept(a) \/ \E k \in Kept(b) : n = Len(a) + k
  BY KeptJoined
<1>2. ASSUME NEW x \in CodesIn(a \o b, d) PROVE x \in CodesIn(a, d) \cup CodesIn(b, d)
  <2>1. PICK n \in Kept(a \o b) : (a \o b)[n].dept = d /\ x = (a \o b)[n].code
    BY DEF CodesIn
  <2>2. CASE n \in Kept(a)
    BY <1>1, <2>1, <2>2 DEF CodesIn
  <2>3. CASE \E k \in Kept(b) : n = Len(a) + k
    <3>1. PICK k \in Kept(b) : n = Len(a) + k
      BY <2>3
    <3>2. (a \o b)[n] = b[k]
      BY <1>1, <3>1
    <3> QED
      BY <2>1, <3>1, <3>2 DEF CodesIn
  <2> QED
    BY <1>1, <2>2, <2>3
<1>3. ASSUME NEW x \in CodesIn(a, d) PROVE x \in CodesIn(a \o b, d)
  <2>1. PICK n \in Kept(a) : a[n].dept = d /\ x = a[n].code
    BY DEF CodesIn
  <2>2. n \in Kept(a \o b) /\ (a \o b)[n] = a[n]
    BY <1>1
  <2> QED
    BY <2>1, <2>2 DEF CodesIn
<1>4. ASSUME NEW x \in CodesIn(b, d) PROVE x \in CodesIn(a \o b, d)
  <2>1. PICK k \in Kept(b) : b[k].dept = d /\ x = b[k].code
    BY DEF CodesIn
  <2> PICK n : n = Len(a) + k
    OBVIOUS
  <2>2. n \in Kept(a \o b) /\ (a \o b)[n] = b[k]
    BY <1>1
  <2> QED
    BY <2>1, <2>2 DEF CodesIn
<1> QED
  BY <1>2, <1>3, <1>4

\* What an upload has made so far.
GoodImport(acc, given) ==
    /\ acc.rows \in Seq(StaffRec)
    /\ \A k \in DOMAIN acc.rows :
          acc.rows[k].live /\ acc.rows[k].teacher = NoTeacher /\ InRange(acc.rows[k])
    /\ OfTeaching(acc.rows) # {} => given \/
          \E k \in OfTeaching(acc.rows) : acc.rows[k].code = NextCode(staffRows, Teaching)

LEMMA RowImported ==
    ASSUME staffRows \in Seq(StaffRec), NEW given \in BOOLEAN, NEW acc, GoodImport(acc, given),
           NEW row \in [dept : Nat, code : Numbers \cup {NoCode}], given \/ row.code = NoCode,
           NEW new, new = ImportRow(acc, row)
    PROVE  GoodImport(new, given)
<1> PICK rows : rows = staffRows \o acc.rows
  OBVIOUS
<1> PICK code : code = Numbered(rows, row.dept, row.code)
  OBVIOUS
<1>1. CASE new = acc
  BY <1>1
<1>2. CASE /\ row.dept \in Depts /\ code # NoCode
           /\ new = [rows |-> Append(acc.rows, StaffRow(row.dept, code, NoTeacher)),
                     spoilt |-> acc.spoilt \/ code \in InUse(rows)]
  <2> PICK d, old, x : d = row.dept /\ old = acc.rows /\ x = StaffRow(row.dept, code, NoTeacher)
    OBVIOUS
  <2>1. code \in Nat \ {NoCode} /\ d \in Depts /\ NoTeacher \in Int
    <3>1. NextCode(rows, d) \in Nat /\ d \in Depts
      BY <1>2, NextCodeIs
    <3>2. row.code \in Nat
      <4>1. row.code \in Numbers \cup {NoCode}
        BY row \in [dept : Nat, code : Numbers \cup {NoCode}]
      <4>2. \A e \in Depts : NumbersOf(e) \in SUBSET (Nat \ {NoCode})
        BY RangesAre
      <4>3. Numbers \in SUBSET Nat
        BY <4>2 DEF Numbers
      <4>4. NoCode \in Nat
        BY DEF NoCode
      <4> QED
        BY ONLY <4>1, <4>3, <4>4
    <3>3. code = row.code \/ code = NextCode(rows, d)
      BY DEF Numbered
    <3>4. NoTeacher \in Int
      BY DEF NoTeacher
    <3>5. code \in Nat
      BY <3>1, <3>2, <3>3
    <3> QED
      BY <1>2, <3>1, <3>4, <3>5
  <2>2. x = StaffRow(d, code, NoTeacher)
    OBVIOUS
  <2>3. x \in StaffRec /\ InRange(x) /\ x.dept = d /\ x.code = code /\ x.teacher = NoTeacher /\ x.live
    BY ONLY <2>1, <2>2, StaffRowIs
  <2>4. new.rows = Append(old, x) /\ old \in Seq(StaffRec)
    BY <1>2 DEF GoodImport
  <2>5. /\ new.rows \in Seq(StaffRec) /\ DOMAIN new.rows = 1 .. (Len(old) + 1)
        /\ new.rows[Len(old) + 1] = x /\ DOMAIN old = 1 .. Len(old) /\ Len(old) \in Nat
        /\ \A k \in DOMAIN old : new.rows[k] = old[k] /\ k \in DOMAIN new.rows
    BY <2>3, <2>4
  <2>6. \A k \in DOMAIN new.rows : k = Len(old) + 1 \/ k \in DOMAIN old
    BY <2>5
  <2>7. ASSUME NEW k \in DOMAIN new.rows
        PROVE  new.rows[k].live /\ new.rows[k].teacher = NoTeacher /\ InRange(new.rows[k])
    <3>1. CASE k = Len(old) + 1
      BY <2>3, <2>5, <3>1
    <3>2. CASE k \in DOMAIN old
      <4>1. old[k].live /\ old[k].teacher = NoTeacher /\ InRange(old[k])
        BY <3>2 DEF GoodImport
      <4>2. new.rows[k] = old[k]
        BY <2>5, <3>2
      <4> QED
        BY <4>1, <4>2
    <3> QED
      BY <2>6, <3>1, <3>2
  <2>8. ASSUME OfTeaching(new.rows) # {}, ~ given
        PROVE  \E k \in OfTeaching(new.rows) : new.rows[k].code = NextCode(staffRows, Teaching)
    <3>1. CASE OfTeaching(old) # {}
      <4>1. PICK k \in OfTeaching(old) : old[k].code = NextCode(staffRows, Teaching)
        BY <2>8, <3>1 DEF GoodImport
      <4> QED
        BY <2>5, <4>1 DEF OfTeaching
    <3>2. CASE OfTeaching(old) = {}
      <4>1. d = Teaching
        <5>1. PICK k \in DOMAIN new.rows : new.rows[k].dept = Teaching
          BY <2>8 DEF OfTeaching
        <5>2. k \notin DOMAIN old
          BY <2>5, <3>2, <5>1 DEF OfTeaching
        <5> QED
          BY <2>3, <2>5, <2>6, <5>1, <5>2
      <4>2. CodesIn(old, Teaching) = {}
        BY <3>2 DEF CodesIn, OfTeaching, Kept
      <4>3. rows = staffRows \o old
        OBVIOUS
      <4>4. CodesIn(rows, Teaching) = CodesIn(staffRows, Teaching) \cup CodesIn(old, Teaching)
        BY <2>4, <4>3, CodesJoined
      <4>5. CodesIn(rows, Teaching) = CodesIn(staffRows, Teaching)
        BY <4>2, <4>4
      <4>6. NextCode(rows, Teaching) = NextCode(staffRows, Teaching)
        BY <4>5, NextSame
      <4>7. code = NextCode(staffRows, Teaching)
        BY <2>8, <4>1, <4>6 DEF Numbered
      <4> QED
        BY <2>3, <2>5, <4>1, <4>7 DEF OfTeaching
    <3> QED
      BY <3>1, <3>2
  <2> QED
    BY <2>5, <2>7, <2>8 DEF GoodImport
<1> QED
  BY <1>1, <1>2 DEF ImportRow

-----------------------------------------------------------------------------
(* The registry: uploads.                                                    *)

\* An upload row by row: what the rows in the set s have made, from what those
\* before the last of them made.
Imported(file, s, g) ==
    IF s = {} THEN NothingImported ELSE ImportRow(g[s \ {Max(s)}], file[Max(s)])
Importing(file) == CHOOSE g : g = [s \in SUBSET DOMAIN file |-> Imported(file, s, g)]

\* The places of a sequence, of which the last is taken first.
LEMMA PlacesOf ==
    ASSUME NEW T, NEW file \in Seq(T), NEW S, S = DOMAIN file
    PROVE  IsFiniteSet(S) /\ \A s \in SUBSET S : s # {} => Max(s) \in s /\ \A y \in s : Max(s) >= y
<1>1. S = 1 .. Len(file) /\ Len(file) \in Nat /\ Len(file) \in Int /\ 1 \in Int
  OBVIOUS
<1>2. IsFiniteSet(1 .. Len(file))
  BY ONLY <1>1, FS_Interval
<1>3. ASSUME NEW s \in SUBSET S, s # {} PROVE Max(s) \in s /\ \A y \in s : Max(s) >= y
  <2>1. IsFiniteSet(S) /\ s \in SUBSET S
    BY <1>1, <1>2
  <2>2. IsFiniteSet(s)
    BY ONLY <2>1, FS_Subset
  <2>3. s \in SUBSET Nat
    BY <1>1
  <2> QED
    BY ONLY <1>3, <2>2, <2>3, GreatestIs
<1> QED
  BY <1>1, <1>2, <1>3

\* An upload makes rows of nobody, marked as they should be; where it gives no
\* number itself, one of the teachers' department has the next.
LEMMA ImportedGood ==
    ASSUME staffRows \in Seq(StaffRec),
           NEW file \in Seq([dept : Nat, code : Numbers \cup {NoCode}]),
           NEW given \in BOOLEAN, \A k \in DOMAIN file : given \/ file[k].code = NoCode
    PROVE  GoodImport(ImportedRows(file), given)
<1> PICK S, g : S = DOMAIN file /\ g = Importing(file)
  OBVIOUS
<1> PICK A : A = {acc \in [rows : Seq(StaffRec), spoilt : BOOLEAN] : GoodImport(acc, given)}
  OBVIOUS
<1> PICK pick : pick = [s \in SUBSET S |-> Max(s)]
  OBVIOUS
<1> PICK T : T = [dept : Nat, code : Numbers \cup {NoCode}]
  OBVIOUS
<1>0. file \in Seq(T)
  OBVIOUS
<1>1. IsFiniteSet(S) /\ \A s \in SUBSET S : s # {} => pick[s] \in s
  BY <1>0, PlacesOf
<1>2. NothingImported \in A
  <2>1. /\ NothingImported \in [rows : Seq(StaffRec), spoilt : BOOLEAN]
        /\ NothingImported.rows = << >> /\ DOMAIN NothingImported.rows = {} /\ << >> \in Seq(StaffRec)
    BY DEF NothingImported
  <2>2. GoodImport(NothingImported, given)
    BY <2>1 DEF GoodImport, OfTeaching
  <2> QED
    BY <2>1, <2>2
<1>3. ASSUME NEW acc \in A, NEW x \in S PROVE ImportRow(acc, file[x]) \in A
  <2> PICK new, row : new = ImportRow(acc, file[x]) /\ row = file[x]
    OBVIOUS
  <2>1. row \in T
    <3>1. x \in DOMAIN file
      OBVIOUS
    <3>2. file[x] \in T
      BY ONLY <1>0, <3>1
    <3> QED
      BY <3>2
  <2>2. given \/ row.code = NoCode
    BY Zenon
  <2>3. new = ImportRow(acc, row) /\ GoodImport(acc, given) /\ row \in [dept : Nat, code : Numbers \cup {NoCode}]
    BY <2>1
  <2>4. GoodImport(new, given)
    BY ONLY staffRows \in Seq(StaffRec), given \in BOOLEAN, <2>2, <2>3, RowImported
  <2>5. new \in [rows : Seq(StaffRec), spoilt : BOOLEAN]
    <3>1. acc.spoilt \in BOOLEAN
      OBVIOUS
    <3>2. new.rows \in Seq(StaffRec)
      BY <2>4 DEF GoodImport
    <3> PICK rows, code, more : /\ rows = staffRows \o acc.rows /\ code = Numbered(rows, row.dept, row.code)
                                /\ more = Append(acc.rows, StaffRow(row.dept, code, NoTeacher))
      OBVIOUS
    <3>3. PICK spoilt \in BOOLEAN : spoilt = (acc.spoilt \/ code \in InUse(rows))
      BY Zenon
    <3>4. CASE new = acc
      BY <3>4
    <3>5. CASE new = [rows |-> more, spoilt |-> acc.spoilt \/ code \in InUse(rows)]
      <4>1. new = [rows |-> more, spoilt |-> spoilt]
        BY <3>3, <3>5, Zenon
      <4> QED
        BY <3>2, <4>1
    <3> QED
      BY <2>3, <3>4, <3>5 DEF ImportRow
  <2> QED
    BY <2>4, <2>5
<1> PICK step : step = [p \in A \X S |-> ImportRow(p[1], file[p[2]])]
  OBVIOUS
<1>4. step \in [A \X S -> A] /\ \A acc \in A, x \in S : step[<<acc, x>>] = ImportRow(acc, file[x])
  <2>1. \A p \in A \X S : p[1] \in A /\ p[2] \in S
    OBVIOUS
  <2>2. \A p \in A \X S : ImportRow(p[1], file[p[2]]) \in A
    BY <1>3, <2>1
  <2>3. step = [p \in A \X S |-> ImportRow(p[1], file[p[2]])]
    OBVIOUS
  <2>4. step \in [A \X S -> A]
    BY ONLY <2>2, <2>3
  <2>5. ASSUME NEW acc \in A, NEW x \in S PROVE step[<<acc, x>>] = ImportRow(acc, file[x])
    <3>1. <<acc, x>> \in A \X S /\ <<acc, x>>[1] = acc /\ <<acc, x>>[2] = x
      OBVIOUS
    <3> QED
      BY ONLY <2>3, <3>1
  <2> QED
    BY <2>4, <2>5
<1>5. PICK h \in [SUBSET S -> A] : \A s \in SUBSET S : h[s] = FoldAt(NothingImported, pick, step, s, h)
  <2>1. IsFiniteSet(S) /\ Picks(pick, S) /\ NothingImported \in A /\ step \in [A \X S -> A]
    BY <1>1, <1>2, <1>4 DEF Picks
  <2>2. Foldings(S, A, NothingImported, pick, step) # {}
    BY ONLY <2>1, Folding
  <2> QED
    BY <2>2 DEF Foldings
<1>6. h = [s \in SUBSET S |-> Imported(file, s, h)]
  <2>1. ASSUME NEW s \in SUBSET S PROVE h[s] = Imported(file, s, h)
    <3>1. CASE s = {}
      BY <1>5, <3>1 DEF FoldAt, Imported
    <3>2. CASE s # {}
      <4>1. pick[s] \in S /\ h[s \ {pick[s]}] \in A /\ pick[s] = Max(s)
        BY <1>1, <3>2
      <4> QED
        BY <1>4, <1>5, <3>2, <4>1 DEF FoldAt, Imported
    <3> QED
      BY <3>1, <3>2
  <2> QED
    BY <2>1
<1>7. g = [s \in SUBSET S |-> Imported(file, s, g)]
  BY <1>6 DEF Importing
<1> PICK G : G = {s \in SUBSET S : g[s] \in A}
  OBVIOUS
<1>8. {} \in G
  BY <1>2, <1>7 DEF Imported
<1>9. ASSUME NEW s \in SUBSET S, s # {}, (s \ {pick[s]}) \in G PROVE s \in G
  <2>1. pick[s] \in S /\ pick[s] = Max(s)
    BY <1>1, <1>9
  <2>2. g[s] = ImportRow(g[s \ {pick[s]}], file[pick[s]])
    BY <1>7, <1>9, <2>1 DEF Imported
  <2> PICK x, acc : x = pick[s] /\ acc = g[s \ {x}]
    OBVIOUS
  <2>3. acc \in A /\ x \in S /\ g[s] = ImportRow(acc, file[x])
    BY <1>9, <2>1, <2>2
  <2>4. g[s] \in A
    BY <1>3, <2>3
  <2> QED
    BY <2>4
<1>10. S \in G
  <2>1. Picks(pick, S)
    BY <1>1 DEF Picks
  <2>2. Climbs(pick, S, G)
    BY <1>9 DEF Climbs
  <2>3. IsFiniteSet(S)
    BY <1>1
  <2> QED
    BY ONLY <1>8, <2>1, <2>2, <2>3, BySubsets
<1>11. ImportedRows(file) = g[S]
  BY DEF ImportedRows, FoldLeft, MapThenFoldSet, Importing, Imported
<1> QED
  BY <1>10, <1>11

-----------------------------------------------------------------------------
(* The registry: its requests.                                               *)

\* Initially there are no teachers, no rows, and no requests.
LEMMA RegistryInit == ASSUME FacultyInit PROVE RegistryInv
<1>1. faculty = << >> /\ staffRows = << >> /\ desk = [c \in Desk |-> NoRequest]
  BY DEF FacultyInit
<1>2. NoRequest \in Order /\ NoRequest.rows = << >> /\ ~ NoRequest.open
  <2>1. << >> \in Seq(StaffRec)
    OBVIOUS
  <2> QED
    BY <2>1 DEF NoRequest, Order
<1>3. \A c \in Desk : desk[c] = NoRequest
  BY <1>1
<1>4. desk \in [Desk -> Order]
  BY <1>1, <1>2
<1>5. \A c \in Desk : Named(desk[c], faculty)
  BY <1>2, <1>3 DEF Named
<1>6. RegistryTyped
  BY <1>1, <1>4, <1>5 DEF RegistryTyped
<1>7. Kept(staffRows) = {}
  BY <1>1 DEF Kept
<1>8. CodesApart(staffRows) /\ TableCalm(staffRows)
  BY <1>7 DEF CodesApart, TableCalm
<1>9. RegistryCalm
  BY <1>2, <1>3, <1>8 DEF RegistryCalm
<1> QED
  BY <1>6, <1>8, <1>9 DEF RegistryInv

\* Requests about teachers and subjects alone.
LEMMA TeachersKeep ==
    ASSUME RegistryInv, UNCHANGED <<staffRows, desk, byHand>>,
           faculty' \in Seq(TeacherRec), DOMAIN faculty \in SUBSET DOMAIN faculty'
    PROVE  RegistryInv'
<1>1. RegistryTyped'
  <2>1. \A c \in Desk : Named(desk[c], faculty')
    BY DEF RegistryInv, RegistryTyped, Named
  <2> QED
    BY <2>1 DEF RegistryInv, RegistryTyped
<1>2. CodesApart(staffRows)' /\ (byHand' \/ RegistryCalm')
  BY DEF RegistryInv, RegistryCalm
<1> QED
  BY <1>1, <1>2 DEF RegistryInv

\* Requests that begin: numbers are chosen.
LEMMA NumbersTaken ==
    ASSUME RegistryInv, NEW c \in Desk, NEW who \in Person \cup {Nobody}, NEW names \in SUBSET Spelling,
           NEW rows \in Seq(StaffRec), NEW given \in BOOLEAN, TakeNumbers(c, who, names, rows, given),
           \A k \in DOMAIN rows :
              /\ rows[k].live /\ rows[k].teacher \in {NoTeacher, Self} \cup DOMAIN faculty
              /\ rows[k].teacher = Self => who # Nobody,
           given \/ (Wellmade(rows) /\ BeatenOrNot(rows, staffRows))
    PROVE  RegistryInv'
<1> PICK order : order = [teacher |-> who, names |-> names, rows |-> rows, open |-> TRUE]
  OBVIOUS
<1>1. /\ desk' = [desk EXCEPT ![c] = order] /\ staffRows' = staffRows /\ faculty' = faculty
      /\ byHand' = (byHand \/ given)
  BY DEF TakeNumbers, registry
<1>2. order \in Order /\ order.rows = rows /\ order.teacher = who
  BY DEF Order
<1>3. desk \in [Desk -> Order]
  BY DEF RegistryInv, RegistryTyped
<1>4. desk' \in [Desk -> Order]
  BY <1>1, <1>2, <1>3
<1>5. desk'[c] = order /\ \A b \in Desk : b # c => desk'[b] = desk[b]
  BY <1>1, <1>3
<1>6. \A b \in Desk : Named(desk'[b], faculty)
  <2>1. Named(order, faculty)
    BY <1>2 DEF Named
  <2>2. \A b \in Desk : Named(desk[b], faculty)
    BY DEF RegistryInv, RegistryTyped
  <2> QED
    BY <1>5, <2>1, <2>2
<1>7. RegistryTyped'
  BY <1>1, <1>4, <1>6 DEF RegistryInv, RegistryTyped
<1>8. CodesApart(staffRows)'
  BY <1>1 DEF RegistryInv
<1>9. ASSUME ~ byHand' PROVE RegistryCalm'
  <2>1. ~ byHand /\ ~ given
    BY <1>1, <1>9, Zenon
  <2>2. Wellmade(rows) /\ BeatenOrNot(rows, staffRows) /\ RegistryCalm
    BY <2>1 DEF RegistryInv
  <2>3. TableCalm(staffRows)
    BY <2>2 DEF RegistryCalm
  <2>4. \A b \in Desk : desk'[b].open => Wellmade(desk'[b].rows) /\ BeatenOrNot(desk'[b].rows, staffRows)
    BY <1>2, <1>5, <2>2 DEF RegistryCalm
  <2> QED
    BY <1>1, <2>3, <2>4 DEF RegistryCalm
<1> QED
  BY <1>7, <1>8, <1>9 DEF RegistryInv

\* A row that is changed by hand.
LEMMA ByHandKeeps ==
    ASSUME RegistryInv, NEW n \in Kept(staffRows), NEW row \in StaffRec,
           row.live, row.teacher \in {NoTeacher} \cup DOMAIN faculty,
           row.code = staffRows[n].code \/ row.code \notin InUse(staffRows),
           staffRows' = [staffRows EXCEPT ![n] = row],
           UNCHANGED <<faculty, desk>>, byHand' = TRUE
    PROVE  RegistryInv'
<1>1. staffRows \in Seq(StaffRec) /\ n \in DOMAIN staffRows
  BY DEF RegistryInv, RegistryTyped, Kept
<1>2. /\ staffRows' \in Seq(StaffRec) /\ DOMAIN staffRows' = DOMAIN staffRows
      /\ staffRows'[n] = row /\ \A m \in DOMAIN staffRows : m # n => staffRows'[m] = staffRows[m]
  BY <1>1
<1>3. \A m \in DOMAIN staffRows' : staffRows'[m].teacher \in {NoTeacher} \cup DOMAIN faculty
  BY <1>2 DEF RegistryInv, RegistryTyped
<1>4. RegistryTyped'
  BY <1>2, <1>3 DEF RegistryInv, RegistryTyped
<1>5. Kept(staffRows') = Kept(staffRows)
  BY <1>1, <1>2 DEF Kept
<1>6. CodesApart(staffRows')
  <2>1. ASSUME NEW m \in Kept(staffRows), m # n PROVE staffRows[m].code # row.code
    <3>1. staffRows[m].code \in InUse(staffRows)
      BY DEF InUse
    <3>2. staffRows[m].code # staffRows[n].code
      BY <2>1 DEF RegistryInv, CodesApart
    <3> QED
      BY <3>1, <3>2
  <2>2. \A m \in Kept(staffRows) : m # n => staffRows'[m] = staffRows[m]
    BY <1>2 DEF Kept
  <2>3. \A a, b \in Kept(staffRows) : a # b => staffRows[a].code # staffRows[b].code
    BY DEF RegistryInv, CodesApart
  <2>4. ASSUME NEW a \in Kept(staffRows), NEW b \in Kept(staffRows), a # b
        PROVE  staffRows'[a].code # staffRows'[b].code
    BY <1>2, <2>1, <2>2, <2>3, <2>4
  <2> QED
    BY <1>5, <2>4 DEF CodesApart
<1> QED
  BY <1>4, <1>6 DEF RegistryInv

\* Rows that are deleted, or teachers.
LEMMA WithoutStaff ==
    ASSUME NEW table \in Seq(StaffRec), NEW gone
    PROVE  /\ Without(table, gone) \in Seq(StaffRec) /\ DOMAIN Without(table, gone) = DOMAIN table
           /\ \A n \in DOMAIN table : Without(table, gone)[n].teacher = table[n].teacher
           /\ Kept(Without(table, gone)) \in SUBSET Kept(table)
           /\ \A n \in Kept(Without(table, gone)) : Without(table, gone)[n] = table[n]
<1> PICK new : new = Without(table, gone)
  OBVIOUS
<1>1. new = [n \in DOMAIN table |-> IF n \in gone THEN [table[n] EXCEPT !.live = FALSE] ELSE table[n]]
  BY DEF Without
<1>2. DOMAIN new = DOMAIN table /\ new = [n \in DOMAIN table |-> new[n]]
  BY ONLY <1>1
<1>3. ASSUME NEW n \in DOMAIN table
      PROVE  /\ new[n] \in StaffRec /\ new[n].teacher = table[n].teacher
             /\ new[n].live => (table[n].live /\ new[n] = table[n])
  <2>1. table[n] \in StaffRec
    OBVIOUS
  <2> PICK row : row = table[n]
    OBVIOUS
  <2>2. CASE n \in gone
    <3>1. new[n] = [row EXCEPT !.live = FALSE]
      BY <1>1, <2>2
    <3>2. new[n] \in StaffRec /\ new[n].teacher = row.teacher /\ ~ new[n].live
      BY <2>1, <3>1 DEF StaffRec
    <3> QED
      BY <3>2
  <2>3. CASE n \notin gone
    BY <1>1, <2>1, <2>3
  <2> QED
    BY <2>2, <2>3
<1>4. new \in [DOMAIN table -> StaffRec]
  BY <1>2, <1>3
<1>5. new \in Seq(StaffRec)
  <2>1. DOMAIN table = 1 .. Len(table) /\ Len(table) \in Nat
    OBVIOUS
  <2> QED
    BY <1>4, <2>1
<1>6. Kept(new) \in SUBSET Kept(table) /\ \A n \in Kept(new) : new[n] = table[n]
  BY <1>2, <1>3 DEF Kept
<1> QED
  BY <1>2, <1>3, <1>5, <1>6

LEMMA WithoutTeachers ==
    ASSUME NEW table \in Seq(TeacherRec), NEW gone
    PROVE  Without(table, gone) \in Seq(TeacherRec) /\ DOMAIN Without(table, gone) = DOMAIN table
<1> PICK new : new = Without(table, gone)
  OBVIOUS
<1>1. new = [n \in DOMAIN table |-> IF n \in gone THEN [table[n] EXCEPT !.live = FALSE] ELSE table[n]]
  BY DEF Without
<1>2. DOMAIN new = DOMAIN table /\ new = [n \in DOMAIN table |-> new[n]]
  BY ONLY <1>1
<1>3. ASSUME NEW n \in DOMAIN table PROVE new[n] \in TeacherRec
  <2>1. table[n] \in TeacherRec
    OBVIOUS
  <2> PICK row : row = table[n]
    OBVIOUS
  <2>2. new[n] = IF n \in gone THEN [row EXCEPT !.live = FALSE] ELSE row
    BY <1>1
  <2> QED
    BY <2>1, <2>2 DEF TeacherRec
<1>4. new \in [DOMAIN table -> TeacherRec]
  BY <1>2, <1>3
<1>5. DOMAIN table = 1 .. Len(table) /\ Len(table) \in Nat
  OBVIOUS
<1> QED
  BY <1>2, <1>4, <1>5

\* Rows are deleted, and no request is on its way or it counts as done by hand.
LEMMA DeleteKeeps ==
    ASSUME RegistryInv, NEW gone, DeleteStaff(gone)
    PROVE  RegistryInv'
<1>1. /\ staffRows' = Without(staffRows, gone) /\ UNCHANGED <<faculty, desk>>
      /\ byHand' = (byHand \/ ~ Quiet)
  BY DEF DeleteStaff, OfStaff, OfOffice, registry
<1>2. staffRows \in Seq(StaffRec)
  BY DEF RegistryInv, RegistryTyped
<1>3. /\ staffRows' \in Seq(StaffRec) /\ DOMAIN staffRows' = DOMAIN staffRows
      /\ \A n \in DOMAIN staffRows : staffRows'[n].teacher = staffRows[n].teacher
      /\ Kept(staffRows') \in SUBSET Kept(staffRows)
      /\ \A n \in Kept(staffRows') : staffRows'[n] = staffRows[n]
  BY <1>1, <1>2, WithoutStaff
<1>4. RegistryTyped'
  BY <1>1, <1>3 DEF RegistryInv, RegistryTyped
<1>5. CodesApart(staffRows')
  BY <1>3 DEF RegistryInv, CodesApart
<1>6. ASSUME ~ byHand' PROVE RegistryCalm'
  <2>1. ~ byHand /\ Quiet
    BY <1>1, <1>6, Zenon
  <2>2. TableCalm(staffRows)
    BY <2>1 DEF RegistryInv, RegistryCalm
  <2>3. TableCalm(staffRows')
    BY <1>3, <2>2 DEF TableCalm
  <2>4. \A c \in Desk : ~ desk[c].open
    BY <2>1 DEF Quiet
  <2> QED
    BY <1>1, <2>3, <2>4 DEF RegistryCalm
<1> QED
  BY <1>4, <1>5, <1>6 DEF RegistryInv

\* Rows as they are written: the teacher a request adds has a place now.
Owned(rows, t) == [k \in DOMAIN rows |->
    IF rows[k].teacher = Self THEN [rows[k] EXCEPT !.teacher = t] ELSE rows[k]]

LEMMA OwnedIs ==
    ASSUME NEW rows \in Seq(StaffRec), NEW t \in Int, \A k \in DOMAIN rows : rows[k].live
    PROVE  /\ Owned(rows, t) \in Seq(StaffRec) /\ DOMAIN Owned(rows, t) = DOMAIN rows
           /\ Kept(Owned(rows, t)) = DOMAIN rows
           /\ \A k \in DOMAIN rows :
                 /\ Owned(rows, t)[k].code = rows[k].code /\ Owned(rows, t)[k].dept = rows[k].dept
                 /\ InRange(Owned(rows, t)[k]) <=> InRange(rows[k])
                 /\ Owned(rows, t)[k].teacher = IF rows[k].teacher = Self THEN t ELSE rows[k].teacher
<1> PICK new : new = Owned(rows, t)
  OBVIOUS
<1>1. new = [k \in DOMAIN rows |-> IF rows[k].teacher = Self THEN [rows[k] EXCEPT !.teacher = t] ELSE rows[k]]
  BY DEF Owned
<1>2. DOMAIN new = DOMAIN rows /\ new = [k \in DOMAIN rows |-> new[k]]
  BY ONLY <1>1
<1>3. ASSUME NEW k \in DOMAIN rows
      PROVE  /\ new[k] \in StaffRec /\ new[k].live
             /\ new[k].code = rows[k].code /\ new[k].dept = rows[k].dept /\ new[k].legacy = rows[k].legacy
             /\ new[k].teacher = IF rows[k].teacher = Self THEN t ELSE rows[k].teacher
  <2> PICK row : row = rows[k]
    OBVIOUS
  <2>1. row \in StaffRec /\ row.live
    OBVIOUS
  <2>2. CASE row.teacher = Self
    <3>1. new[k] = [row EXCEPT !.teacher = t]
      BY <1>1, <2>2
    <3> QED
      BY <2>1, <2>2, <3>1 DEF StaffRec
  <2>3. CASE row.teacher # Self
    BY <1>1, <2>1, <2>3
  <2> QED
    BY <2>2, <2>3
<1>4. \A k \in DOMAIN rows : InRange(new[k]) <=> InRange(rows[k])
  BY <1>3 DEF InRange
<1>5. new \in [DOMAIN rows -> StaffRec]
  BY <1>2, <1>3
<1>6. DOMAIN rows = 1 .. Len(rows) /\ Len(rows) \in Nat
  OBVIOUS
<1>7. Kept(new) = DOMAIN rows
  BY <1>2, <1>3 DEF Kept
<1> QED
  BY <1>2, <1>3, <1>4, <1>5, <1>6, <1>7

\* What a request that is not refused leaves: its rows behind the others.
LEMMA CommitCodes ==
    ASSUME NEW table \in Seq(StaffRec), CodesApart(table), NEW rows \in Seq(StaffRec), NEW new \in Seq(StaffRec),
           DOMAIN new = DOMAIN rows, \A k \in DOMAIN rows : new[k].code = rows[k].code,
           \A k \in DOMAIN rows : rows[k].code \notin InUse(table),
           \A k, j \in DOMAIN rows : k # j => rows[k].code # rows[j].code
    PROVE  CodesApart(table \o new)
<1>1. /\ \A n \in Kept(table) : n \in Kept(table \o new) /\ (table \o new)[n] = table[n]
      /\ \A k \in Kept(new) : Len(table) + k \in Kept(table \o new) /\ (table \o new)[Len(table) + k] = new[k]
      /\ \A n \in Kept(table \o new) : n \in Kept(table) \/ \E k \in Kept(new) : n = Len(table) + k
  BY KeptJoined
<1> PICK all : all = table \o new
  OBVIOUS
<1>2. \A k \in Kept(new) : k \in DOMAIN rows
  BY DEF Kept
<1>3. ASSUME NEW n \in Kept(all), NEW m \in Kept(all), n # m PROVE all[n].code # all[m].code
  <2>1. CASE n \in Kept(table) /\ m \in Kept(table)
    BY <1>1, <1>3, <2>1 DEF CodesApart
  <2>2. ASSUME NEW a \in Kept(table), NEW k \in Kept(new) PROVE table[a].code # new[k].code
    <3>1. table[a].code \in InUse(table)
      BY DEF InUse
    <3>2. rows[k].code \notin InUse(table) /\ new[k].code = rows[k].code
      BY <1>2
    <3> QED
      BY <3>1, <3>2
  <2>3. CASE n \in Kept(table) /\ m \notin Kept(table)
    <3>1. PICK k \in Kept(new) : m = Len(table) + k
      BY <1>1, <2>3
    <3>2. all[n] = table[n] /\ all[m] = new[k]
      BY <1>1, <2>3, <3>1
    <3> QED
      BY <2>2, <2>3, <3>2
  <2>4. CASE n \notin Kept(table) /\ m \in Kept(table)
    <3>1. PICK k \in Kept(new) : n = Len(table) + k
      BY <1>1, <2>4
    <3>2. all[m] = table[m] /\ all[n] = new[k]
      BY <1>1, <2>4, <3>1
    <3> QED
      BY <2>2, <2>4, <3>2
  <2>5. CASE n \notin Kept(table) /\ m \notin Kept(table)
    <3>1. PICK k \in Kept(new) : n = Len(table) + k
      BY <1>1, <2>5
    <3>2. PICK j \in Kept(new) : m = Len(table) + j
      BY <1>1, <2>5
    <3>3. k # j /\ all[n] = new[k] /\ all[m] = new[j]
      BY <1>1, <1>3, <3>1, <3>2
    <3> QED
      BY <1>2, <3>3
  <2> QED
    BY <2>1, <2>3, <2>4, <2>5
<1> QED
  BY <1>3 DEF CodesApart

\* Rows of one request that is up to date, behind the others.
LEMMA CommitCalm ==
    ASSUME NEW table \in Seq(StaffRec), TableCalm(table), NEW rows \in Seq(StaffRec), Wellmade(rows),
           BeatenOrNot(rows, table), \A k \in DOMAIN rows : rows[k].code \notin InUse(table),
           NEW teachers, NEW t \in Nat \ {NoTeacher}, t \notin teachers, Self \notin teachers, NoTeacher \notin teachers,
           \A n \in DOMAIN table : table[n].teacher \in {NoTeacher} \cup teachers,
           \A k \in DOMAIN rows : rows[k].teacher \in {NoTeacher, Self} \cup teachers,
           \A k \in DOMAIN rows : rows[k].live,
           NEW new, new = Owned(rows, t)
    PROVE  TableCalm(table \o new)
<1>0. /\ new \in Seq(StaffRec) /\ DOMAIN new = DOMAIN rows /\ Kept(new) = DOMAIN rows
      /\ \A k \in DOMAIN rows :
            /\ new[k].code = rows[k].code /\ new[k].dept = rows[k].dept
            /\ InRange(new[k]) <=> InRange(rows[k])
            /\ new[k].teacher = IF rows[k].teacher = Self THEN t ELSE rows[k].teacher
  <2>1. t \in Int
    OBVIOUS
  <2> QED
    BY <2>1, OwnedIs
<1>1. /\ \A n \in Kept(table) : n \in Kept(table \o new) /\ (table \o new)[n] = table[n]
      /\ \A k \in Kept(new) : Len(table) + k \in Kept(table \o new) /\ (table \o new)[Len(table) + k] = new[k]
      /\ \A n \in Kept(table \o new) : n \in Kept(table) \/ \E k \in Kept(new) : n = Len(table) + k
  <2>1. table \in Seq(StaffRec) /\ new \in Seq(StaffRec)
    BY <1>0
  <2> QED
    BY ONLY <2>1, KeptJoined
<1> PICK all : all = table \o new
  OBVIOUS
<1>2. NoTeacher = 0 /\ Self = -1
  BY DEF NoTeacher, Self
<1>3. \A k \in DOMAIN rows :
        /\ new[k].teacher \in {NoTeacher, t} \cup teachers
        /\ (new[k].teacher # NoTeacher) => (rows[k].teacher # NoTeacher)
  <2>1. ASSUME NEW k \in DOMAIN rows
        PROVE  /\ new[k].teacher \in {NoTeacher, t} \cup teachers
               /\ (new[k].teacher # NoTeacher) => (rows[k].teacher # NoTeacher)
    <3>1. rows[k].teacher \in {NoTeacher, Self} \cup teachers
      OBVIOUS
    <3>2. CASE rows[k].teacher = Self
      BY <1>0, <1>2, <3>2
    <3>3. CASE rows[k].teacher # Self
      BY <1>0, <3>1, <3>3
    <3> QED
      BY <3>2, <3>3
  <2> QED
    BY <2>1
<1>4. ASSUME NEW k \in DOMAIN rows, NEW j \in DOMAIN rows, k # j, new[k].teacher # NoTeacher
      PROVE  new[k].teacher # new[j].teacher
  <2>1. rows[k].teacher # NoTeacher /\ rows[k].teacher # rows[j].teacher
    BY <1>3, <1>4 DEF Wellmade
  <2> QED
    BY <1>0, <2>1
<1>5. ASSUME NEW k \in DOMAIN rows, NEW n \in Kept(table), new[k].teacher # NoTeacher
      PROVE  new[k].teacher # table[n].teacher
  <2>1. rows[k].teacher # NoTeacher
    BY <1>3, <1>5
  <2>2. k \in OfTeaching(rows)
    BY <2>1 DEF Wellmade, OfTeaching
  <2>3. UpToDate(rows, table)
    BY <2>2 DEF BeatenOrNot, Beaten, OfTeaching
  <2>4. rows[k].teacher # table[n].teacher
    BY <2>1, <2>3 DEF UpToDate
  <2>5. table[n].teacher \in {NoTeacher} \cup teachers
    BY DEF Kept
  <2> QED
    BY <1>0, <1>2, <2>4, <2>5
<1>6. ASSUME NEW n \in Kept(all)
      PROVE  InRange(all[n]) /\ (all[n].teacher # NoTeacher => all[n].dept = Teaching)
  <2>1. CASE n \in Kept(table)
    BY <1>1, <2>1 DEF TableCalm
  <2>2. CASE \E k \in Kept(new) : n = Len(table) + k
    <3>1. PICK k \in DOMAIN rows : all[n] = new[k]
      BY <1>0, <1>1, <2>2
    <3>2. InRange(rows[k]) /\ (rows[k].teacher # NoTeacher => rows[k].dept = Teaching)
      BY DEF Wellmade
    <3> QED
      BY <1>0, <1>3, <3>1, <3>2
  <2> QED
    BY <1>1, <2>1, <2>2
<1>7. ASSUME NEW n \in Kept(all), NEW m \in Kept(all), n # m, all[n].teacher # NoTeacher
      PROVE  all[n].teacher # all[m].teacher
  <2>1. CASE n \in Kept(table) /\ m \in Kept(table)
    <3>1. all[n] = table[n] /\ all[m] = table[m]
      BY <1>1, <2>1
    <3> QED
      BY <1>7, <2>1, <3>1 DEF TableCalm
  <2>2. CASE n \in Kept(table) /\ m \notin Kept(table)
    <3>1. PICK k \in DOMAIN rows : all[m] = new[k]
      <4>1. PICK i \in Kept(new) : m = Len(table) + i
        BY <1>1, <2>2
      <4> QED
        BY <1>0, <1>1, <4>1
    <3>2. all[n] = table[n]
      BY <1>1, <2>2
    <3> QED
      BY <1>5, <1>7, <2>2, <3>1, <3>2
  <2>3. CASE n \notin Kept(table) /\ m \in Kept(table)
    <3>1. PICK k \in DOMAIN rows : all[n] = new[k]
      <4>1. PICK i \in Kept(new) : n = Len(table) + i
        BY <1>1, <2>3
      <4> QED
        BY <1>0, <1>1, <4>1
    <3>2. all[m] = table[m]
      BY <1>1, <2>3
    <3> QED
      BY <1>5, <1>7, <2>3, <3>1, <3>2
  <2>4. CASE n \notin Kept(table) /\ m \notin Kept(table)
    <3>1. PICK k \in Kept(new) : n = Len(table) + k
      BY <1>1, <2>4
    <3>2. PICK j \in Kept(new) : m = Len(table) + j
      BY <1>1, <2>4
    <3>3. k # j /\ all[n] = new[k] /\ all[m] = new[j]
      BY <1>1, <1>7, <3>1, <3>2
    <3> QED
      BY <1>0, <1>4, <1>7, <3>3
  <2> QED
    BY <2>1, <2>2, <2>3, <2>4
<1> QED
  BY <1>6, <1>7 DEF TableCalm

\* What another session holds is still beaten or up to date.
LEMMA OthersKeep ==
    ASSUME NEW table \in Seq(StaffRec), NEW rows \in Seq(StaffRec), Wellmade(rows),
           BeatenOrNot(rows, table), \A k \in DOMAIN rows : rows[k].code \notin InUse(table),
           NEW new \in Seq(StaffRec), DOMAIN new = DOMAIN rows, Kept(new) = DOMAIN rows,
           \A k \in DOMAIN rows : new[k].code = rows[k].code /\ new[k].dept = rows[k].dept,
           \A k \in DOMAIN rows : rows[k].teacher = NoTeacher => new[k].teacher = NoTeacher,
           NEW other, BeatenOrNot(other, table)
    PROVE  BeatenOrNot(other, table \o new)
<1>1. /\ \A n \in Kept(table) : n \in Kept(table \o new) /\ (table \o new)[n] = table[n]
      /\ \A k \in Kept(new) : Len(table) + k \in Kept(table \o new) /\ (table \o new)[Len(table) + k] = new[k]
      /\ \A n \in Kept(table \o new) : n \in Kept(table) \/ \E k \in Kept(new) : n = Len(table) + k
  BY KeptJoined
<1> PICK all : all = table \o new
  OBVIOUS
<1>2. ASSUME NEW x \in InUse(table) PROVE x \in InUse(all)
  <2>1. PICK n \in Kept(table) : x = table[n].code
    BY DEF InUse
  <2>2. n \in Kept(all) /\ all[n] = table[n]
    BY <1>1
  <2> QED
    BY <2>1, <2>2 DEF InUse
<1>3. ASSUME NEW k \in DOMAIN rows PROVE rows[k].code \in InUse(all)
  <2> PICK n : n = Len(table) + k
    OBVIOUS
  <2>1. n \in Kept(all) /\ all[n] = new[k]
    BY <1>1
  <2> QED
    BY <2>1 DEF InUse
<1>4. CASE Beaten(other, table)
  BY <1>2, <1>4 DEF Beaten, BeatenOrNot
<1>5. CASE OfTeaching(other) # {} /\ UpToDate(other, table)
  <2>1. PICK i \in OfTeaching(other) : other[i].code = NextCode(table, Teaching)
    BY <1>5 DEF UpToDate
  <2>2. CASE OfTeaching(rows) # {}
    <3>1. ~ Beaten(rows, table)
      BY DEF Beaten, OfTeaching
    <3>2. UpToDate(rows, table)
      BY <2>2, <3>1 DEF BeatenOrNot
    <3>3. PICK k \in OfTeaching(rows) : rows[k].code = NextCode(table, Teaching)
      BY <3>2 DEF UpToDate
    <3>4. rows[k].code \in InUse(all)
      BY <1>3 DEF OfTeaching
    <3>5. other[i].code \in InUse(all)
      BY <2>1, <3>3, <3>4
    <3> QED
      BY <3>5 DEF Beaten, BeatenOrNot
  <2>3. CASE OfTeaching(rows) = {}
    <3>1. CodesIn(new, Teaching) = {}
      <4>1. \A k \in Kept(new) : new[k].dept # Teaching
        BY <2>3 DEF OfTeaching
      <4> QED
        BY <4>1 DEF CodesIn
    <3>2. CodesIn(all, Teaching) = CodesIn(table, Teaching) \cup CodesIn(new, Teaching)
      BY CodesJoined
    <3>3. CodesIn(all, Teaching) = CodesIn(table, Teaching)
      BY <3>1, <3>2
    <3>4. NextCode(all, Teaching) = NextCode(table, Teaching)
      BY <3>3, NextSame
    <3>5. \A k \in DOMAIN rows : new[k].teacher = NoTeacher
      BY <2>3 DEF Wellmade, OfTeaching
    <3>6. ASSUME NEW k \in DOMAIN other, NEW n \in Kept(all), other[k].teacher # NoTeacher
          PROVE  other[k].teacher # all[n].teacher
      <4>1. CASE n \in Kept(table)
        <5>1. all[n] = table[n]
          BY <1>1, <4>1
        <5> QED
          BY <1>5, <3>6, <4>1, <5>1 DEF UpToDate
      <4>2. CASE \E j \in Kept(new) : n = Len(table) + j
        <5>1. PICK j \in Kept(new) : n = Len(table) + j
          BY <4>2
        <5>2. all[n] = new[j]
          BY <1>1, <5>1
        <5> QED
          BY <3>5, <3>6, <5>2
      <4> QED
        BY <1>1, <4>1, <4>2
    <3>7. UpToDate(other, all)
      BY <2>1, <3>4, <3>6 DEF UpToDate
    <3> QED
      BY <3>7 DEF BeatenOrNot
  <2> QED
    BY <2>2, <2>3
<1>6. CASE OfTeaching(other) = {}
  BY <1>6 DEF BeatenOrNot
<1> QED
  BY <1>4, <1>5, <1>6 DEF BeatenOrNot

\* A session commits, all of its request or nothing.
LEMMA NumbersCommit ==
    ASSUME RegistryInv, NEW c \in Desk, CommitNumbers(c)
    PROVE  RegistryInv'
<1> PICK r, t, rows : r = desk[c] /\ t = Len(faculty) + 1 /\ rows = r.rows
  OBVIOUS
<1>1. /\ r.open /\ desk' = [desk EXCEPT ![c] = NoRequest] /\ byHand' = byHand
  BY DEF CommitNumbers
<1>2. r \in Order /\ Named(r, faculty) /\ desk \in [Desk -> Order] /\ rows \in Seq(StaffRec)
  BY DEF RegistryInv, RegistryTyped, Order
<1>3. NoRequest \in Order /\ NoRequest.rows = << >> /\ ~ NoRequest.open
  <2>1. << >> \in Seq(StaffRec)
    OBVIOUS
  <2> QED
    BY <2>1 DEF NoRequest, Order
<1>4. /\ desk' \in [Desk -> Order] /\ desk'[c] = NoRequest
      /\ \A b \in Desk : b # c => desk'[b] = desk[b]
  BY <1>1, <1>2, <1>3
<1>5. faculty \in Seq(TeacherRec) /\ staffRows \in Seq(StaffRec)
      /\ DOMAIN faculty = 1 .. Len(faculty) /\ Len(faculty) \in Nat
      /\ t \in Nat \ {NoTeacher} /\ t \in Int /\ t \notin DOMAIN faculty /\ Self \notin DOMAIN faculty
      /\ NoTeacher \notin DOMAIN faculty
  BY DEF RegistryInv, RegistryTyped, NoTeacher, Self
<1>6. ASSUME NEW b \in Desk, DOMAIN faculty \in SUBSET DOMAIN faculty' PROVE Named(desk'[b], faculty')
  <2>1. CASE b = c
    BY <1>3, <1>4, <2>1 DEF Named
  <2>2. CASE b # c
    <3>1. Named(desk[b], faculty) /\ desk'[b] = desk[b]
      BY <1>4, <2>2 DEF RegistryInv, RegistryTyped
    <3> QED
      BY <1>6, <3>1 DEF Named
  <2> QED
    BY <2>1, <2>2
<1>7. CASE Refused(rows)
  <2>1. staffRows' = staffRows /\ faculty' = faculty
    BY <1>7 DEF CommitNumbers
  <2>2. RegistryTyped'
    BY <1>4, <1>6, <2>1 DEF RegistryInv, RegistryTyped
  <2>3. CodesApart(staffRows')
    BY <2>1 DEF RegistryInv
  <2>4. ASSUME ~ byHand' PROVE RegistryCalm'
    <3>1. RegistryCalm
      BY <1>1, <2>4 DEF RegistryInv
    <3> QED
      BY <1>3, <1>4, <2>1, <3>1 DEF RegistryCalm
  <2> QED
    BY <2>2, <2>3, <2>4 DEF RegistryInv
<1>8. CASE ~ Refused(rows)
  <2> PICK new : new = Owned(rows, t)
    OBVIOUS
  <2>1. staffRows' = staffRows \o new
    BY <1>8 DEF CommitNumbers, Owned
  <2>2. /\ faculty' \in Seq(TeacherRec) /\ DOMAIN faculty \in SUBSET DOMAIN faculty'
        /\ r.teacher # Nobody => t \in DOMAIN faculty'
    <3>1. CASE r.teacher = Nobody
      <4>1. faculty' = faculty
        BY <1>8, <3>1 DEF CommitNumbers
      <4> QED
        BY <1>5, <3>1, <4>1
    <3>2. CASE r.teacher # Nobody
      <4> PICK x : x = [name |-> r.teacher, live |-> TRUE]
        OBVIOUS
      <4>1. faculty' = Append(faculty, x)
        BY <1>8, <3>2 DEF CommitNumbers
      <4>2. x \in TeacherRec
        BY <1>2, <3>2 DEF TeacherRec, Order
      <4> QED
        BY <1>5, <4>1, <4>2
    <3> QED
      BY <3>1, <3>2
  <2>3. \A k \in DOMAIN rows :
          /\ rows[k].live /\ rows[k].teacher \in {NoTeacher, Self} \cup DOMAIN faculty
          /\ rows[k].teacher = Self => r.teacher # Nobody
    BY <1>2 DEF Named
  <2>4. /\ new \in Seq(StaffRec) /\ DOMAIN new = DOMAIN rows /\ Kept(new) = DOMAIN rows
        /\ \A k \in DOMAIN rows :
              /\ new[k].code = rows[k].code /\ new[k].dept = rows[k].dept
              /\ new[k].teacher = IF rows[k].teacher = Self THEN t ELSE rows[k].teacher
    <3>1. \A k \in DOMAIN rows : rows[k].live
      BY <2>3
    <3>2. rows \in Seq(StaffRec) /\ t \in Int
      BY <1>2, <1>5
    <3>3. /\ Owned(rows, t) \in Seq(StaffRec) /\ DOMAIN Owned(rows, t) = DOMAIN rows
          /\ Kept(Owned(rows, t)) = DOMAIN rows
          /\ \A k \in DOMAIN rows :
                /\ Owned(rows, t)[k].code = rows[k].code /\ Owned(rows, t)[k].dept = rows[k].dept
                /\ InRange(Owned(rows, t)[k]) <=> InRange(rows[k])
                /\ Owned(rows, t)[k].teacher = IF rows[k].teacher = Self THEN t ELSE rows[k].teacher
      BY ONLY <3>1, <3>2, OwnedIs
    <3> QED
      BY <3>3
  <2>5. /\ staffRows' \in Seq(StaffRec)
        /\ \A n \in DOMAIN staffRows : staffRows'[n] = staffRows[n]
        /\ \A n \in DOMAIN staffRows' : n \in DOMAIN staffRows
              \/ \E k \in DOMAIN new : n = Len(staffRows) + k /\ staffRows'[n] = new[k]
    BY <1>5, <2>1, <2>4, Joined
  <2>6. ASSUME NEW n \in DOMAIN staffRows' PROVE staffRows'[n].teacher \in {NoTeacher} \cup DOMAIN faculty'
    <3>1. CASE n \in DOMAIN staffRows
      <4>1. staffRows[n].teacher \in {NoTeacher} \cup DOMAIN faculty
        BY <3>1 DEF RegistryInv, RegistryTyped
      <4> QED
        BY <2>2, <2>5, <3>1, <4>1
    <3>2. CASE n \notin DOMAIN staffRows
      <4>1. PICK k \in DOMAIN rows : staffRows'[n] = new[k]
        BY <2>4, <2>5, <3>2
      <4>2. new[k].teacher \in {NoTeacher} \cup DOMAIN faculty'
        BY <2>2, <2>3, <2>4
      <4> QED
        BY <4>1, <4>2
    <3> QED
      BY <3>1, <3>2
  <2>7. RegistryTyped'
    BY <1>4, <1>6, <2>2, <2>5, <2>6 DEF RegistryTyped
  <2>8. /\ \A k \in DOMAIN rows : rows[k].code \notin InUse(staffRows)
        /\ \A k, j \in DOMAIN rows : k # j => rows[k].code # rows[j].code
    <3>1. \A k \in DOMAIN rows :
            rows[k].code \notin InUse(staffRows) /\ \A j \in 1..(k - 1) : rows[k].code # rows[j].code
      BY <1>8 DEF Refused
    <3>2. DOMAIN rows = 1 .. Len(rows) /\ Len(rows) \in Nat
      BY <1>2
    <3>3. ASSUME NEW k \in DOMAIN rows, NEW j \in DOMAIN rows, k # j PROVE rows[k].code # rows[j].code
      <4>1. j \in 1..(k - 1) \/ k \in 1..(j - 1)
        BY <3>2, <3>3
      <4> QED
        BY <3>1, <4>1
    <3> QED
      BY <3>1, <3>3
  <2>9. CodesApart(staffRows')
    <3>1. CodesApart(staffRows)
      BY DEF RegistryInv
    <3>2. CodesApart(staffRows \o new)
      BY ONLY <1>2, <1>5, <2>4, <2>8, <3>1, CommitCodes
    <3> QED
      BY <2>1, <3>2
  <2>10. ASSUME ~ byHand' PROVE RegistryCalm'
    <3>1. TableCalm(staffRows) /\ RegistryCalm
      BY <1>1, <2>10 DEF RegistryInv, RegistryCalm
    <3>2. Wellmade(rows) /\ BeatenOrNot(rows, staffRows)
      BY <1>1, <3>1 DEF RegistryCalm
    <3>3. TableCalm(staffRows')
      <4> PICK teachers : teachers = DOMAIN faculty
        OBVIOUS
      <4>1. /\ \A n \in DOMAIN staffRows : staffRows[n].teacher \in {NoTeacher} \cup teachers
            /\ \A k \in DOMAIN rows : rows[k].teacher \in {NoTeacher, Self} \cup teachers
            /\ \A k \in DOMAIN rows : rows[k].live
            /\ t \in Nat \ {NoTeacher} /\ t \notin teachers /\ Self \notin teachers
            /\ NoTeacher \notin teachers /\ new = Owned(rows, t)
        BY <1>5, <2>3 DEF RegistryInv, RegistryTyped
      <4>2. TableCalm(staffRows \o new)
        BY ONLY <1>2, <1>5, <2>8, <3>1, <3>2, <4>1, CommitCalm
      <4> QED
        BY <2>1, <4>2
    <3>4. ASSUME NEW b \in Desk, desk'[b].open
          PROVE  Wellmade(desk'[b].rows) /\ BeatenOrNot(desk'[b].rows, staffRows')
      <4>1. b # c /\ desk'[b] = desk[b]
        BY <1>3, <1>4, <3>4
      <4>2. Wellmade(desk[b].rows) /\ BeatenOrNot(desk[b].rows, staffRows)
        BY <3>1, <3>4, <4>1 DEF RegistryCalm
      <4> PICK other : other = desk[b].rows
        OBVIOUS
      <4>3. \A k \in DOMAIN rows : new[k].code = rows[k].code /\ new[k].dept = rows[k].dept
        BY <2>4
      <4>4. \A k \in DOMAIN rows : rows[k].teacher = NoTeacher => new[k].teacher = NoTeacher
        BY <2>4 DEF NoTeacher, Self
      <4>5. BeatenOrNot(other, staffRows)
        BY <4>2
      <4>6. BeatenOrNot(other, staffRows \o new)
        BY ONLY <1>2, <1>5, <2>4, <2>8, <3>2, <4>3, <4>4, <4>5, OthersKeep
      <4> QED
        BY <2>1, <4>1, <4>2, <4>6
    <3> QED
      BY <3>3, <3>4 DEF RegistryCalm
  <2> QED
    BY <2>7, <2>9, <2>10 DEF RegistryInv
<1> QED
  BY <1>7, <1>8

\* Requests that take numbers.
LEMMA MirrorKeeps ==
    ASSUME RegistryInv, NEW c \in Desk, NEW who \in Person \cup {Nobody}, NEW names \in SUBSET Spelling,
           NEW fresh \in {{}, {Self}}, Self \in fresh => who # Nobody,
           TakeNumbers(c, who, names, Mirrors(fresh), FALSE)
    PROVE  RegistryInv'
<1> PICK rows : rows = Mirrors(fresh)
  OBVIOUS
<1>1. RegistryTyped
  BY DEF RegistryInv
<1>2. /\ rows \in Seq(StaffRec) /\ Wellmade(rows) /\ BeatenOrNot(rows, staffRows)
      /\ \A k \in DOMAIN rows : rows[k].live /\ rows[k].teacher \in fresh \cup DOMAIN faculty
  BY <1>1, MirrorsAre
<1>3. Self \notin DOMAIN faculty
  BY <1>1 DEF RegistryTyped, Self
<1>4. \A k \in DOMAIN rows :
        /\ rows[k].live /\ rows[k].teacher \in {NoTeacher, Self} \cup DOMAIN faculty
        /\ rows[k].teacher = Self => who # Nobody
  BY <1>2, <1>3
<1>5. TakeNumbers(c, who, names, rows, FALSE) /\ FALSE \in BOOLEAN
  OBVIOUS
<1>6. FALSE \/ (Wellmade(rows) /\ BeatenOrNot(rows, staffRows))
  BY <1>2
<1> QED
  BY <1>2, <1>4, <1>5, <1>6, NumbersTaken

LEMMA CreateStaffKeeps ==
    ASSUME RegistryInv, NEW c \in Desk, NEW d \in Depts, NEW code \in Numbers \cup {NoCode},
           BeginCreateStaff(c, d, code)
    PROVE  RegistryInv'
<1> PICK number : number = Numbered(staffRows, d, code)
  OBVIOUS
<1> PICK x : x = StaffRow(d, number, NoTeacher)
  OBVIOUS
<1> PICK rows : rows = <<x>>
  OBVIOUS
<1> PICK given \in BOOLEAN : given = (code # NoCode)
  OBVIOUS
<1>1. number # NoCode /\ TakeNumbers(c, Nobody, {}, rows, code # NoCode)
  BY DEF BeginCreateStaff
<1>2. TakeNumbers(c, Nobody, {}, rows, given)
  BY <1>1, Zenon
<1>3. number \in Nat \ {NoCode} /\ NoTeacher \in Int
  <2>1. \A e \in Depts : NumbersOf(e) \in SUBSET (Nat \ {NoCode})
    BY RangesAre
  <2>2. code = NoCode \/ code \in Nat
    BY <2>1 DEF Numbers
  <2>3. NextCode(staffRows, d) \in Nat
    BY NextCodeIs
  <2>4. number \in Nat
    BY <2>2, <2>3 DEF Numbered
  <2> QED
    BY <1>1, <2>4 DEF NoTeacher
<1>4. x \in StaffRec /\ InRange(x) /\ x.dept = d /\ x.code = number /\ x.teacher = NoTeacher /\ x.live
  BY ONLY <1>3, x = StaffRow(d, number, NoTeacher), d \in Depts, StaffRowIs
<1>5. rows \in Seq(StaffRec) /\ DOMAIN rows = {1} /\ rows[1] = x
  BY <1>4
<1>6. \A k \in DOMAIN rows :
        /\ rows[k].live /\ rows[k].teacher \in {NoTeacher, Self} \cup DOMAIN faculty
        /\ rows[k].teacher = Self => Nobody # Nobody
  <2>1. NoTeacher # Self
    BY DEF NoTeacher, Self
  <2> QED
    BY <1>4, <1>5, <2>1
<1>7. Wellmade(rows)
  BY <1>4, <1>5 DEF Wellmade
<1>8. ASSUME ~ given PROVE BeatenOrNot(rows, staffRows)
  <2>1. code = NoCode
    BY <1>8, Zenon
  <2>2. number = NextCode(staffRows, d)
    BY <2>1 DEF Numbered
  <2>3. ASSUME OfTeaching(rows) # {} PROVE UpToDate(rows, staffRows)
    <3>1. 1 \in OfTeaching(rows) /\ d = Teaching
      BY <1>4, <1>5, <2>3 DEF OfTeaching
    <3> QED
      BY <1>4, <1>5, <2>2, <3>1 DEF UpToDate
  <2> QED
    BY <2>3 DEF BeatenOrNot
<1>9. given \/ (Wellmade(rows) /\ BeatenOrNot(rows, staffRows))
  BY <1>7, <1>8
<1>10. Nobody \in Person \cup {Nobody} /\ {} \in SUBSET Spelling
  OBVIOUS
<1> QED
  BY ONLY RegistryInv, c \in Desk, given \in BOOLEAN, <1>2, <1>5, <1>6, <1>9, <1>10, NumbersTaken

LEMMA ImportStaffKeeps ==
    ASSUME RegistryInv, NEW c \in Desk, NEW file \in StaffFiles, BeginImportStaff(c, file)
    PROVE  RegistryInv'
<1> PICK rows : rows = ImportedRows(file).rows
  OBVIOUS
<1> PICK given \in BOOLEAN : given = (\E k \in DOMAIN file : file[k].code # NoCode)
  OBVIOUS
<1>1. TakeNumbers(c, Nobody, {}, rows, given)
  BY Zenon DEF BeginImportStaff
<1>2. GoodImport(ImportedRows(file), given)
  <2>1. file \in Seq([dept : Nat, code : Numbers \cup {NoCode}])
    BY FacultyAssumption
  <2>2. \A k \in DOMAIN file : given \/ file[k].code = NoCode
    BY Zenon
  <2>3. staffRows \in Seq(StaffRec)
    BY DEF RegistryInv, RegistryTyped
  <2> QED
    BY ONLY <2>1, <2>2, <2>3, given \in BOOLEAN, ImportedGood
<1>3. /\ rows \in Seq(StaffRec)
      /\ \A k \in DOMAIN rows : rows[k].live /\ rows[k].teacher = NoTeacher /\ InRange(rows[k])
      /\ OfTeaching(rows) # {} => given \/
            \E k \in OfTeaching(rows) : rows[k].code = NextCode(staffRows, Teaching)
  BY <1>2 DEF GoodImport
<1>4. Wellmade(rows)
  BY <1>3 DEF Wellmade
<1>5. ASSUME ~ given PROVE BeatenOrNot(rows, staffRows)
  <2>1. ASSUME OfTeaching(rows) # {} PROVE UpToDate(rows, staffRows)
    <3>1. \E k \in OfTeaching(rows) : rows[k].code = NextCode(staffRows, Teaching)
      BY <1>3, <1>5, <2>1
    <3> QED
      BY <1>3, <3>1 DEF UpToDate
  <2> QED
    BY <2>1 DEF BeatenOrNot
<1>6. given \/ (Wellmade(rows) /\ BeatenOrNot(rows, staffRows))
  BY <1>4, <1>5
<1>7. \A k \in DOMAIN rows :
        /\ rows[k].live /\ rows[k].teacher \in {NoTeacher, Self} \cup DOMAIN faculty
        /\ rows[k].teacher = Self => Nobody # Nobody
  <2>1. NoTeacher # Self
    BY DEF NoTeacher, Self
  <2> QED
    BY <1>3, <2>1
<1>8. Nobody \in Person \cup {Nobody} /\ {} \in SUBSET Spelling /\ rows \in Seq(StaffRec)
  BY <1>3
<1> QED
  BY ONLY RegistryInv, c \in Desk, given \in BOOLEAN, <1>1, <1>6, <1>7, <1>8, NumbersTaken

\* An upload of teachers.
LEMMA TeachersImported ==
    ASSUME faculty \in Seq(TeacherRec), NEW file \in TeacherFiles, ImportTeachers(file)
    PROVE  faculty' \in Seq(TeacherRec) /\ DOMAIN faculty \in SUBSET DOMAIN faculty'
<1> PICK named : named = {k \in DOMAIN file : file[k].who # Nobody}
  OBVIOUS
<1> PICK n : n = Cardinality(named)
  OBVIOUS
<1> PICK more : more = [k \in 1 .. n |-> [name |-> file[Nth(named, k)].who, live |-> TRUE]]
  OBVIOUS
<1>1. faculty' = faculty \o more
  BY DEF ImportTeachers
<1> PICK T : T = [who : Person \cup {Nobody}, names : SUBSET Spelling]
  OBVIOUS
<1>2. file \in Seq(T)
  BY FacultyAssumption
<1>3. DOMAIN file = 1 .. Len(file) /\ Len(file) \in Nat /\ \A k \in DOMAIN file : file[k] \in T
  BY ONLY <1>2
<1>4. named \in SUBSET Int /\ named \in SUBSET DOMAIN file
  BY <1>3
<1>5. IsFiniteSet(named) /\ n \in Nat
  <2>1. Len(file) \in Int /\ 1 \in Int
    BY <1>3
  <2>2. IsFiniteSet(1 .. Len(file))
    BY ONLY <2>1, FS_Interval
  <2>3. IsFiniteSet(DOMAIN file)
    BY <1>3, <2>2
  <2>4. IsFiniteSet(named) /\ Cardinality(named) \in Nat
    BY ONLY <1>4, <2>3, FS_Subset, FS_CardinalityType
  <2> QED
    BY <2>4
<1>6. ASSUME NEW k \in 1 .. n PROVE more[k] \in TeacherRec
  <2>1. k \in 1 .. Cardinality(named)
    OBVIOUS
  <2>2. Nth(named, k) \in named
    BY ONLY <1>4, <1>5, <2>1, NthIs
  <2> PICK j : j = Nth(named, k)
    OBVIOUS
  <2>3. file[j] \in T /\ file[j].who # Nobody
    BY <1>3, <2>2
  <2>4. file[j].who \in Person
    BY <2>3
  <2>5. more[k] = [name |-> file[j].who, live |-> TRUE]
    OBVIOUS
  <2> QED
    BY <2>4, <2>5 DEF TeacherRec
<1>7. more \in Seq(TeacherRec)
  <2>1. DOMAIN more = 1 .. n /\ more = [k \in 1 .. n |-> more[k]]
    OBVIOUS
  <2>2. more \in [1 .. n -> TeacherRec]
    BY ONLY <1>6, <2>1
  <2> QED
    BY ONLY <1>5, <2>2
<1> QED
  BY <1>1, <1>7, Joined

LEMMA RegistryStep ==
    ASSUME RegistryInv, [FacultyNext]_facultyVars
    PROVE  RegistryInv'
<1>0. /\ faculty \in Seq(TeacherRec) /\ staffRows \in Seq(StaffRec)
      /\ \A n \in DOMAIN staffRows : staffRows[n].teacher \in {NoTeacher} \cup DOMAIN faculty
  BY DEF RegistryInv, RegistryTyped
<1>1. ASSUME NEW c \in Desk, NEW who \in Person, NEW names \in SUBSET Spelling, BeginCreateTeacher(c, who, names)
      PROVE  RegistryInv'
  <2>1. TakeNumbers(c, who, names, Mirrors({Self}), FALSE) /\ who # Nobody /\ {Self} \in {{}, {Self}}
    BY <1>1, FacultyAssumption DEF BeginCreateTeacher
  <2> QED
    BY <2>1, MirrorKeeps
<1>2. ASSUME NEW c \in Desk, BeginSync(c) PROVE RegistryInv'
  <2>1. TakeNumbers(c, Nobody, {}, Mirrors({}), FALSE) /\ {} \in {{}, {Self}} /\ Self \notin {}
        /\ Nobody \in Person \cup {Nobody} /\ {} \in SUBSET Spelling
    BY <1>2 DEF BeginSync
  <2> QED
    BY <2>1, MirrorKeeps
<1>3. ASSUME NEW c \in Desk, NumberStep PROVE RegistryInv'
  BY <1>1, <1>2, <1>3, CreateStaffKeeps, ImportStaffKeeps, NumbersCommit DEF NumberStep
<1>4. ASSUME TeacherStep PROVE RegistryInv'
  <2>1. ASSUME NEW file \in TeacherFiles, ImportTeachers(file) PROVE RegistryInv'
    <3>1. faculty' \in Seq(TeacherRec) /\ DOMAIN faculty \in SUBSET DOMAIN faculty'
      BY <1>0, <2>1, TeachersImported
    <3>2. UNCHANGED <<staffRows, desk, byHand>>
      BY <2>1 DEF ImportTeachers, OfTeachers, OfOffice
    <3> QED
      BY <3>1, <3>2, TeachersKeep
  <2>2. ASSUME UNCHANGED <<faculty, staffRows, desk, byHand>> PROVE RegistryInv'
    <3>1. faculty' \in Seq(TeacherRec) /\ DOMAIN faculty \in SUBSET DOMAIN faculty'
      BY <1>0, <2>2
    <3>2. UNCHANGED <<staffRows, desk, byHand>>
      BY <2>2
    <3> QED
      BY <3>1, <3>2, TeachersKeep
  <2>3. ASSUME NEW t \in DOMAIN faculty, NEW who \in Person, UpdateTeacher(t, who) PROVE RegistryInv'
    <3>1. faculty' = [faculty EXCEPT ![t].name = who] /\ UNCHANGED <<staffRows, desk, byHand>>
      BY <2>3 DEF UpdateTeacher, OfTeachers, OfOffice
    <3> PICK old : old = faculty[t]
      OBVIOUS
    <3> PICK row : row = [old EXCEPT !.name = who]
      OBVIOUS
    <3>2. row \in TeacherRec
      <4>1. old \in TeacherRec
        BY <1>0
      <4> QED
        BY <4>1 DEF TeacherRec
    <3>3. faculty' = [faculty EXCEPT ![t] = row]
      BY <1>0, <3>1
    <3>4. faculty' \in Seq(TeacherRec) /\ DOMAIN faculty \in SUBSET DOMAIN faculty'
      BY <1>0, <3>2, <3>3
    <3> QED
      BY <3>1, <3>4, TeachersKeep
  <2>4. ASSUME NEW gone, faculty' = Without(faculty, gone), UNCHANGED <<staffRows, desk, byHand>> PROVE RegistryInv'
    <3>1. faculty' \in Seq(TeacherRec) /\ DOMAIN faculty \in SUBSET DOMAIN faculty'
      BY <1>0, <2>4, WithoutTeachers
    <3> QED
      BY <2>4, <3>1, TeachersKeep
  <2>5. ASSUME NEW t, DeleteTeacher(t) PROVE RegistryInv'
    BY <2>4, <2>5 DEF DeleteTeacher, OfTeachers, OfOffice
  <2>6. ASSUME NEW gone, DeleteTeachers(gone) PROVE RegistryInv'
    BY <2>4, <2>6 DEF DeleteTeachers, OfTeachers, OfOffice
  <2>7. ASSUME NEW t, NEW names, SetSubjects(t, names) PROVE RegistryInv'
    BY <2>2, <2>7 DEF SetSubjects, OfTeachers, OfOffice
  <2>8. ASSUME NEW t, NEW w, NEW sections, AssignSecondary(t, w, sections) PROVE RegistryInv'
    BY <2>2, <2>8 DEF AssignSecondary, OfOffice
  <2>9. ASSUME NEW m, RemoveSecondary(m) PROVE RegistryInv'
    BY <2>2, <2>9 DEF RemoveSecondary, OfTeachers, OfOffice
  <2>10. ASSUME NEW s, DropSubject(s) PROVE RegistryInv'
    BY <2>2, <2>10 DEF DropSubject, OfOffice
  <2> QED
    BY <1>4, <2>1, <2>3, <2>5, <2>6, <2>7, <2>8, <2>9, <2>10 DEF TeacherStep
<1>5. ASSUME StaffStep PROVE RegistryInv'
  <2>1. ASSUME NEW n \in DOMAIN staffRows, NEW d \in Depts, MoveStaff(n, d) PROVE RegistryInv'
    <3> PICK old : old = staffRows[n]
      OBVIOUS
    <3> PICK row : row = [old EXCEPT !.dept = d]
      OBVIOUS
    <3>1. /\ n \in Kept(staffRows) /\ staffRows' = [staffRows EXCEPT ![n] = row]
          /\ UNCHANGED <<faculty, desk>> /\ byHand' = TRUE
      BY <2>1 DEF MoveStaff, OfStaff, OfOffice, registry
    <3>2. row \in StaffRec /\ row.live /\ row.teacher = staffRows[n].teacher /\ row.code = staffRows[n].code
      <4>1. old \in StaffRec /\ old.live
        BY <1>0, <3>1 DEF Kept
      <4> QED
        BY <4>1 DEF StaffRec
    <3> QED
      BY <1>0, <3>1, <3>2, ByHandKeeps
  <2>2. ASSUME NEW n \in DOMAIN staffRows, NEW d \in Depts, NEW code \in Numbers, Renumber(n, d, code)
        PROVE  RegistryInv'
    <3> PICK b \in BOOLEAN : b = (code \notin NumbersOf(d))
      OBVIOUS
    <3> PICK old : old = staffRows[n]
      OBVIOUS
    <3> PICK row : row = [old EXCEPT !.dept = d, !.code = code, !.legacy = b]
      OBVIOUS
    <3>1. /\ n \in Kept(staffRows) /\ (code = staffRows[n].code \/ code \notin InUse(staffRows))
          /\ UNCHANGED <<faculty, desk>> /\ byHand' = TRUE
      BY <2>2 DEF Renumber, OfStaff, OfOffice, registry
    <3>2. staffRows' = [staffRows EXCEPT ![n] = row]
      <4>1. staffRows' = [staffRows EXCEPT ![n].dept = d, ![n].code = code, ![n].legacy = code \notin NumbersOf(d)]
        BY <2>2 DEF Renumber
      <4>2. staffRows' = [staffRows EXCEPT ![n].dept = d, ![n].code = code, ![n].legacy = b]
        BY <4>1, Zenon
      <4> QED
        BY <1>0, <4>2
    <3>3. code \in Nat \ {NoCode}
      <4>1. \A e \in Depts : NumbersOf(e) \in SUBSET (Nat \ {NoCode})
        BY RangesAre
      <4> QED
        BY <4>1 DEF Numbers
    <3>4. row \in StaffRec /\ row.live /\ row.teacher = staffRows[n].teacher /\ row.code = code
      <4>1. old \in StaffRec /\ old.live
        BY <1>0, <3>1 DEF Kept
      <4> QED
        BY <3>3, <4>1 DEF StaffRec
    <3> QED
      BY <1>0, <3>1, <3>2, <3>4, ByHandKeeps
  <2>3. ASSUME NEW n \in DOMAIN staffRows, NEW t \in (DOMAIN faculty) \cup {NoTeacher}, LinkTeacher(n, t)
        PROVE  RegistryInv'
    <3> PICK old : old = staffRows[n]
      OBVIOUS
    <3> PICK row : row = [old EXCEPT !.teacher = t]
      OBVIOUS
    <3>1. /\ n \in Kept(staffRows) /\ staffRows' = [staffRows EXCEPT ![n] = row]
          /\ UNCHANGED <<faculty, desk>> /\ byHand' = TRUE
      BY <2>3 DEF LinkTeacher, OfStaff, OfOffice, registry
    <3>2. t \in Int
      BY <1>0 DEF NoTeacher
    <3>3. row \in StaffRec /\ row.live /\ row.teacher = t /\ row.code = staffRows[n].code
      <4>1. old \in StaffRec /\ old.live
        BY <1>0, <3>1 DEF Kept
      <4> QED
        BY <3>2, <4>1 DEF StaffRec
    <3> QED
      BY <1>0, <3>1, <3>3, ByHandKeeps
  <2>4. ASSUME NEW gone, DeleteStaff(gone) PROVE RegistryInv'
    BY <2>4, DeleteKeeps
  <2> QED
    BY <1>5, <2>1, <2>2, <2>3, <2>4 DEF StaffStep
<1>6. ASSUME UNCHANGED facultyVars PROVE RegistryInv'
  <2>1. UNCHANGED <<staffRows, desk, byHand>> /\ faculty' = faculty
    BY <1>6 DEF facultyVars, registry
  <2> QED
    BY <1>0, <2>1, TeachersKeep
<1>7. ASSUME NumberStep PROVE RegistryInv'
  BY <1>3, <1>7 DEF NumberStep
<1> QED
  BY <1>4, <1>5, <1>6, <1>7 DEF FacultyNext

\* Rights go by the name, in every state.
LEMMA RightsByName == RightsAgree
<1> SUFFICES ASSUME NEW s \in Kept(catalogue), NEW t \in Kept(faculty), NEW b \in Section
             PROVE  /\ t \in Offered(s, b) <=> Teaches(t, s, b)
                    /\ TeachesAnywhere(t, s) <=> catalogue[s].name \in SubjectsShown(t)
  BY DEF RightsAgree
<1>1. t \in Offered(s, b) <=> Teaches(t, s, b)
  BY DEF Offered, Teaches, TeachesAnywhere, Siblings
<1>2. TeachesAnywhere(t, s) <=> catalogue[s].name \in SubjectsShown(t)
  BY DEF TeachesAnywhere, Siblings, SubjectsShown
<1> QED
  BY <1>1, <1>2

LEMMA RegistryIsSound == ASSUME RegistryInv PROVE FacultySound
<1>1. MirroredOnce
  BY DEF RegistryInv, RegistryCalm, TableCalm, MirroredOnce
<1>2. NumbersTold
  BY DEF RegistryInv, RegistryCalm, TableCalm, CodesApart, InRange, NumbersTold
<1> QED
  BY <1>1, <1>2, RightsByName DEF FacultySound

\* For any teachers, subjects, batches, uploads and sessions that overlap: the form, the
\* lock and the profile of a teacher agree on what the teacher may teach, no number of
\* the staff is given twice, and, until a person gives, changes or frees a number, every
\* teacher has one row at most and a row is marked as out of range when it is.
THEOREM FacultyIsSound == FacultyInit /\ [][FacultyNext]_facultyVars => []FacultySound
<1>1. FacultyInit => RegistryInv
  BY RegistryInit
<1>2. RegistryInv /\ [FacultyNext]_facultyVars => RegistryInv'
  BY RegistryStep
<1>3. RegistryInv => FacultySound
  BY RegistryIsSound
<1> QED
  BY <1>1, <1>2, <1>3, PTL

-----------------------------------------------------------------------------
(* The timetable: subjects and their courses.                                *)

\* A row of a subject; a table that kept its rows on their courses.
SubjectRec == [course : Programme, name : Spelling, live : BOOLEAN]
OnSameCourse(old, new) ==
    /\ DOMAIN old \in SUBSET DOMAIN new
    /\ \A s \in DOMAIN old : new[s].course = old[s].course

LEMMA EnsuredIs ==
    ASSUME NEW rows \in Seq(SubjectRec), NEW course \in Programme, NEW w \in Spelling,
           NEW found, found = Ensured(rows, course, w)
    PROVE  /\ found.rows \in Seq(SubjectRec) /\ OnSameCourse(rows, found.rows)
           /\ found.subject \in Nat
<1> PICK known : known = {s \in Kept(rows) : rows[s].course = course /\ Folded[rows[s].name] = Folded[w]}
  OBVIOUS
<1> PICK x : x = [course |-> course, name |-> w, live |-> TRUE]
  OBVIOUS
<1>1. found = IF known # {} THEN [rows |-> rows, subject |-> Min(known)]
              ELSE [rows |-> Append(rows, x), subject |-> Len(rows) + 1]
  BY DEF Ensured
<1>2. CASE known # {}
  <2>1. known \in SUBSET Nat
    BY DEF Kept
  <2>2. Min(known) \in known
    BY ONLY <1>2, <2>1, LeastIs
  <2>3. found.rows = rows /\ found.subject = Min(known)
    BY <1>1, <1>2
  <2> QED
    BY <2>1, <2>2, <2>3 DEF OnSameCourse
<1>3. CASE known = {}
  <2>1. found.rows = Append(rows, x) /\ found.subject = Len(rows) + 1 /\ x \in SubjectRec
    BY <1>1, <1>3 DEF SubjectRec
  <2>2. /\ found.rows \in Seq(SubjectRec) /\ DOMAIN rows \in SUBSET DOMAIN found.rows
        /\ \A s \in DOMAIN rows : found.rows[s] = rows[s]
    BY <2>1
  <2>3. found.subject \in Nat
    BY <2>1
  <2> QED
    BY <2>2, <2>3 DEF OnSameCourse
<1> QED
  BY <1>2, <1>3

\* Secondary subjects batch by batch, in an order nobody knows.
GivenTo(t, w, base, s, g) ==
    IF s = {} THEN base ELSE GivenIn(t, w, g[s \ {Member(s)}], Member(s))
Giving(t, w, base, S) == CHOOSE g : g = [s \in SUBSET S |-> GivenTo(t, w, base, s, g)]

LEMMA SecondaryKeeps ==
    ASSUME catalogue \in Seq(SubjectRec), NEW t, NEW w \in Spelling, NEW S \in SUBSET Section,
           AssignSecondary(t, w, S)
    PROVE  catalogue' \in Seq(SubjectRec) /\ OnSameCourse(catalogue, catalogue')
<1> PICK base, g : base = [rows |-> catalogue, pairs |-> {}] /\ g = Giving(t, w, base, S)
  OBVIOUS
<1> PICK P : P = {t} \X Nat \X Section
  OBVIOUS
<1> PICK A : A = {acc \in [rows : Seq(SubjectRec), pairs : SUBSET P] : OnSameCourse(catalogue, acc.rows)}
  OBVIOUS
<1> PICK pick : pick = [s \in SUBSET S |-> Member(s)]
  OBVIOUS
<1>1. IsFiniteSet(S)
  <2>1. IsFiniteSet(Section)
    BY FacultyAssumption
  <2> QED
    BY ONLY <2>1, S \in SUBSET Section, FS_Subset
<1>2. Picks(pick, S) /\ \A s \in SUBSET S : pick[s] = Member(s)
  BY MemberIs DEF Picks
<1>3. base \in A
  BY DEF OnSameCourse
<1>4. ASSUME NEW acc \in A, NEW b \in S PROVE GivenIn(t, w, acc, b) \in A
  <2> PICK found : found = Ensured(acc.rows, ProgrammeOf[b], w)
    OBVIOUS
  <2>1. acc.rows \in Seq(SubjectRec) /\ ProgrammeOf[b] \in Programme /\ OnSameCourse(catalogue, acc.rows)
    BY FacultyAssumption
  <2>2. found.rows \in Seq(SubjectRec) /\ OnSameCourse(acc.rows, found.rows) /\ found.subject \in Nat
    BY ONLY <2>1, w \in Spelling, found = Ensured(acc.rows, ProgrammeOf[b], w), EnsuredIs
  <2>3. OnSameCourse(catalogue, found.rows)
    BY <2>1, <2>2 DEF OnSameCourse
  <2> PICK pairs : pairs = acc.pairs \cup {<<t, found.subject, b>>}
    OBVIOUS
  <2>4. pairs \in SUBSET P
    BY <2>2
  <2>5. GivenIn(t, w, acc, b) = [rows |-> found.rows, pairs |-> pairs]
    BY DEF GivenIn
  <2> QED
    BY <2>2, <2>3, <2>4, <2>5
<1> PICK step : step = [p \in A \X S |-> GivenIn(t, w, p[1], p[2])]
  OBVIOUS
<1>5. step \in [A \X S -> A] /\ \A acc \in A, b \in S : step[<<acc, b>>] = GivenIn(t, w, acc, b)
  <2>1. \A p \in A \X S : p[1] \in A /\ p[2] \in S
    OBVIOUS
  <2>2. \A p \in A \X S : GivenIn(t, w, p[1], p[2]) \in A
    BY <1>4, <2>1
  <2>3. step = [p \in A \X S |-> GivenIn(t, w, p[1], p[2])]
    OBVIOUS
  <2>4. step \in [A \X S -> A]
    BY ONLY <2>2, <2>3
  <2>5. ASSUME NEW acc \in A, NEW b \in S PROVE step[<<acc, b>>] = GivenIn(t, w, acc, b)
    <3>1. <<acc, b>> \in A \X S /\ <<acc, b>>[1] = acc /\ <<acc, b>>[2] = b
      OBVIOUS
    <3> QED
      BY ONLY <2>3, <3>1
  <2> QED
    BY <2>4, <2>5
<1>6. PICK h \in [SUBSET S -> A] : \A s \in SUBSET S : h[s] = FoldAt(base, pick, step, s, h)
  <2>1. step \in [A \X S -> A]
    BY <1>5
  <2>2. Foldings(S, A, base, pick, step) # {}
    BY ONLY <1>1, <1>2, <1>3, <2>1, Folding
  <2> QED
    BY <2>2 DEF Foldings
<1>7. h = [s \in SUBSET S |-> GivenTo(t, w, base, s, h)]
  <2>1. ASSUME NEW s \in SUBSET S PROVE h[s] = GivenTo(t, w, base, s, h)
    <3>1. CASE s = {}
      BY <1>6, <3>1 DEF FoldAt, GivenTo
    <3>2. CASE s # {}
      <4>1. pick[s] \in S /\ h[s \ {pick[s]}] \in A /\ pick[s] = Member(s)
        BY <1>2, <3>2 DEF Picks
      <4> QED
        BY <1>5, <1>6, <3>2, <4>1 DEF FoldAt, GivenTo
    <3> QED
      BY <3>1, <3>2
  <2> QED
    BY <2>1
<1>8. g = [s \in SUBSET S |-> GivenTo(t, w, base, s, g)]
  BY <1>7 DEF Giving
<1> PICK G : G = {s \in SUBSET S : g[s] \in A}
  OBVIOUS
<1>9. {} \in G
  BY <1>3, <1>8 DEF GivenTo
<1>10. ASSUME NEW s \in SUBSET S, s # {}, (s \ {pick[s]}) \in G PROVE s \in G
  <2> PICK b, acc : b = pick[s] /\ acc = g[s \ {b}]
    OBVIOUS
  <2>1. b \in S /\ b = Member(s) /\ acc \in A
    BY <1>2, <1>10 DEF Picks
  <2>2. g[s] = GivenIn(t, w, acc, b)
    BY <1>8, <1>10, <2>1 DEF GivenTo
  <2>3. acc \in A /\ b \in S
    BY <2>1
  <2>4. GivenIn(t, w, acc, b) \in A
    BY ONLY <1>4, <2>3
  <2>5. g[s] \in A
    BY ONLY <2>2, <2>4
  <2> QED
    BY <2>5
<1>11. S \in G
  <2>1. Picks(pick, S)
    BY <1>2
  <2>2. Climbs(pick, S, G)
    BY <1>10 DEF Climbs
  <2> QED
    BY ONLY <1>1, <1>9, <2>1, <2>2, BySubsets
<1>12. catalogue' = g[S].rows
  BY DEF AssignSecondary, FoldSet, MapThenFoldSet, Giving, GivenTo, Member
<1> QED
  BY <1>11, <1>12

LEMMA WithoutSubjects ==
    ASSUME NEW table \in Seq(SubjectRec), NEW gone
    PROVE  Without(table, gone) \in Seq(SubjectRec) /\ OnSameCourse(table, Without(table, gone))
<1> PICK new : new = Without(table, gone)
  OBVIOUS
<1>1. new = [n \in DOMAIN table |-> IF n \in gone THEN [table[n] EXCEPT !.live = FALSE] ELSE table[n]]
  BY DEF Without
<1>2. DOMAIN new = DOMAIN table /\ new = [n \in DOMAIN table |-> new[n]]
  BY ONLY <1>1
<1>3. ASSUME NEW n \in DOMAIN table PROVE new[n] \in SubjectRec /\ new[n].course = table[n].course
  <2>1. table[n] \in SubjectRec
    OBVIOUS
  <2> PICK row : row = table[n]
    OBVIOUS
  <2>2. new[n] = IF n \in gone THEN [row EXCEPT !.live = FALSE] ELSE row
    BY <1>1
  <2> QED
    BY <2>1, <2>2 DEF SubjectRec
<1>4. new \in [DOMAIN table -> SubjectRec]
  BY <1>2, <1>3
<1>5. DOMAIN table = 1 .. Len(table) /\ Len(table) \in Nat
  OBVIOUS
<1>6. new \in Seq(SubjectRec)
  BY <1>4, <1>5
<1> QED
  BY <1>2, <1>3, <1>6 DEF OnSameCourse

\* Whatever happens in the registry, a subject stays on its course.
LEMMA SubjectsKeep ==
    ASSUME catalogue \in Seq(SubjectRec), [FacultyNext]_facultyVars
    PROVE  catalogue' \in Seq(SubjectRec) /\ OnSameCourse(catalogue, catalogue')
<1>1. ASSUME catalogue' = catalogue
      PROVE  catalogue' \in Seq(SubjectRec) /\ OnSameCourse(catalogue, catalogue')
  BY <1>1 DEF OnSameCourse
<1>2. ASSUME NumberStep PROVE catalogue' = catalogue
  BY <1>2 DEF NumberStep, BeginCreateTeacher, BeginSync, BeginCreateStaff, BeginImportStaff, CommitNumbers,
              TakeNumbers, registry
<1>3. ASSUME StaffStep PROVE catalogue' = catalogue
  BY <1>3 DEF StaffStep, MoveStaff, Renumber, LinkTeacher, DeleteStaff, OfStaff, registry
<1>4. ASSUME TeacherStep
      PROVE  catalogue' \in Seq(SubjectRec) /\ OnSameCourse(catalogue, catalogue')
  <2>1. ASSUME NEW file, ImportTeachers(file) PROVE catalogue' = catalogue
    BY <2>1 DEF ImportTeachers, OfTeachers
  <2>2. ASSUME NEW t, NEW who, UpdateTeacher(t, who) PROVE catalogue' = catalogue
    BY <2>2 DEF UpdateTeacher, OfTeachers
  <2>3. ASSUME NEW t, DeleteTeacher(t) PROVE catalogue' = catalogue
    BY <2>3 DEF DeleteTeacher, OfTeachers
  <2>4. ASSUME NEW t, NEW names, SetSubjects(t, names) PROVE catalogue' = catalogue
    BY <2>4 DEF SetSubjects, OfTeachers
  <2>5. ASSUME NEW gone, DeleteTeachers(gone) PROVE catalogue' = catalogue
    BY <2>5 DEF DeleteTeachers, OfTeachers
  <2>6. ASSUME NEW m, RemoveSecondary(m) PROVE catalogue' = catalogue
    BY <2>6 DEF RemoveSecondary, OfTeachers
  <2>7. ASSUME NEW s, DropSubject(s)
        PROVE  catalogue' \in Seq(SubjectRec) /\ OnSameCourse(catalogue, catalogue')
    <3>1. catalogue' = Without(catalogue, {s})
      BY <2>7 DEF DropSubject
    <3> QED
      BY <3>1, WithoutSubjects
  <2> QED
    BY <1>1, <1>4, <2>1, <2>2, <2>3, <2>4, <2>5, <2>6, <2>7, SecondaryKeeps DEF TeacherStep
<1>5. ASSUME UNCHANGED facultyVars PROVE catalogue' = catalogue
  BY <1>5 DEF facultyVars, registry
<1> QED
  BY <1>1, <1>2, <1>3, <1>4, <1>5 DEF FacultyNext

-----------------------------------------------------------------------------
(* The timetable: uploads.                                                   *)

\* A lecture of the timetable; lectures on subjects of their batches' courses.
LectureRec == [teacher : Nat, batch : STRING, subject : Nat, room : STRING,
               day : Nat, from : Nat, to : Nat, active : BOOLEAN]
OnCourse(rows, subjects) ==
    \A n \in DOMAIN rows : /\ rows[n].subject \in DOMAIN subjects
                            /\ subjects[rows[n].subject].course = ProgrammeOf[rows[n].batch]

\* Lectures of which none stands in the way of another, and of which none finds its
\* slot taken in the timetable.
Apart(rows) ==
    \A n \in DOMAIN rows : rows[n].active =>
        \A m \in 1..(n - 1) : rows[m].active => ~ Exclude(rows[n], rows[m])
Fit(lectures, table) == Apart(lectures) /\ \A k \in DOMAIN lectures : ~ Taken(lectures[k], table)

\* A lecture of the table in whose way this one stands.
InTheWay(l, table) == {n \in DOMAIN table : table[n].active /\ Exclude(l, table[n])}

LEMMA FreeOf ==
    ASSUME NEW l, NEW table, ~ Taken(l, table)
    PROVE  InTheWay(l, table) = {}
<1> SUFFICES ASSUME NEW n \in DOMAIN table, table[n].active, Exclude(l, table[n]) PROVE FALSE
  BY DEF InTheWay
<1>1. l.room \in Rooms => l.room # NoRoom
  BY TimetableAssumption
<1> QED
  BY <1>1 DEF Taken, Exclude

LEMMA TakenBy ==
    ASSUME NEW l, NEW table, l.room \in Rooms \cup {NoRoom}, Taken(l, table)
    PROVE  InTheWay(l, table) # {}
<1>1. PICK n \in DOMAIN table :
        /\ table[n].active /\ Overlap(l, table[n])
        /\ \/ l.teacher = table[n].teacher \/ l.batch = table[n].batch
           \/ l.room = table[n].room /\ l.room # NoRoom
  BY DEF Taken
<1>2. Exclude(l, table[n])
  BY <1>1 DEF Exclude
<1> QED
  BY <1>1, <1>2 DEF InTheWay

LEMMA TakenJoined ==
    ASSUME NEW l, NEW a \in Seq(LectureRec), NEW b \in Seq(LectureRec)
    PROVE  Taken(l, a \o b) <=> (Taken(l, a) \/ Taken(l, b))
<1> PICK ab : ab = a \o b
  OBVIOUS
<1> DEFINE By(row) == /\ row.active /\ Overlap(l, row)
                      /\ \/ l.teacher = row.teacher \/ l.batch = row.batch
                         \/ l.room = row.room /\ l.room # NoRoom
<1>1. \A rows : Taken(l, rows) <=> \E n \in DOMAIN rows : By(rows[n])
  BY DEF Taken
<1>2. /\ \A n \in DOMAIN a : ab[n] = a[n] /\ n \in DOMAIN ab
      /\ \A k \in DOMAIN b : ab[Len(a) + k] = b[k] /\ Len(a) + k \in DOMAIN ab
      /\ \A n \in DOMAIN ab : n \in DOMAIN a \/ \E k \in DOMAIN b : n = Len(a) + k
  BY Joined
<1> HIDE DEF By
<1>3. (\E n \in DOMAIN ab : By(ab[n])) <=> ((\E n \in DOMAIN a : By(a[n])) \/ (\E n \in DOMAIN b : By(b[n])))
  BY ONLY <1>2
<1> QED
  BY <1>1, <1>3

\* A row that resolves makes a lecture of a live teacher, on a subject of the course.
LEMMA LectureIs ==
    ASSUME faculty \in Seq(TeacherRec), catalogue \in Seq(SubjectRec),
           NEW row \in SheetRows, Resolves(row)
    PROVE  /\ LectureOf(row) \in LectureRec /\ LectureOf(row).active
           /\ LectureOf(row).room \in Rooms \cup {NoRoom}
           /\ LectureOf(row).subject \in DOMAIN catalogue
           /\ catalogue[LectureOf(row).subject].course = ProgrammeOf[LectureOf(row).batch]
<1> PICK ts, ss : ts = TeachersOf(row) /\ ss = SubjectsOf(row)
  OBVIOUS
<1>1. Cardinality(ts) = 1 /\ Cardinality(ss) = 1 /\ row.room \in Rooms \cup {NoRoom}
  BY DEF Resolves
<1>2. ts # {} /\ ss # {}
  <2>1. Cardinality({}) = 0
    BY FS_EmptySet
  <2>2. 0 # 1
    OBVIOUS
  <2> QED
    BY ONLY <1>1, <2>1, <2>2, Zenon
<1>3. ts \in SUBSET Nat
  <2>1. \A x \in ts : x \in Kept(faculty)
    BY DEF TeachersOf
  <2>2. \A x \in Kept(faculty) : x \in DOMAIN faculty
    BY DEF Kept
  <2>3. DOMAIN faculty \in SUBSET Nat
    OBVIOUS
  <2> QED
    BY <2>1, <2>2, <2>3
<1>4. ss \in SUBSET Nat /\ \A s \in ss : s \in DOMAIN catalogue /\ catalogue[s].course = ProgrammeOf[row.batch]
  BY DEF SubjectsOf, Kept
<1> PICK t, s : t = Min(ts) /\ s = Min(ss)
  OBVIOUS
<1>5. t \in ts
  BY ONLY <1>2, <1>3, t = Min(ts), LeastIs
<1>6. s \in ss
  BY ONLY <1>2, <1>4, s = Min(ss), LeastIs
<1>7. t \in Nat /\ s \in Nat
  BY <1>3, <1>4, <1>5, <1>6
<1>8. LectureOf(row) = [teacher |-> t, batch |-> row.batch, subject |-> s, room |-> row.room,
                        day |-> row.day, from |-> row.from, to |-> row.to, active |-> TRUE]
  BY DEF LectureOf
<1>9. /\ row.batch \in STRING /\ row.room \in STRING /\ row.day \in Nat /\ row.from \in Nat
      /\ row.to \in Nat
  BY DEF SheetRows
<1>10. LectureOf(row) \in LectureRec /\ LectureOf(row).active
  BY <1>7, <1>8, <1>9 DEF LectureRec
<1>11. /\ LectureOf(row).room = row.room /\ LectureOf(row).subject = s
       /\ LectureOf(row).batch = row.batch
  BY ONLY <1>8
<1> QED
  BY <1>1, <1>4, <1>6, <1>10, <1>11

\* The rows s of a file as an import has gone through them: the preview promised
\* those it took, one of them stands in the way of every promised row it did not
\* take, and the lectures it plans hold each other off nowhere.
Blockers(file, n, rows) == {m \in rows : m < n /\ Exclude(LectureOf(file[n]), LectureOf(file[m]))}
Sources(file, rows, l) == {m \in rows : l = LectureOf(file[m])}
GoodPlan(file, s, acc) ==
    /\ acc.lectures \in Seq(LectureRec) /\ acc.rows \in SUBSET s
    /\ \A n \in acc.rows : PreviewOk(file[n])
    /\ \A k \in DOMAIN acc.lectures :
          acc.lectures[k].active /\ Sources(file, acc.rows, acc.lectures[k]) # {}
    /\ \A n \in s \ acc.rows : PreviewOk(file[n]) => Blockers(file, n, acc.rows) # {}
    /\ Fit(acc.lectures, booked) /\ OnCourse(acc.lectures, catalogue)

\* A lecture with room for it after the others.
LEMMA FitOneMore ==
    ASSUME NEW a \in Seq(LectureRec), NEW l \in LectureRec, NEW table \in Seq(LectureRec),
           Fit(a, table), ~ Taken(l, table), ~ Taken(l, a),
           OnCourse(a, catalogue), l.subject \in DOMAIN catalogue,
           catalogue[l.subject].course = ProgrammeOf[l.batch]
    PROVE  Fit(Append(a, l), table) /\ OnCourse(Append(a, l), catalogue)
<1> PICK b : b = Append(a, l)
  OBVIOUS
<1>1. /\ DOMAIN a = 1 .. Len(a) /\ Len(a) \in Nat /\ DOMAIN b = 1 .. (Len(a) + 1)
      /\ b[Len(a) + 1] = l /\ \A n \in DOMAIN a : b[n] = a[n]
  OBVIOUS
<1>2. \A n \in DOMAIN b : n \in DOMAIN a \/ n = Len(a) + 1
  BY <1>1
<1>3. ASSUME NEW n \in DOMAIN b, b[n].active, NEW m \in 1..(n - 1), b[m].active, Exclude(b[n], b[m])
      PROVE  FALSE
  <2>1. m \in DOMAIN a /\ b[m] = a[m]
    BY <1>1
  <2>2. CASE n \in DOMAIN a
    <3>1. b[n] = a[n]
      BY <1>1, <2>2
    <3> QED
      BY <1>3, <2>1, <2>2, <3>1 DEF Fit, Apart
  <2>3. CASE n = Len(a) + 1
    <3>1. b[n] = l
      BY <1>1, <2>3
    <3>2. m \in InTheWay(l, a)
      BY <1>3, <2>1, <3>1 DEF InTheWay
    <3>3. InTheWay(l, a) = {}
      BY FreeOf
    <3> QED
      BY <3>2, <3>3
  <2> QED
    BY <1>2, <2>2, <2>3
<1>4. \A k \in DOMAIN b : ~ Taken(b[k], table)
  <2>1. \A k \in DOMAIN a : ~ Taken(a[k], table)
    BY DEF Fit
  <2>2. ~ Taken(b[Len(a) + 1], table)
    BY <1>1
  <2>3. \A k \in DOMAIN a : ~ Taken(b[k], table)
    BY <1>1, <2>1
  <2> QED
    BY <1>2, <2>2, <2>3
<1>5. Fit(b, table)
  BY <1>3, <1>4 DEF Fit, Apart
<1>6. OnCourse(b, catalogue)
  <2>1. ASSUME NEW n \in DOMAIN b
        PROVE  b[n].subject \in DOMAIN catalogue /\ catalogue[b[n].subject].course = ProgrammeOf[b[n].batch]
    <3>1. CASE n \in DOMAIN a
      BY <1>1, <3>1 DEF OnCourse
    <3>2. CASE n = Len(a) + 1
      <4>1. b[n] = l
        BY <1>1, <3>2
      <4> QED
        BY <4>1
    <3> QED
      BY <1>2, <3>1, <3>2
  <2> QED
    BY <2>1 DEF OnCourse
<1> QED
  BY <1>5, <1>6

\* The next row.
LEMMA AcceptKeeps ==
    ASSUME faculty \in Seq(TeacherRec), catalogue \in Seq(SubjectRec), booked \in Seq(LectureRec),
           NEW file \in Seq(SheetRows), NEW s \in SUBSET DOMAIN file,
           NEW n \in s, \A y \in s : n >= y,
           NEW acc, GoodPlan(file, s \ {n}, acc)
    PROVE  GoodPlan(file, s, AcceptRow(file, acc, n))
<1> PICK row, l, new, more, rows :
      /\ row = file[n] /\ l = LectureOf(row) /\ new = AcceptRow(file, acc, n)
      /\ more = Append(acc.lectures, l) /\ rows = acc.rows \cup {n}
  OBVIOUS
<1>1. row \in SheetRows /\ s \in SUBSET Nat
  <2>1. n \in DOMAIN file
    OBVIOUS
  <2>2. file[n] \in SheetRows
    BY ONLY file \in Seq(SheetRows), <2>1
  <2>3. DOMAIN file \in SUBSET Nat
    OBVIOUS
  <2> QED
    BY <2>2, <2>3
<1>2. /\ acc.lectures \in Seq(LectureRec) /\ acc.rows \in SUBSET (s \ {n})
      /\ \A m \in acc.rows : PreviewOk(file[m])
      /\ \A k \in DOMAIN acc.lectures :
            acc.lectures[k].active /\ Sources(file, acc.rows, acc.lectures[k]) # {}
      /\ \A m \in (s \ {n}) \ acc.rows : PreviewOk(file[m]) => Blockers(file, m, acc.rows) # {}
      /\ Fit(acc.lectures, booked) /\ OnCourse(acc.lectures, catalogue)
  BY DEF GoodPlan
<1>3. Taken(l, booked \o acc.lectures) <=> (Taken(l, booked) \/ Taken(l, acc.lectures))
  BY <1>2, TakenJoined
<1>4. \A m \in acc.rows : m < n /\ m # n
  BY <1>1, <1>2
<1>5. CASE Dated(row) /\ Resolves(row) /\ Schedulable(row, booked \o acc.lectures)
  <2>1. /\ l \in LectureRec /\ l.active /\ l.subject \in DOMAIN catalogue
        /\ catalogue[l.subject].course = ProgrammeOf[l.batch]
    BY <1>1, <1>5, LectureIs
  <2>2. ~ Taken(l, booked) /\ ~ Taken(l, acc.lectures)
    BY <1>3, <1>5 DEF Schedulable
  <2>3. Fit(more, booked) /\ OnCourse(more, catalogue)
    BY ONLY <1>2, <2>1, <2>2, booked \in Seq(LectureRec), more = Append(acc.lectures, l), FitOneMore
  <2>4. new = [lectures |-> more, rows |-> rows]
    BY <1>5 DEF AcceptRow
  <2>5. PreviewOk(row)
    BY <1>5, <2>2 DEF PreviewOk, Schedulable
  <2>6. more \in Seq(LectureRec) /\ rows \in SUBSET s
    BY <1>2, <2>1
  <2>7. \A m \in rows : PreviewOk(file[m])
    BY <1>2, <2>5
  <2>8. ASSUME NEW k \in DOMAIN more PROVE more[k].active /\ Sources(file, rows, more[k]) # {}
    <3>1. /\ \A j \in DOMAIN acc.lectures : more[j] = acc.lectures[j]
          /\ k \in DOMAIN acc.lectures \/ k = Len(acc.lectures) + 1
          /\ more[Len(acc.lectures) + 1] = l
      BY <1>2, <2>1
    <3>2. CASE k \in DOMAIN acc.lectures
      <4>1. more[k].active /\ Sources(file, acc.rows, more[k]) # {}
        BY <1>2, <3>1, <3>2
      <4> QED
        BY <4>1 DEF Sources
    <3>3. CASE k = Len(acc.lectures) + 1
      <4>1. more[k] = l /\ n \in rows /\ l = LectureOf(file[n])
        BY <3>1, <3>3
      <4>2. n \in Sources(file, rows, more[k])
        BY <4>1 DEF Sources
      <4> QED
        BY <2>1, <4>1, <4>2
    <3> QED
      BY <3>1, <3>2, <3>3
  <2>9. ASSUME NEW m \in s \ rows, PreviewOk(file[m]) PROVE Blockers(file, m, rows) # {}
    <3>1. Blockers(file, m, acc.rows) # {}
      BY <1>2, <2>9
    <3> QED
      BY <3>1 DEF Blockers
  <2>10. new.lectures = more /\ new.rows = rows
    BY ONLY <2>4
  <2> QED
    BY <2>3, <2>6, <2>7, <2>8, <2>9, <2>10 DEF GoodPlan
<1>6. CASE ~ (Dated(row) /\ Resolves(row) /\ Schedulable(row, booked \o acc.lectures))
  <2>1. new = acc
    BY <1>6 DEF AcceptRow
  <2>2. ASSUME PreviewOk(row) PROVE Blockers(file, n, acc.rows) # {}
    <3>1. /\ Dated(row) /\ Resolves(row) /\ Deliverable(row) /\ ~ Taken(l, booked)
          /\ Teaches(l.teacher, l.subject, l.batch) /\ <<l.teacher, l.day>> \notin away
      BY <2>2 DEF PreviewOk
    <3>2. Taken(l, acc.lectures)
      BY <1>3, <1>6, <3>1 DEF Schedulable
    <3>3. l.room \in Rooms \cup {NoRoom}
      BY <1>1, <3>1, LectureIs
    <3>4. InTheWay(l, acc.lectures) # {}
      BY <3>2, <3>3, TakenBy
    <3>5. PICK k \in DOMAIN acc.lectures : Exclude(l, acc.lectures[k])
      BY <3>4 DEF InTheWay
    <3>6. PICK m \in acc.rows : acc.lectures[k] = LectureOf(file[m])
      BY <1>2 DEF Sources
    <3> QED
      BY <1>4, <3>5, <3>6 DEF Blockers
  <2>3. ASSUME NEW m \in s \ acc.rows, PreviewOk(file[m]) PROVE Blockers(file, m, acc.rows) # {}
    BY <1>2, <2>2, <2>3
  <2> QED
    BY <1>2, <2>1, <2>3 DEF GoodPlan
<1> QED
  BY <1>5, <1>6

\* What an import takes of the rows in the set s, from what it took of those before the
\* last of them.
NothingAccepted == [lectures |-> <<>>, rows |-> {}]
Places(file) == [n \in DOMAIN file |-> n]
Taking(file, s, g) ==
    IF s = {} THEN NothingAccepted
    ELSE AcceptRow(file, g[s \ {Max(s)}], Places(file)[Max(s)])
Takings(file) == CHOOSE g : g = [s \in SUBSET DOMAIN file |-> Taking(file, s, g)]

LEMMA AcceptedGood ==
    ASSUME faculty \in Seq(TeacherRec), catalogue \in Seq(SubjectRec), booked \in Seq(LectureRec),
           NEW file \in Seq(SheetRows)
    PROVE  GoodPlan(file, DOMAIN file, Accepted(file))
<1> PICK S, g : S = DOMAIN file /\ g = Takings(file)
  OBVIOUS
<1> PICK A : A = [lectures : Seq(LectureRec), rows : SUBSET S]
  OBVIOUS
<1> PICK pick : pick = [s \in SUBSET S |-> Max(s)]
  OBVIOUS
<1>0. file \in Seq(SheetRows)
  OBVIOUS
<1>1. IsFiniteSet(S) /\ \A s \in SUBSET S : s # {} => pick[s] \in s /\ \A y \in s : pick[s] >= y
  BY <1>0, PlacesOf
<1>2. NothingAccepted \in A
  BY DEF NothingAccepted
<1>3. ASSUME NEW acc \in A, NEW x \in S PROVE AcceptRow(file, acc, x) \in A
  <2> PICK row, l, more, rows :
        /\ row = file[x] /\ l = LectureOf(row)
        /\ more = Append(acc.lectures, l) /\ rows = acc.rows \cup {x}
    OBVIOUS
  <2>1. row \in SheetRows
    <3>1. x \in DOMAIN file
      OBVIOUS
    <3>2. file[x] \in SheetRows
      BY ONLY <1>0, <3>1
    <3> QED
      BY <3>2
  <2>2. acc.lectures \in Seq(LectureRec) /\ acc.rows \in SUBSET S
    OBVIOUS
  <2>3. CASE Dated(row) /\ Resolves(row) /\ Schedulable(row, booked \o acc.lectures)
    <3>1. l \in LectureRec
      BY <2>1, <2>3, LectureIs
    <3>2. more \in Seq(LectureRec) /\ rows \in SUBSET S
      BY <2>2, <3>1
    <3>3. AcceptRow(file, acc, x) = [lectures |-> more, rows |-> rows]
      BY <2>3 DEF AcceptRow
    <3> QED
      BY <3>2, <3>3
  <2>4. CASE ~ (Dated(row) /\ Resolves(row) /\ Schedulable(row, booked \o acc.lectures))
    BY <2>4 DEF AcceptRow
  <2> QED
    BY <2>3, <2>4
<1> PICK step : step = [p \in A \X S |-> AcceptRow(file, p[1], p[2])]
  OBVIOUS
<1>4. step \in [A \X S -> A] /\ \A acc \in A, x \in S : step[<<acc, x>>] = AcceptRow(file, acc, x)
  <2>1. \A p \in A \X S : p[1] \in A /\ p[2] \in S
    OBVIOUS
  <2>2. \A p \in A \X S : AcceptRow(file, p[1], p[2]) \in A
    BY <1>3, <2>1
  <2>3. step = [p \in A \X S |-> AcceptRow(file, p[1], p[2])]
    OBVIOUS
  <2>4. step \in [A \X S -> A]
    BY ONLY <2>2, <2>3
  <2>5. ASSUME NEW acc \in A, NEW x \in S PROVE step[<<acc, x>>] = AcceptRow(file, acc, x)
    <3>1. <<acc, x>> \in A \X S /\ <<acc, x>>[1] = acc /\ <<acc, x>>[2] = x
      OBVIOUS
    <3> QED
      BY ONLY <2>3, <3>1
  <2> QED
    BY <2>4, <2>5
<1>5. PICK h \in [SUBSET S -> A] : \A s \in SUBSET S : h[s] = FoldAt(NothingAccepted, pick, step, s, h)
  <2>1. IsFiniteSet(S) /\ Picks(pick, S) /\ NothingAccepted \in A /\ step \in [A \X S -> A]
    BY <1>1, <1>2, <1>4 DEF Picks
  <2>2. Foldings(S, A, NothingAccepted, pick, step) # {}
    BY ONLY <2>1, Folding
  <2> QED
    BY <2>2 DEF Foldings
<1>6. h = [s \in SUBSET S |-> Taking(file, s, h)]
  <2>1. ASSUME NEW s \in SUBSET S PROVE h[s] = Taking(file, s, h)
    <3>1. CASE s = {}
      BY <1>5, <3>1 DEF FoldAt, Taking
    <3>2. CASE s # {}
      <4>1. /\ pick[s] \in S /\ h[s \ {pick[s]}] \in A /\ pick[s] = Max(s)
            /\ Places(file)[pick[s]] = pick[s]
        BY <1>1, <3>2 DEF Places
      <4> PICK x, rest : x = pick[s] /\ rest = h[s \ {x}]
        OBVIOUS
      <4>2. h[s] = step[<<rest, x>>]
        BY <1>5, <3>2 DEF FoldAt
      <4>3. step[<<rest, x>>] = AcceptRow(file, rest, x)
        BY <1>4, <4>1
      <4>4. Taking(file, s, h) = AcceptRow(file, rest, x)
        BY <3>2, <4>1 DEF Taking
      <4> QED
        BY <4>2, <4>3, <4>4
    <3> QED
      BY <3>1, <3>2
  <2> QED
    BY <2>1
<1>7. g = [s \in SUBSET S |-> Taking(file, s, g)]
  BY <1>6 DEF Takings
<1> PICK G : G = {s \in SUBSET S : GoodPlan(file, s, g[s])}
  OBVIOUS
<1>8. {} \in G
  <2>1. g[{}] = NothingAccepted
    BY <1>7 DEF Taking
  <2>2. /\ NothingAccepted.lectures = <<>> /\ NothingAccepted.rows = {} /\ <<>> \in Seq(LectureRec)
        /\ DOMAIN <<>> = {}
    BY DEF NothingAccepted
  <2>3. GoodPlan(file, {}, NothingAccepted)
    BY <2>2 DEF GoodPlan, Fit, Apart, OnCourse
  <2> QED
    BY <2>1, <2>3
<1>9. ASSUME NEW s \in SUBSET S, s # {}, (s \ {pick[s]}) \in G PROVE s \in G
  <2> PICK x, acc : x = pick[s] /\ acc = g[s \ {x}]
    OBVIOUS
  <2>1. x \in s /\ x = Max(s) /\ \A y \in s : x >= y
    BY <1>1, <1>9
  <2>2. g[s] = AcceptRow(file, acc, x)
    <3>1. Places(file)[Max(s)] = x
      BY <2>1 DEF Places
    <3> QED
      BY <1>7, <1>9, <2>1, <3>1 DEF Taking
  <2>3. GoodPlan(file, s \ {x}, acc) /\ s \in SUBSET DOMAIN file
    BY <1>9
  <2>4. GoodPlan(file, s, AcceptRow(file, acc, x))
    BY ONLY <1>0, <2>1, <2>3, faculty \in Seq(TeacherRec), catalogue \in Seq(SubjectRec),
            booked \in Seq(LectureRec), AcceptKeeps
  <2> QED
    BY <2>2, <2>4
<1>10. S \in G
  <2>1. Picks(pick, S)
    BY <1>1 DEF Picks
  <2>2. Climbs(pick, S, G)
    BY <1>9 DEF Climbs
  <2>3. IsFiniteSet(S)
    BY <1>1
  <2> QED
    BY ONLY <1>8, <2>1, <2>2, <2>3, BySubsets
<1>11. Accepted(file) = g[S]
  <2> PICK places : places = Places(file)
    OBVIOUS
  <2>1. DOMAIN places = S
    BY DEF Places
  <2>2. Accepted(file) = FoldLeft(LAMBDA acc, n : AcceptRow(file, acc, n), NothingAccepted, places)
    BY DEF Accepted, NothingAccepted, Places
  <2> QED
    BY <2>1, <2>2 DEF FoldLeft, MapThenFoldSet, Takings, Taking
<1> QED
  BY <1>10, <1>11

-----------------------------------------------------------------------------
(* The timetable: its steps.                                                 *)

\* The timetable, and the lectures that sessions are about to add to it.
Plan == [open : BOOLEAN, lectures : Seq(LectureRec)]
SheetsCalm ==
    Apart(booked) /\ \A c \in Desk : upload[c].open => Fit(upload[c].lectures, booked)
SheetsInv ==
    /\ RegistryInv /\ catalogue \in Seq(SubjectRec)
    /\ booked \in Seq(LectureRec) /\ upload \in [Desk -> Plan]
    /\ OnCourse(booked, catalogue)
    /\ \A c \in Desk : OnCourse(upload[c].lectures, catalogue)
    /\ overlap \/ SheetsCalm

LEMMA SheetsInit == ASSUME TimetableInit PROVE SheetsInv
<1>1. FacultyInit /\ booked = <<>> /\ upload = [c \in Desk |-> NoUpload]
  BY DEF TimetableInit
<1>2. RegistryInv
  BY <1>1, RegistryInit
<1>3. catalogue \in Seq(SubjectRec)
  <2>1. catalogue \in [1..2 -> [course : Programme, name : Spelling, live : {TRUE}]]
    BY <1>1 DEF FacultyInit
  <2>2. \A x \in [course : Programme, name : Spelling, live : {TRUE}] : x \in SubjectRec
    BY DEF SubjectRec
  <2>3. catalogue \in [1..2 -> SubjectRec]
    BY <2>1, <2>2
  <2>4. Seq(SubjectRec) = UNION {[1..n -> SubjectRec] : n \in Nat} /\ 2 \in Nat
    BY SeqDef
  <2> QED
    BY ONLY <2>3, <2>4
<1>4. <<>> \in Seq(LectureRec) /\ DOMAIN <<>> = {}
  OBVIOUS
<1>5. NoUpload \in Plan /\ NoUpload.lectures = <<>> /\ ~ NoUpload.open
  BY <1>4 DEF NoUpload, Plan
<1>6. upload \in [Desk -> Plan] /\ \A c \in Desk : upload[c].lectures = <<>> /\ ~ upload[c].open
  BY <1>1, <1>5
<1>7. OnCourse(<<>>, catalogue) /\ Apart(<<>>)
  BY <1>4 DEF OnCourse, Apart
<1>8. SheetsCalm
  BY <1>1, <1>6, <1>7 DEF SheetsCalm
<1> QED
  BY <1>1, <1>2, <1>3, <1>4, <1>6, <1>7, <1>8 DEF SheetsInv

\* Subjects stay on their courses, and so do the lectures.
LEMMA CoursesStay ==
    ASSUME NEW old \in Seq(SubjectRec), NEW new \in Seq(SubjectRec), OnSameCourse(old, new),
           NEW rows, OnCourse(rows, old)
    PROVE  OnCourse(rows, new)
BY DEF OnCourse, OnSameCourse

LEMMA UploadBegins ==
    ASSUME SheetsInv, NEW c \in Desk, NEW file \in Timetables, BeginUpload(c, file)
    PROVE  SheetsInv'
<1> PICK plan, one : plan = Accepted(file).lectures /\ one = [open |-> TRUE, lectures |-> plan]
  OBVIOUS
<1>1. /\ upload' = [upload EXCEPT ![c] = one] /\ UNCHANGED <<booked, overlap>>
      /\ UNCHANGED facultyVars
  BY DEF BeginUpload
<1>2. /\ RegistryInv /\ catalogue \in Seq(SubjectRec) /\ booked \in Seq(LectureRec)
      /\ upload \in [Desk -> Plan] /\ OnCourse(booked, catalogue)
      /\ \A d \in Desk : OnCourse(upload[d].lectures, catalogue)
      /\ faculty \in Seq(TeacherRec)
  BY DEF SheetsInv, RegistryInv, RegistryTyped
<1>3. file \in Seq(SheetRows)
  BY TimetableAssumption
<1>4. plan \in Seq(LectureRec) /\ Fit(plan, booked) /\ OnCourse(plan, catalogue)
  <2>1. GoodPlan(file, DOMAIN file, Accepted(file))
    BY ONLY <1>2, <1>3, AcceptedGood
  <2> QED
    BY <2>1 DEF GoodPlan
<1>5. RegistryInv' /\ catalogue' = catalogue
  <2>1. [FacultyNext]_facultyVars /\ catalogue' = catalogue
    BY <1>1 DEF facultyVars, registry
  <2> QED
    BY <1>2, <2>1, RegistryStep
<1>6. one \in Plan /\ one.lectures = plan
  BY <1>4 DEF Plan
<1>7. /\ upload' \in [Desk -> Plan] /\ upload'[c] = one
      /\ \A d \in Desk : d # c => upload'[d] = upload[d]
  BY <1>1, <1>2, <1>6
<1>8. \A d \in Desk : OnCourse(upload'[d].lectures, catalogue)
  BY <1>2, <1>4, <1>6, <1>7
<1>9. SheetsCalm => SheetsCalm'
  <2>1. ASSUME SheetsCalm, NEW d \in Desk, upload'[d].open PROVE Fit(upload'[d].lectures, booked)
    BY <1>4, <1>6, <1>7, <2>1 DEF SheetsCalm
  <2>2. ASSUME SheetsCalm PROVE Apart(booked)
    BY <2>2 DEF SheetsCalm
  <2>3. booked' = booked
    BY <1>1
  <2> QED
    BY <2>1, <2>2, <2>3 DEF SheetsCalm, Fit, Apart, Taken, Exclude, Overlap
<1>10. overlap' \/ SheetsCalm'
  <2>1. overlap' = overlap
    BY <1>1
  <2>2. overlap \/ SheetsCalm
    BY DEF SheetsInv
  <2> QED
    BY <1>9, <2>1, <2>2
<1>11. booked' = booked
  BY <1>1
<1> QED
  BY <1>2, <1>5, <1>7, <1>8, <1>10, <1>11 DEF SheetsInv, OnCourse

\* Two timetables one after the other.
LEMMA ApartJoined ==
    ASSUME NEW a \in Seq(LectureRec), NEW b \in Seq(LectureRec), Apart(a), Fit(b, a)
    PROVE  Apart(a \o b)
<1> PICK ab : ab = a \o b
  OBVIOUS
<1>1. /\ DOMAIN a = 1 .. Len(a) /\ Len(a) \in Nat /\ DOMAIN b = 1 .. Len(b) /\ Len(b) \in Nat
      /\ DOMAIN ab = 1 .. (Len(a) + Len(b))
      /\ \A n \in DOMAIN a : ab[n] = a[n]
      /\ \A k \in DOMAIN b : ab[Len(a) + k] = b[k]
      /\ \A n \in DOMAIN ab : n \in DOMAIN a \/ \E k \in DOMAIN b : n = Len(a) + k
  BY Joined
<1>2. ASSUME NEW n \in DOMAIN ab, ab[n].active, NEW m \in 1..(n - 1), ab[m].active, Exclude(ab[n], ab[m])
      PROVE  FALSE
  <2>1. m \in DOMAIN ab
    BY <1>1
  <2>2. CASE n \in DOMAIN a
    <3>1. m \in DOMAIN a
      BY <1>1, <2>2
    <3>2. ab[n] = a[n] /\ ab[m] = a[m]
      BY <1>1, <2>2, <3>1
    <3> QED
      BY <1>2, <2>2, <3>2 DEF Apart
  <2>3. ASSUME NEW k \in DOMAIN b, n = Len(a) + k PROVE FALSE
    <3>1. ab[n] = b[k]
      BY <1>1, <2>3
    <3>2. CASE m \in DOMAIN a
      <4>1. m \in InTheWay(b[k], a)
        BY <1>1, <1>2, <3>1, <3>2 DEF InTheWay
      <4>2. InTheWay(b[k], a) = {}
        BY FreeOf DEF Fit
      <4> QED
        BY <4>1, <4>2
    <3>3. ASSUME NEW j \in DOMAIN b, m = Len(a) + j PROVE FALSE
      <4>1. ab[m] = b[j] /\ j \in 1..(k - 1)
        BY <1>1, <2>3, <3>3
      <4> QED
        BY <1>2, <3>1, <4>1 DEF Fit, Apart
    <3> QED
      BY <1>1, <2>1, <3>2, <3>3
  <2> QED
    BY <1>1, <2>2, <2>3
<1> QED
  BY <1>2 DEF Apart

LEMMA UploadEnds ==
    ASSUME SheetsInv, NEW c \in Desk, CommitUpload(c)
    PROVE  SheetsInv'
<1> PICK plan, all : plan = upload[c].lectures /\ all = booked \o plan
  OBVIOUS
<1>1. /\ upload[c].open /\ booked' = all /\ upload' = [upload EXCEPT ![c] = NoUpload]
      /\ overlap' = (overlap \/ (plan # <<>> /\ \E d \in Desk \ {c} : upload[d].open))
      /\ UNCHANGED facultyVars
  BY DEF CommitUpload
<1>2. /\ RegistryInv /\ catalogue \in Seq(SubjectRec) /\ booked \in Seq(LectureRec)
      /\ upload \in [Desk -> Plan] /\ OnCourse(booked, catalogue)
      /\ \A d \in Desk : OnCourse(upload[d].lectures, catalogue)
  BY DEF SheetsInv
<1>3. RegistryInv' /\ catalogue' = catalogue
  <2>1. [FacultyNext]_facultyVars /\ catalogue' = catalogue
    BY <1>1 DEF facultyVars, registry
  <2> QED
    BY <1>2, <2>1, RegistryStep
<1>4. <<>> \in Seq(LectureRec) /\ DOMAIN <<>> = {}
  OBVIOUS
<1>5. NoUpload \in Plan /\ NoUpload.lectures = <<>> /\ NoUpload.open = FALSE
  BY <1>4 DEF NoUpload, Plan
<1>6. /\ upload' \in [Desk -> Plan] /\ upload'[c] = NoUpload
      /\ \A d \in Desk : d # c => upload'[d] = upload[d]
  BY <1>1, <1>2, <1>5
<1>7. \A d \in Desk : OnCourse(upload'[d].lectures, catalogue)
  <2>1. OnCourse(upload'[c].lectures, catalogue)
    BY <1>4, <1>5, <1>6 DEF OnCourse
  <2> QED
    BY <1>2, <1>6, <2>1
<1>8. plan \in Seq(LectureRec) /\ OnCourse(plan, catalogue)
  <2>1. upload[c] \in Plan
    BY <1>2
  <2> QED
    BY <1>2, <2>1 DEF Plan
<1>9. all \in Seq(LectureRec) /\ OnCourse(all, catalogue)
  <2>1. /\ all \in Seq(LectureRec)
        /\ \A n \in DOMAIN booked : all[n] = booked[n]
        /\ \A k \in DOMAIN plan : all[Len(booked) + k] = plan[k]
        /\ \A n \in DOMAIN all : n \in DOMAIN booked \/ \E k \in DOMAIN plan : n = Len(booked) + k
    BY <1>2, <1>8, Joined
  <2>2. ASSUME NEW n \in DOMAIN all
        PROVE  all[n].subject \in DOMAIN catalogue /\ catalogue[all[n].subject].course = ProgrammeOf[all[n].batch]
    <3>1. CASE n \in DOMAIN booked
      BY <1>2, <2>1, <3>1 DEF OnCourse
    <3>2. ASSUME NEW k \in DOMAIN plan, n = Len(booked) + k
          PROVE  all[n].subject \in DOMAIN catalogue /\ catalogue[all[n].subject].course = ProgrammeOf[all[n].batch]
      <4>1. all[n] = plan[k]
        BY <2>1, <3>2
      <4> QED
        BY <1>8, <4>1 DEF OnCourse
    <3> QED
      BY <2>1, <3>1, <3>2
  <2> QED
    BY <2>1, <2>2 DEF OnCourse
<1>10. ASSUME SheetsCalm PROVE overlap' \/ SheetsCalm'
  <2>1. Apart(booked) /\ Fit(plan, booked)
    BY <1>1, <1>10 DEF SheetsCalm
  <2>2. Apart(all)
    BY ONLY <1>2, <1>8, <2>1, all = booked \o plan, ApartJoined
  <2>3. CASE plan = <<>>
    <3>1. all = booked
      BY <1>2, <2>3
    <3>2. ASSUME NEW d \in Desk, upload'[d].open PROVE Fit(upload'[d].lectures, all)
      <4>1. d # c
        BY <1>5, <1>6, <3>2
      <4>2. upload'[d] = upload[d]
        BY <1>6, <4>1
      <4> QED
        BY <1>10, <3>1, <3>2, <4>2 DEF SheetsCalm
    <3> PICK later : later = upload'
      OBVIOUS
    <3>3. booked' = all /\ upload' = later /\ \A d \in Desk : later[d].open => Fit(later[d].lectures, all)
      BY <1>1, <3>2
    <3>4. Apart(booked') /\ \A d \in Desk : upload'[d].open => Fit(upload'[d].lectures, booked')
      BY <2>2, <3>3
    <3>5. SheetsCalm'
      BY ONLY <3>4 DEF SheetsCalm
    <3> QED
      BY <3>5
  <2>4. CASE \E d \in Desk \ {c} : upload[d].open
    <3>1. CASE plan # <<>>
      BY <1>1, <2>4, <3>1, Zenon
    <3> QED
      BY <2>3, <3>1
  <2>5. CASE ~ \E d \in Desk \ {c} : upload[d].open
    <3>1. \A d \in Desk : ~ upload'[d].open
      BY <1>5, <1>6, <2>5
    <3> PICK later : later = upload'
      OBVIOUS
    <3>2. booked' = all /\ upload' = later /\ \A d \in Desk : ~ later[d].open
      BY <1>1, <3>1
    <3>3. Apart(booked') /\ \A d \in Desk : ~ upload'[d].open
      BY <2>2, <3>2
    <3>4. SheetsCalm'
      BY ONLY <3>3 DEF SheetsCalm
    <3> QED
      BY <3>4
  <2> QED
    BY <2>4, <2>5
<1>11. overlap' \/ SheetsCalm'
  <2>1. CASE overlap
    BY <1>1, <2>1, Zenon
  <2>2. overlap \/ SheetsCalm
    BY DEF SheetsInv
  <2> QED
    BY <1>10, <2>1, <2>2
<1> QED
  BY <1>1, <1>2, <1>3, <1>6, <1>7, <1>9, <1>11 DEF SheetsInv, OnCourse

\* A slot that is free leaves nothing in the way.
LEMMA LectureCloses ==
    ASSUME SheetsInv, NEW n \in DOMAIN booked, CloseLecture(n)
    PROVE  SheetsInv'
<1> PICK old, row, new : old = booked[n] /\ row = [old EXCEPT !.active = FALSE] /\ new = booked'
  OBVIOUS
<1>1. /\ new = [booked EXCEPT ![n] = row] /\ UNCHANGED <<upload, overlap>> /\ UNCHANGED facultyVars
  BY DEF CloseLecture
<1>2. /\ RegistryInv /\ catalogue \in Seq(SubjectRec) /\ booked \in Seq(LectureRec)
      /\ upload \in [Desk -> Plan] /\ OnCourse(booked, catalogue)
      /\ \A d \in Desk : OnCourse(upload[d].lectures, catalogue)
  BY DEF SheetsInv
<1>3. RegistryInv' /\ catalogue' = catalogue
  <2>1. [FacultyNext]_facultyVars /\ catalogue' = catalogue
    BY <1>1 DEF facultyVars, registry
  <2> QED
    BY <1>2, <2>1, RegistryStep
<1>4. old \in LectureRec
  <2>1. booked \in Seq(LectureRec) /\ n \in DOMAIN booked
    BY <1>2
  <2>2. booked[n] \in LectureRec
    BY ONLY <2>1
  <2> QED
    BY <2>2
<1>5. /\ row \in LectureRec /\ row.active = FALSE /\ row.subject = old.subject /\ row.batch = old.batch
  BY <1>4 DEF LectureRec
<1>6. /\ new \in Seq(LectureRec) /\ DOMAIN new = DOMAIN booked /\ new[n] = row
      /\ \A m \in DOMAIN booked : m # n => new[m] = booked[m]
  BY <1>1, <1>2, <1>5
<1>7. OnCourse(new, catalogue)
  <2>1. ASSUME NEW m \in DOMAIN booked
        PROVE  /\ new[m].subject = booked[m].subject /\ new[m].batch = booked[m].batch
    <3>1. CASE m = n
      BY <1>5, <1>6, <3>1
    <3>2. CASE m # n
      BY <1>6, <3>2
    <3> QED
      BY <3>1, <3>2
  <2>2. \A m \in DOMAIN booked :
           booked[m].subject \in DOMAIN catalogue /\ catalogue[booked[m].subject].course = ProgrammeOf[booked[m].batch]
    BY <1>2 DEF OnCourse
  <2>3. \A m \in DOMAIN booked :
           new[m].subject \in DOMAIN catalogue /\ catalogue[new[m].subject].course = ProgrammeOf[new[m].batch]
    BY <2>1, <2>2
  <2> QED
    BY <1>6, <2>3 DEF OnCourse
<1>8. \A m \in DOMAIN new : new[m].active => m # n /\ m \in DOMAIN booked /\ new[m] = booked[m]
  BY <1>5, <1>6
<1>9. ASSUME Apart(booked) PROVE Apart(new)
  <2>1. ASSUME NEW k \in DOMAIN new, new[k].active, NEW m \in 1..(k - 1), new[m].active,
               Exclude(new[k], new[m])
        PROVE  FALSE
    <3>1. m \in DOMAIN new
      BY <1>2, <1>6
    <3>2. new[k] = booked[k] /\ new[m] = booked[m] /\ k \in DOMAIN booked
      BY <1>8, <2>1, <3>1
    <3> QED
      BY <1>9, <2>1, <3>2 DEF Apart
  <2> QED
    BY <2>1 DEF Apart
<1>10. ASSUME NEW l, ~ Taken(l, booked) PROVE ~ Taken(l, new)
  BY <1>8, <1>10 DEF Taken
<1>11. ASSUME NEW rows, Fit(rows, booked) PROVE Fit(rows, new)
  BY <1>10, <1>11 DEF Fit
<1>12. ASSUME SheetsCalm PROVE SheetsCalm'
  <2>1. Apart(new) /\ \A d \in Desk : upload[d].open => Fit(upload[d].lectures, new)
    BY <1>9, <1>11, <1>12 DEF SheetsCalm
  <2>2. booked' = new /\ upload' = upload
    BY <1>1
  <2> QED
    BY <2>1, <2>2 DEF SheetsCalm, Fit, Apart, Taken, Exclude, Overlap
<1>13. overlap' \/ SheetsCalm'
  BY <1>1, <1>12 DEF SheetsInv
<1> QED
  BY <1>1, <1>2, <1>3, <1>6, <1>7, <1>13 DEF SheetsInv, OnCourse

\* Whatever else happens.
LEMMA SheetsKeep ==
    ASSUME SheetsInv, [FacultyNext]_facultyVars, UNCHANGED <<booked, upload, overlap>>
    PROVE  SheetsInv'
<1>1. /\ RegistryInv /\ catalogue \in Seq(SubjectRec) /\ booked \in Seq(LectureRec)
      /\ upload \in [Desk -> Plan] /\ OnCourse(booked, catalogue)
      /\ \A d \in Desk : OnCourse(upload[d].lectures, catalogue)
      /\ overlap \/ SheetsCalm
  BY DEF SheetsInv
<1>2. RegistryInv'
  BY <1>1, RegistryStep
<1>3. catalogue' \in Seq(SubjectRec) /\ OnSameCourse(catalogue, catalogue')
  BY <1>1, SubjectsKeep
<1>4. OnCourse(booked, catalogue') /\ \A d \in Desk : OnCourse(upload[d].lectures, catalogue')
  BY <1>1, <1>3, CoursesStay
<1>5. booked' = booked /\ upload' = upload /\ overlap' = overlap
  OBVIOUS
<1>6. SheetsCalm => SheetsCalm'
  BY <1>5 DEF SheetsCalm, Fit, Apart, Taken, Exclude, Overlap
<1> QED
  BY <1>1, <1>2, <1>3, <1>4, <1>5, <1>6 DEF SheetsInv, OnCourse

LEMMA SheetsStep == ASSUME SheetsInv, [TimetableNext]_timetableVars PROVE SheetsInv'
<1>1. ASSUME NEW t, NEW day, GrantLeave(t, day) PROVE SheetsInv'
  <2>1. [FacultyNext]_facultyVars /\ UNCHANGED <<booked, upload, overlap>>
    BY <1>1 DEF GrantLeave
  <2> QED
    BY <2>1, SheetsKeep
<1>2. ASSUME SheetStep PROVE SheetsInv'
  BY <1>1, <1>2, UploadBegins, UploadEnds, LectureCloses DEF SheetStep
<1>3. ASSUME FacultyNext, UNCHANGED sheetVars PROVE SheetsInv'
  <2>1. [FacultyNext]_facultyVars /\ UNCHANGED <<booked, upload, overlap>>
    BY <1>3 DEF sheetVars
  <2> QED
    BY <2>1, SheetsKeep
<1>4. ASSUME UNCHANGED timetableVars PROVE SheetsInv'
  <2>1. [FacultyNext]_facultyVars /\ UNCHANGED <<booked, upload, overlap>>
    BY <1>4 DEF timetableVars, sheetVars
  <2> QED
    BY <2>1, SheetsKeep
<1> QED
  BY <1>2, <1>3, <1>4 DEF TimetableNext

LEMMA SheetsAreSound == ASSUME SheetsInv PROVE TimetableSound
<1>1. /\ faculty \in Seq(TeacherRec) /\ catalogue \in Seq(SubjectRec) /\ booked \in Seq(LectureRec)
      /\ OnCourse(booked, catalogue) /\ (overlap \/ SheetsCalm)
  BY DEF SheetsInv, RegistryInv, RegistryTyped
<1>2. PreviewKept
  <2>1. ASSUME NEW file \in Timetables
        PROVE  /\ Accepted(file).rows \subseteq Previewed(file)
               /\ \A n \in Previewed(file) \ Accepted(file).rows : \E m \in Previewed(file) :
                     m < n /\ Exclude(LectureOf(file[n]), LectureOf(file[m]))
    <3> PICK acc, S : acc = Accepted(file) /\ S = DOMAIN file
      OBVIOUS
    <3>1. file \in Seq(SheetRows)
      BY TimetableAssumption
    <3>2. GoodPlan(file, S, acc)
      BY ONLY <1>1, <3>1, acc = Accepted(file) /\ S = DOMAIN file, AcceptedGood
    <3>3. acc.rows \in SUBSET S /\ \A n \in acc.rows : PreviewOk(file[n])
      BY <3>2 DEF GoodPlan
    <3>4. acc.rows \subseteq Previewed(file)
      BY <3>3 DEF Previewed
    <3>5. ASSUME NEW n \in Previewed(file) \ acc.rows
          PROVE  \E m \in Previewed(file) : m < n /\ Exclude(LectureOf(file[n]), LectureOf(file[m]))
      <4>1. n \in S \ acc.rows /\ PreviewOk(file[n])
        BY DEF Previewed
      <4>2. Blockers(file, n, acc.rows) # {}
        BY <3>2, <4>1 DEF GoodPlan
      <4> QED
        BY <3>4, <4>2 DEF Blockers
    <3> QED
      BY <3>4, <3>5
  <2> QED
    BY <2>1 DEF PreviewKept
<1>3. SheetsNeverDoubleBook
  BY <1>1 DEF SheetsCalm, Apart, SheetsNeverDoubleBook
<1>4. CourseOfBatch
  BY <1>1 DEF OnCourse, CourseOfBatch
<1> QED
  BY <1>2, <1>3, <1>4 DEF TimetableSound

\* For any timetables, teachers, subjects, batches and rooms: an import takes what its
\* preview promised and leaves a promised row out only for another of the file, what it
\* plans is on the course of its batch, and unless the timetable changed under an
\* import, nobody and no room is booked twice at one time.
THEOREM TimetableIsSound == TimetableInit /\ [][TimetableNext]_timetableVars => []TimetableSound
<1>1. TimetableInit => SheetsInv
  BY SheetsInit
<1>2. SheetsInv /\ [TimetableNext]_timetableVars => SheetsInv'
  BY SheetsStep
<1>3. SheetsInv => TimetableSound
  BY SheetsAreSound
<1> QED
  BY <1>1, <1>2, <1>3, PTL
=============================================================================
