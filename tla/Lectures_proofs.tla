---------------------------- MODULE Lectures_proofs ----------------------------
(***************************************************************************)
(* For any teachers, batches, rooms and timetables and any number of       *)
(* lectures: nobody is planned twice, the outcome of a lecture stands, and *)
(* what the desks show of it is true, whatever is planned, moved, copied,  *)
(* generated, given up and deleted, and whatever happens to leave.         *)
(* The test on admission looks at the lectures that occupy somebody at     *)
(* that moment; it suffices because no step makes a lecture occupy anybody *)
(* again, and only a step that tests once more moves one.                  *)
(*                                                                         *)
(* Leave comes first: for any teachers, clerks, ranges, quotas and         *)
(* holidays, and any number of requests one after the other, leave that    *)
(* was asked for never overlaps, the calendar has a day once, and what was *)
(* settled stays so.  A request that tests and then writes keeps what it   *)
(* tested as long as no other request was under way beside it; that is     *)
(* what "raced" records.                                                   *)
(*                                                                         *)
(* At the end, what is reported of the students: the registers of their    *)
(* days, and how they stand by their records and their marks.              *)
(***************************************************************************)
EXTENDS LectureReports, Standing, Sums_proofs, SequenceTheorems, TLAPS

Statuses == {"pending", "approved", "rejected", "cancelled"}
LeaveRow == [teacher: Teacher, from: Nat, to: Nat, type: LeaveType, half: BOOLEAN,
             status: Statuses, own: BOOLEAN, deleted: BOOLEAN]

RowOK(l) == l \in LeaveRow /\ l.from <= l.to /\ (l.half => l.from = l.to)

IsApply(q) ==
    /\ q = [kind |-> "apply", leave |-> q.leave] /\ RowOK(q.leave)
    /\ q.leave.own /\ q.leave.status = "pending" /\ ~ q.leave.deleted
IsSettle(q) ==
    /\ q = [kind |-> "settle", leave |-> q.leave, verdict |-> q.verdict]
    /\ q.leave \in DOMAIN leaves /\ q.verdict \in Statuses \ {"pending"}
IsHoliday(q) == q = [kind |-> "holiday", day |-> q.day] /\ q.day \in Holidays

RequestOK(q) == q = Free \/ IsApply(q) \/ IsSettle(q) \/ IsHoliday(q)

\* The tables, and the requests under way.
Typed ==
    /\ leaves \in Seq(LeaveRow) /\ \A n \in DOMAIN leaves : RowOK(leaves[n])
    /\ DOMAIN quota = QuotaType
    /\ \A t \in QuotaType : quota[t] \in Quotas \cup {NoQuota}
    /\ holidays \in Seq(Holidays)
    /\ DOMAIN desk = Clerk
    /\ \A c \in Clerk : RequestOK(desk[c])
    /\ raced \in BOOLEAN

\* The leave that counts: asked for, not refused, not withdrawn.
Standing(n) == leaves[n].own /\ leaves[n].status \in Active /\ ~ leaves[n].deleted

DaysApart ==
    \A m, n \in DOMAIN leaves :
        (m # n /\ leaves[m].teacher = leaves[n].teacher /\ Standing(m) /\ Standing(n))
            => ~ Overlap(leaves[m], leaves[n])

\* What the request of c found when it tested is still so.
StillSo(c) ==
    /\ desk[c].kind = "apply" => ~ OverlapsActive(desk[c].leave) /\ WithinQuota(desk[c].leave)
    /\ desk[c].kind = "settle" => leaves[desk[c].leave].status = "pending"
    /\ desk[c].kind = "holiday" => desk[c].day \notin ToSet(holidays)

\* One request at a time, as long as none raced.
Calm ==
    ~ raced => /\ \A c, x \in Clerk : desk[c] # Free /\ desk[x] # Free => c = x
               /\ \A c \in Clerk : StillSo(c)
               /\ DaysApart
               /\ IsInjective(holidays)

-----------------------------------------------------------------------------
(* Tables.                                                                  *)

LEMMA AppendFacts ==
    ASSUME NEW S, NEW s \in Seq(S), NEW e \in S
    PROVE  /\ Append(s, e) \in Seq(S)
           /\ DOMAIN s = 1 .. Len(s) /\ Len(s) \in Nat
           /\ DOMAIN Append(s, e) = 1 .. Len(s) + 1
           /\ \A i \in 1 .. Len(s) : Append(s, e)[i] = s[i]
           /\ Append(s, e)[Len(s) + 1] = e
OBVIOUS

\* Taking out one element keeps the others, each once.
LEMMA RemoveAtFacts ==
    ASSUME NEW S, NEW s \in Seq(S), NEW i \in DOMAIN s
    PROVE  /\ RemoveAt(s, i) \in Seq(S)
           /\ Len(RemoveAt(s, i)) = Len(s) - 1
           /\ ToSet(RemoveAt(s, i)) \subseteq ToSet(s)
           /\ IsInjective(s) => IsInjective(RemoveAt(s, i))
<1> DEFINE first == SubSeq(s, 1, i - 1)
           rest == SubSeq(s, i + 1, Len(s))
           out == first \o rest
<1>1. Len(s) \in Nat /\ DOMAIN s = 1 .. Len(s) /\ i \in 1 .. Len(s)
  BY LenProperties
<1>2. \A j \in 1 .. Len(s) : s[j] \in S
  BY ElementOfSeq
<1>3. /\ first \in Seq(S) /\ Len(first) = i - 1
      /\ \A j \in 1 .. i - 1 : first[j] = s[j]
  <2>1. 1 \in Int /\ i - 1 \in Int /\ \A j \in 1 .. i - 1 : s[j] \in S
    BY <1>1, <1>2
  <2>2. /\ SubSeq(s, 1, i - 1) \in Seq(S)
        /\ Len(SubSeq(s, 1, i - 1)) = IF 1 <= i - 1 THEN i - 1 - 1 + 1 ELSE 0
        /\ \A j \in 1 .. i - 1 - 1 + 1 : SubSeq(s, 1, i - 1)[j] = s[1 + j - 1]
    BY <2>1, SubSeqProperties
  <2> QED BY <1>1, <2>2
<1>4. /\ rest \in Seq(S) /\ Len(rest) = Len(s) - i
      /\ \A j \in 1 .. Len(s) - i : rest[j] = s[i + j]
  <2>1. i + 1 \in Int /\ Len(s) \in Int /\ \A j \in i + 1 .. Len(s) : s[j] \in S
    BY <1>1, <1>2
  <2>2. /\ SubSeq(s, i + 1, Len(s)) \in Seq(S)
        /\ Len(SubSeq(s, i + 1, Len(s)))
             = IF i + 1 <= Len(s) THEN Len(s) - (i + 1) + 1 ELSE 0
        /\ \A j \in 1 .. Len(s) - (i + 1) + 1 :
              SubSeq(s, i + 1, Len(s))[j] = s[i + 1 + j - 1]
    BY <2>1, SubSeqProperties
  <2> QED BY <1>1, <2>2
<1> HIDE DEF first, rest
<1>5. /\ out \in Seq(S) /\ Len(out) = Len(s) - 1
      /\ \A j \in 1 .. Len(s) - 1 : out[j] = IF j <= i - 1 THEN s[j] ELSE s[j + 1]
  <2>1. /\ first \o rest \in Seq(S)
        /\ Len(first \o rest) = Len(first) + Len(rest)
        /\ \A j \in 1 .. Len(first) + Len(rest) :
              (first \o rest)[j] = IF j <= Len(first) THEN first[j] ELSE rest[j - Len(first)]
    BY <1>3, <1>4, ConcatProperties
  <2> HIDE DEF out
  <2>2. ASSUME NEW j \in 1 .. Len(s) - 1
        PROVE  out[j] = IF j <= i - 1 THEN s[j] ELSE s[j + 1]
    <3>1. out[j] = IF j <= Len(first) THEN first[j] ELSE rest[j - Len(first)]
      BY <1>1, <1>3, <1>4, <2>1 DEF out
    <3>2. CASE j <= i - 1
      <4>1. out[j] = first[j] /\ first[j] = s[j]
        BY <1>1, <1>3, <3>1, <3>2
      <4> QED BY <3>2, <4>1
    <3>3. CASE ~ (j <= i - 1)
      <4>1. j - (i - 1) \in 1 .. Len(s) - i /\ i + (j - (i - 1)) = j + 1
        BY <1>1, <3>3
      <4>2. out[j] = rest[j - (i - 1)]
        BY <1>1, <1>3, <3>1, <3>3
      <4>3. rest[j - (i - 1)] = s[i + (j - (i - 1))]
        BY <1>4, <4>1
      <4>4. out[j] = s[j + 1]
        BY <4>1, <4>2, <4>3
      <4> QED BY <3>3, <4>4
    <3> QED BY <3>2, <3>3
  <2>3. out \in Seq(S) /\ Len(out) = Len(s) - 1
    BY <1>1, <1>3, <1>4, <2>1 DEF out
  <2> QED BY <2>2, <2>3
<1> HIDE DEF out
<1>6. DOMAIN out = 1 .. Len(s) - 1
  BY <1>5, LenProperties
<1>7. ToSet(out) \subseteq ToSet(s)
  <2>1. ASSUME NEW j \in DOMAIN out
        PROVE  \E k \in DOMAIN s : out[j] = s[k]
    <3>1. CASE j <= i - 1
      BY <1>1, <1>5, <1>6, <3>1
    <3>2. CASE ~ (j <= i - 1)
      <4>1. j + 1 \in DOMAIN s /\ out[j] = s[j + 1]
        BY <1>1, <1>5, <1>6, <3>2
      <4> QED BY <4>1
    <3> QED BY <3>1, <3>2
  <2> QED BY <2>1 DEF ToSet
<1>8. IsInjective(s) => IsInjective(out)
  BY <1>1, <1>5, <1>6 DEF IsInjective
<1>9. RemoveAt(s, i) = out
  BY DEF RemoveAt, out, first, rest
<1> QED BY <1>5, <1>7, <1>8, <1>9

LEMMA Rows ==
    ASSUME Typed
    PROVE  Len(leaves) \in Nat /\ DOMAIN leaves = 1 .. Len(leaves)
BY DEF Typed

\* What was asked is still well formed when there are more rows.
LEMMA RequestKept ==
    ASSUME NEW q, RequestOK(q), DOMAIN leaves \subseteq DOMAIN leaves'
    PROVE  RequestOK(q)'
BY DEF RequestOK, IsApply, IsSettle, IsHoliday

LEMMA DeskTyped ==
    ASSUME Typed, NEW c \in Clerk, NEW q, desk' = [desk EXCEPT ![c] = q],
           DOMAIN leaves \subseteq DOMAIN leaves', RequestOK(q)
    PROVE  DOMAIN desk' = Clerk /\ \A x \in Clerk : RequestOK(desk[x])'
<1>1. DOMAIN desk' = Clerk
  BY DEF Typed
<1>2. ASSUME NEW x \in Clerk
      PROVE  RequestOK(desk[x])'
  <2>1. RequestOK(desk'[x])
    BY DEF Typed
  <2> QED BY <2>1 DEF RequestOK, IsApply, IsSettle, IsHoliday
<1> QED BY <1>1, <1>2

LEMMA FreeOK == RequestOK(Free)
BY DEF RequestOK

\* A row is added, and nothing else.
LEMMA AppendTyped ==
    ASSUME Typed, NEW l, RowOK(l), leaves' = Append(leaves, l)
    PROVE  /\ leaves' \in Seq(LeaveRow) /\ \A n \in DOMAIN leaves' : RowOK(leaves'[n])
           /\ DOMAIN leaves' = (DOMAIN leaves) \cup {Len(leaves) + 1}
           /\ \A n \in DOMAIN leaves : leaves'[n] = leaves[n]
           /\ leaves'[Len(leaves) + 1] = l
<1>1. leaves \in Seq(LeaveRow) /\ l \in LeaveRow
  BY DEF Typed, RowOK
<1>2. /\ Append(leaves, l) \in Seq(LeaveRow)
      /\ DOMAIN leaves = 1 .. Len(leaves) /\ Len(leaves) \in Nat
      /\ DOMAIN Append(leaves, l) = 1 .. Len(leaves) + 1
      /\ \A i \in 1 .. Len(leaves) : Append(leaves, l)[i] = leaves[i]
      /\ Append(leaves, l)[Len(leaves) + 1] = l
  BY <1>1, AppendFacts
<1>3. DOMAIN leaves' = (DOMAIN leaves) \cup {Len(leaves) + 1}
  BY <1>2
<1>4. \A n \in DOMAIN leaves' : RowOK(leaves'[n])
  BY <1>2, <1>3 DEF Typed
<1> QED BY <1>2, <1>3, <1>4

\* One field of a row moves.
LEMMA RowMoves ==
    ASSUME Typed, NEW n \in DOMAIN leaves, NEW l, l \in LeaveRow, RowOK(l),
           leaves' = [leaves EXCEPT ![n] = l]
    PROVE  /\ leaves' \in Seq(LeaveRow) /\ \A k \in DOMAIN leaves' : RowOK(leaves'[k])
           /\ DOMAIN leaves' = DOMAIN leaves
           /\ leaves'[n] = l
           /\ \A k \in (DOMAIN leaves) \ {n} : leaves'[k] = leaves[k]
<1>1. leaves \in Seq(LeaveRow) /\ n \in 1 .. Len(leaves)
  BY Rows DEF Typed
<1>2. leaves' \in Seq(LeaveRow)
  BY <1>1, ExceptSeq
<1> QED BY <1>2 DEF Typed

LEMMA LeaveOfOK ==
    ASSUME NEW t \in Teacher, NEW s \in Spans, NEW type \in LeaveType, NEW half \in BOOLEAN,
           NEW status \in {"pending", "approved"}, half => s[1] = s[2]
    PROVE  /\ RowOK(LeaveOf(t, s, type, half, status))
           /\ LeaveOf(t, s, type, half, status).status = status
           /\ LeaveOf(t, s, type, half, status).own = (status = "pending")
           /\ ~ LeaveOf(t, s, type, half, status).deleted
BY LeaveAssumption DEF LeaveOf, RowOK, LeaveRow, Statuses

\* A request under way is one of the three, known by its kind.
LEMMA Kinds ==
    ASSUME NEW q, RequestOK(q)
    PROVE  /\ q.kind = "apply" => IsApply(q) /\ q # Free
           /\ q.kind = "settle" => IsSettle(q) /\ q # Free
           /\ q.kind = "holiday" => IsHoliday(q) /\ q # Free
<1>1. Free.kind = "none"
  BY DEF Free
<1>2. /\ IsApply(q) => q.kind = "apply"
      /\ IsSettle(q) => q.kind = "settle"
      /\ IsHoliday(q) => q.kind = "holiday"
  BY DEF IsApply, IsSettle, IsHoliday
<1> QED BY <1>1, <1>2 DEF RequestOK

\* What is left of a quota depends on the tables alone.
LEMMA QuotaAsBefore ==
    ASSUME leaves' = leaves, quota' = quota, holidays' = holidays
    PROVE  \A l : WithinQuota(l)' = WithinQuota(l)
<1> SUFFICES ASSUME NEW l PROVE WithinQuota(l)' = WithinQuota(l)
  OBVIOUS
<1>1. \A m : WorkingDays(m)' = WorkingDays(m)
  BY DEF WorkingDays
<1>2. HalfDays' = HalfDays /\ \A t, y : Held(t, y)' = Held(t, y)
  BY <1>1 DEF HalfDays, Held
<1>3. \A t, y : Used(t, y)' = Used(t, y)
  BY <1>2 DEF Used
<1> QED BY <1>1, <1>3 DEF WithinQuota

-----------------------------------------------------------------------------
(* The requests, one after the other.                                       *)

\* The desk of c takes a request, and the tables stay.
LEMMA BeginTyped ==
    ASSUME Typed, NEW c \in Clerk, NEW q, Begin(c, q), RequestOK(q), UNCHANGED leaveTables
    PROVE  /\ Typed'
           /\ desk'[c] = q /\ \A x \in Clerk \ {c} : desk'[x] = desk[x]
           /\ ~ raced' => ~ raced /\ \A x \in Clerk : desk[x] = Free
<1>1. leaves' = leaves /\ quota' = quota /\ holidays' = holidays
  BY DEF leaveTables
<1>2. desk' = [desk EXCEPT ![c] = q]
  BY DEF Begin
<1>3. DOMAIN desk' = Clerk /\ \A x \in Clerk : RequestOK(desk[x])'
  BY <1>1, <1>2, DeskTyped
<1>4. raced' \in BOOLEAN /\ (~ raced' => ~ raced /\ \A x \in Clerk : desk[x] = Free)
  BY DEF Begin, Typed
<1>5. desk'[c] = q /\ \A x \in Clerk \ {c} : desk'[x] = desk[x]
  BY <1>2 DEF Typed
<1> QED BY <1>1, <1>3, <1>4, <1>5 DEF Typed

\* Tested, and nobody else is at work: it is so, and no other request is open.
LEMMA BeginCalm ==
    ASSUME Typed, Calm, NEW c \in Clerk, NEW q, Begin(c, q), RequestOK(q),
           UNCHANGED leaveTables,
           q.kind = "apply" => ~ OverlapsActive(q.leave) /\ WithinQuota(q.leave),
           q.kind = "settle" => leaves[q.leave].status = "pending",
           q.kind = "holiday" => q.day \notin ToSet(holidays)
    PROVE  Calm'
<1>1. leaves' = leaves /\ holidays' = holidays
  BY DEF leaveTables
<1>2. SUFFICES ASSUME ~ raced'
               PROVE  /\ \A a, b \in Clerk : desk'[a] # Free /\ desk'[b] # Free => a = b
                      /\ \A a \in Clerk : StillSo(a)'
                      /\ DaysApart' /\ IsInjective(holidays')
  BY DEF Calm
<1>3. /\ desk'[c] = q /\ \A x \in Clerk \ {c} : desk'[x] = Free
      /\ ~ raced
  BY <1>2, BeginTyped
<1>4. \A a, b \in Clerk : desk'[a] # Free /\ desk'[b] # Free => a = b
  BY <1>3
<1>5. ASSUME NEW a \in Clerk
      PROVE  StillSo(a)'
  <2>1. CASE a = c
    <3>1. \A l : WithinQuota(l)' = WithinQuota(l)
      BY QuotaAsBefore DEF leaveTables
    <3> QED BY <1>1, <1>3, <2>1, <3>1 DEF StillSo, OverlapsActive
  <2>2. CASE a # c
    <3>1. desk'[a] = Free
      BY <1>3, <2>2
    <3> QED BY <3>1 DEF StillSo, Free
  <2> QED BY <2>1, <2>2
<1>6. DaysApart' /\ IsInjective(holidays')
  BY <1>1, <1>3 DEF Calm, DaysApart, Standing
<1> QED BY <1>4, <1>5, <1>6

\* A request that ends leaves its desk free, and the others as they are.
LEMMA EndTyped ==
    ASSUME Typed, NEW c \in Clerk, End(c), DOMAIN leaves \subseteq DOMAIN leaves'
    PROVE  /\ DOMAIN desk' = Clerk /\ \A x \in Clerk : RequestOK(desk[x])'
           /\ raced' = raced /\ raced \in BOOLEAN
           /\ desk'[c] = Free /\ \A x \in Clerk \ {c} : desk'[x] = desk[x]
<1>1. desk' = [desk EXCEPT ![c] = Free] /\ raced' = raced
  BY DEF End
<1>2. DOMAIN desk' = Clerk /\ \A x \in Clerk : RequestOK(desk[x])'
  BY <1>1, FreeOK, DeskTyped
<1> QED BY <1>1, <1>2 DEF Typed

\* When the only request under way ends, what is left to show are the tables.
LEMMA EndCalm ==
    ASSUME Typed, Calm, NEW c \in Clerk, End(c), desk[c] # Free,
           DOMAIN leaves \subseteq DOMAIN leaves',
           ~ raced => DaysApart' /\ IsInjective(holidays')
    PROVE  Calm'
<1>1. /\ raced' = raced /\ desk'[c] = Free
      /\ \A x \in Clerk \ {c} : desk'[x] = desk[x]
  BY EndTyped
<1>2. SUFFICES ASSUME ~ raced
               PROVE  /\ \A a, b \in Clerk : desk'[a] # Free /\ desk'[b] # Free => a = b
                      /\ \A a \in Clerk : StillSo(a)'
                      /\ DaysApart' /\ IsInjective(holidays')
  BY <1>1 DEF Calm
<1>3. \A a \in Clerk : desk'[a] = Free
  BY <1>1, <1>2 DEF Calm
<1>4. \A a \in Clerk : StillSo(a)'
  BY <1>3 DEF StillSo, Free
<1> QED BY <1>2, <1>3, <1>4

\* A write without a test: it counts as racing when a request is under way.
LEMMA AsideTyped ==
    ASSUME Typed, Aside, DOMAIN leaves \subseteq DOMAIN leaves'
    PROVE  /\ DOMAIN desk' = Clerk /\ \A x \in Clerk : RequestOK(desk[x])'
           /\ raced' \in BOOLEAN
<1>1. desk' = desk /\ raced' \in BOOLEAN
  BY DEF Aside, Typed
<1>2. ASSUME NEW x \in Clerk
      PROVE  RequestOK(desk[x])'
  BY <1>1 DEF Typed, RequestOK, IsApply, IsSettle, IsHoliday
<1> QED BY <1>1, <1>2 DEF Typed

LEMMA AsideCalm ==
    ASSUME Typed, Calm, Aside, ~ raced => DaysApart' /\ IsInjective(holidays')
    PROVE  Calm'
<1>1. desk' = desk
  BY DEF Aside
<1>2. SUFFICES ASSUME ~ raced'
               PROVE  /\ \A a, b \in Clerk : desk'[a] # Free /\ desk'[b] # Free => a = b
                      /\ \A a \in Clerk : StillSo(a)'
                      /\ DaysApart' /\ IsInjective(holidays')
  BY DEF Calm
<1>3. ~ raced /\ \A x \in Clerk : desk'[x] = Free
  BY <1>1, <1>2 DEF Aside
<1>4. \A a \in Clerk : StillSo(a)'
  BY <1>3 DEF StillSo, Free
<1> QED BY <1>3, <1>4

\* Settling or deleting leave brings none nearer: nothing becomes standing.
LEMMA ApartKept ==
    ASSUME Typed, DaysApart, NEW n \in DOMAIN leaves, DOMAIN leaves' = DOMAIN leaves,
           \A k \in (DOMAIN leaves) \ {n} : leaves'[k] = leaves[k],
           leaves'[n].teacher = leaves[n].teacher, leaves'[n].from = leaves[n].from,
           leaves'[n].to = leaves[n].to, leaves'[n].own = leaves[n].own,
           Standing(n)' => Standing(n)
    PROVE  DaysApart'
<1>1. \A k \in DOMAIN leaves :
          /\ leaves'[k].teacher = leaves[k].teacher /\ leaves'[k].from = leaves[k].from
          /\ leaves'[k].to = leaves[k].to
          /\ Standing(k)' => Standing(k)
  BY DEF Standing
<1>2. \A k, m \in DOMAIN leaves :
          Overlap(leaves'[k], leaves'[m]) => Overlap(leaves[k], leaves[m])
  BY <1>1 DEF Overlap
<1> QED BY <1>1, <1>2 DEF DaysApart

\* Leave added beside the standing leave of its teacher, or not standing.
LEMMA ApartGrows ==
    ASSUME Typed, DaysApart, NEW l, RowOK(l), leaves' = Append(leaves, l),
           ~ l.own \/ ~ OverlapsActive(l)
    PROVE  DaysApart'
<1>1. PICK new : /\ DOMAIN leaves' = (DOMAIN leaves) \cup {new}
                 /\ \A n \in DOMAIN leaves : leaves'[n] = leaves[n]
                 /\ leaves'[new] = l
  BY AppendTyped
<1>2. \A n \in DOMAIN leaves : Standing(n)' = Standing(n)
  BY <1>1 DEF Standing
<1>3. \A n \in DOMAIN leaves :
          (leaves[n].teacher = l.teacher /\ Standing(n) /\ Standing(new)')
              => ~ Overlap(leaves[n], l) /\ ~ Overlap(l, leaves[n])
  <2> SUFFICES ASSUME NEW n \in DOMAIN leaves, leaves[n].teacher = l.teacher,
                      Standing(n), Standing(new)'
               PROVE  ~ Overlap(leaves[n], l) /\ ~ Overlap(l, leaves[n])
    OBVIOUS
  <2>1. l.own
    BY <1>1 DEF Standing
  <2>2. ~ Overlap(leaves[n], l)
    BY <2>1 DEF OverlapsActive, Standing
  <2> QED BY <2>2 DEF Overlap
<1>4. ASSUME NEW m \in DOMAIN leaves', NEW n \in DOMAIN leaves', m # n,
             leaves'[m].teacher = leaves'[n].teacher, Standing(m)', Standing(n)'
      PROVE  ~ Overlap(leaves'[m], leaves'[n])
  <2>1. CASE m \in DOMAIN leaves /\ n \in DOMAIN leaves
    BY <1>1, <1>2, <1>4, <2>1 DEF DaysApart
  <2>2. CASE m = new /\ n \in DOMAIN leaves
    <3>1. /\ leaves'[m] = l /\ leaves'[n] = leaves[n] /\ Standing(new)' /\ Standing(n)
          /\ leaves[n].teacher = l.teacher
      BY <1>1, <1>2, <1>4, <2>2
    <3> QED BY <1>3, <2>2, <3>1
  <2>3. CASE n = new /\ m \in DOMAIN leaves
    <3>1. /\ leaves'[n] = l /\ leaves'[m] = leaves[m] /\ Standing(new)' /\ Standing(m)
          /\ leaves[m].teacher = l.teacher
      BY <1>1, <1>2, <1>4, <2>3
    <3> QED BY <1>3, <2>3, <3>1
  <2> QED BY <1>1, <1>4, <2>1, <2>2, <2>3
<1> QED BY <1>4 DEF DaysApart

LEMMA ApplyKeeps ==
    ASSUME Typed, Calm, NEW c \in Clerk, NEW t \in Teacher, NEW s \in Spans,
           NEW type \in LeaveType, NEW half \in BOOLEAN, BeginApply(c, t, s, type, half)
    PROVE  Typed' /\ Calm'
<1> DEFINE l == LeaveOf(t, s, type, half, "pending")
           q == [kind |-> "apply", leave |-> l]
<1>1. RowOK(l) /\ l.own /\ l.status = "pending" /\ ~ l.deleted
  BY LeaveOfOK DEF BeginApply
<1>2. Begin(c, q) /\ UNCHANGED leaveTables /\ ~ OverlapsActive(l) /\ WithinQuota(l)
  BY DEF BeginApply
<1> HIDE DEF l
<1>3. q.kind = "apply" /\ q.leave = l /\ RequestOK(q)
  BY <1>1 DEF RequestOK, IsApply
<1> HIDE DEF q
<1>4. Typed'
  BY <1>2, <1>3, BeginTyped
<1>5. Calm'
  BY <1>2, <1>3, BeginCalm
<1> QED BY <1>4, <1>5

LEMMA BeginSettleKeeps ==
    ASSUME Typed, Calm, NEW c \in Clerk, NEW n \in DOMAIN leaves,
           NEW v \in {"approved", "rejected", "cancelled"}, BeginSettle(c, n, v)
    PROVE  Typed' /\ Calm'
<1> DEFINE q == [kind |-> "settle", leave |-> n, verdict |-> v]
<1>1. Begin(c, q) /\ UNCHANGED leaveTables /\ leaves[n].status = "pending"
  BY DEF BeginSettle
<1>2. q.kind = "settle" /\ q.leave = n /\ RequestOK(q)
  BY DEF RequestOK, IsSettle, Statuses
<1> HIDE DEF q
<1>3. Typed'
  BY <1>1, <1>2, BeginTyped
<1>4. Calm'
  BY <1>1, <1>2, BeginCalm
<1> QED BY <1>3, <1>4

LEMMA BeginHolidayKeeps ==
    ASSUME Typed, Calm, NEW c \in Clerk, NEW d \in Holidays, BeginHoliday(c, d)
    PROVE  Typed' /\ Calm'
<1> DEFINE q == [kind |-> "holiday", day |-> d]
<1>1. Begin(c, q) /\ UNCHANGED leaveTables /\ d \notin ToSet(holidays)
  BY DEF BeginHoliday
<1>2. q.kind = "holiday" /\ q.day = d /\ RequestOK(q)
  BY DEF RequestOK, IsHoliday
<1> HIDE DEF q
<1>3. Typed'
  BY <1>1, <1>2, BeginTyped
<1>4. Calm'
  BY <1>1, <1>2, BeginCalm
<1> QED BY <1>3, <1>4

LEMMA CommitApplyKeeps ==
    ASSUME Typed, Calm, NEW c \in Clerk, CommitApply(c)
    PROVE  Typed' /\ Calm'
<1> DEFINE l == desk[c].leave
<1>1. /\ leaves' = Append(leaves, l) /\ End(c) /\ quota' = quota /\ holidays' = holidays
      /\ desk[c].kind = "apply"
  BY DEF CommitApply
<1>2. RowOK(l) /\ desk[c] # Free
  BY <1>1, Kinds DEF Typed, IsApply
<1>3. ~ raced => ~ OverlapsActive(l)
  BY <1>1 DEF Calm, StillSo
<1> HIDE DEF l
<1>4. /\ leaves' \in Seq(LeaveRow) /\ \A n \in DOMAIN leaves' : RowOK(leaves'[n])
      /\ DOMAIN leaves \subseteq DOMAIN leaves'
  BY <1>1, <1>2, AppendTyped
<1>5. Typed'
  BY <1>1, <1>4, EndTyped DEF Typed
<1>6. ~ raced => DaysApart' /\ IsInjective(holidays')
  BY <1>1, <1>2, <1>3, ApartGrows DEF Calm
<1>7. Calm'
  BY <1>1, <1>2, <1>4, <1>6, EndCalm
<1> QED BY <1>5, <1>7

\* Settling writes the status of one row.
LEMMA SettleEffect ==
    ASSUME Typed, NEW c \in Clerk, CommitSettle(c)
    PROVE  /\ desk[c] # Free /\ desk[c].leave \in DOMAIN leaves
           /\ desk[c].kind = "settle"
           /\ leaves' \in Seq(LeaveRow) /\ \A k \in DOMAIN leaves' : RowOK(leaves'[k])
           /\ DOMAIN leaves' = DOMAIN leaves
           /\ \A k \in (DOMAIN leaves) \ {desk[c].leave} : leaves'[k] = leaves[k]
           /\ leaves'[desk[c].leave] = [leaves[desk[c].leave] EXCEPT !.status = desk[c].verdict]
           /\ End(c) /\ quota' = quota /\ holidays' = holidays
<1>1. /\ desk[c].kind = "settle" /\ End(c) /\ quota' = quota /\ holidays' = holidays
      /\ leaves' = [leaves EXCEPT ![desk[c].leave].status = desk[c].verdict]
  BY DEF CommitSettle
<1>2. desk[c] # Free /\ desk[c].leave \in DOMAIN leaves /\ desk[c].verdict \in Statuses
  BY <1>1, Kinds DEF Typed, IsSettle
<1> DEFINE n == desk[c].leave
           l == [leaves[n] EXCEPT !.status = desk[c].verdict]
<1>3. l \in LeaveRow /\ RowOK(l)
  BY <1>2 DEF Typed, RowOK, LeaveRow
<1>4. leaves' = [leaves EXCEPT ![n] = l]
  BY <1>1
<1> HIDE DEF l
<1>5. /\ leaves' \in Seq(LeaveRow) /\ \A k \in DOMAIN leaves' : RowOK(leaves'[k])
      /\ DOMAIN leaves' = DOMAIN leaves
      /\ leaves'[n] = l
      /\ \A k \in (DOMAIN leaves) \ {n} : leaves'[k] = leaves[k]
  BY <1>2, <1>3, <1>4, RowMoves
<1> QED BY <1>1, <1>2, <1>5 DEF l

LEMMA CommitSettleKeeps ==
    ASSUME Typed, Calm, NEW c \in Clerk, CommitSettle(c)
    PROVE  Typed' /\ Calm'
<1>1. PICK n \in DOMAIN leaves :
          /\ desk[c] # Free /\ desk[c].kind = "settle" /\ n = desk[c].leave
          /\ leaves' \in Seq(LeaveRow) /\ \A k \in DOMAIN leaves' : RowOK(leaves'[k])
          /\ DOMAIN leaves' = DOMAIN leaves
          /\ \A k \in (DOMAIN leaves) \ {n} : leaves'[k] = leaves[k]
          /\ leaves'[n] = [leaves[n] EXCEPT !.status = desk[c].verdict]
          /\ End(c) /\ quota' = quota /\ holidays' = holidays
  BY SettleEffect
<1>2. Typed'
  BY <1>1, EndTyped DEF Typed
<1>3. leaves[n] \in LeaveRow
  BY DEF Typed, RowOK
<1>4. ~ raced => leaves[n].status = "pending"
  BY <1>1 DEF Calm, StillSo
<1>5. ~ raced => DaysApart'
  <2> SUFFICES ASSUME ~ raced
               PROVE  DaysApart'
    OBVIOUS
  <2>1. /\ leaves'[n].teacher = leaves[n].teacher /\ leaves'[n].from = leaves[n].from
        /\ leaves'[n].to = leaves[n].to /\ leaves'[n].own = leaves[n].own
        /\ leaves'[n].deleted = leaves[n].deleted
    BY <1>1, <1>3 DEF LeaveRow
  <2>2. Standing(n)' => Standing(n)
    BY <1>4, <2>1 DEF Standing, Active
  <2> QED BY <1>1, <2>1, <2>2, ApartKept DEF Calm
<1>6. ~ raced => DaysApart' /\ IsInjective(holidays')
  BY <1>1, <1>5 DEF Calm
<1>7. Calm'
  BY <1>1, <1>6, EndCalm
<1> QED BY <1>2, <1>7

LEMMA CommitHolidayKeeps ==
    ASSUME Typed, Calm, NEW c \in Clerk, CommitHoliday(c)
    PROVE  Typed' /\ Calm'
<1> DEFINE d == desk[c].day
<1>1. /\ holidays' = Append(holidays, d) /\ End(c) /\ leaves' = leaves /\ quota' = quota
      /\ desk[c].kind = "holiday"
  BY DEF CommitHoliday
<1>2. d \in Holidays /\ desk[c] # Free /\ holidays \in Seq(Holidays)
  BY <1>1, Kinds DEF Typed, IsHoliday
<1>3. ~ raced => d \notin ToSet(holidays)
  BY <1>1 DEF Calm, StillSo
<1> HIDE DEF d
<1>4. /\ Append(holidays, d) \in Seq(Holidays)
      /\ DOMAIN holidays = 1 .. Len(holidays) /\ Len(holidays) \in Nat
      /\ DOMAIN Append(holidays, d) = 1 .. Len(holidays) + 1
      /\ \A i \in 1 .. Len(holidays) : Append(holidays, d)[i] = holidays[i]
      /\ Append(holidays, d)[Len(holidays) + 1] = d
  BY <1>2, AppendFacts
<1>5. Typed'
  BY <1>1, <1>4, EndTyped DEF Typed
<1>6. ~ raced => DaysApart'
  BY <1>1 DEF Calm, DaysApart, Standing
<1>7. ~ raced => IsInjective(holidays')
  <2> SUFFICES ASSUME ~ raced
               PROVE  IsInjective(Append(holidays, d))
    BY <1>1
  <2>1. \A i \in 1 .. Len(holidays) : holidays[i] # d
    BY <1>3, <1>4 DEF ToSet
  <2>2. IsInjective(holidays)
    BY DEF Calm
  <2> HIDE DEF d
  <2> DEFINE more == Append(holidays, d)
             n == Len(holidays)
  <2>3. /\ n \in Nat /\ DOMAIN more = 1 .. n + 1 /\ more[n + 1] = d
        /\ \A i \in 1 .. n : more[i] = holidays[i] /\ more[i] # d
        /\ \A i, j \in 1 .. n : holidays[i] = holidays[j] => i = j
    BY <1>4, <2>1, <2>2 DEF IsInjective
  <2> HIDE DEF more, n
  <2>4. IsInjective(more)
    BY <2>3 DEF IsInjective
  <2> QED BY <2>4 DEF more
<1>8. Calm'
  BY <1>1, <1>2, <1>6, <1>7, EndCalm
<1> QED BY <1>5, <1>8

LEMMA GiveUpKeeps ==
    ASSUME Typed, Calm, NEW c \in Clerk, GiveUp(c)
    PROVE  Typed' /\ Calm'
<1>1. leaves' = leaves /\ quota' = quota /\ holidays' = holidays /\ End(c) /\ desk[c] # Free
  BY DEF GiveUp, leaveTables
<1>2. Typed'
  BY <1>1, EndTyped DEF Typed
<1>3. ~ raced => DaysApart' /\ IsInjective(holidays')
  BY <1>1 DEF Calm, DaysApart, Standing
<1>4. Calm'
  BY <1>1, <1>3, EndCalm
<1> QED BY <1>2, <1>4

LEMMA AddLeaveKeeps ==
    ASSUME Typed, Calm, NEW t \in Teacher, NEW s \in Spans, AddLeave(t, s)
    PROVE  Typed' /\ Calm'
<1> DEFINE l == LeaveOf(t, s, "casual", FALSE, "approved")
<1>1. leaves' = Append(leaves, l) /\ Aside /\ quota' = quota /\ holidays' = holidays
  BY DEF AddLeave
<1>2. RowOK(l) /\ ~ l.own
  BY LeaveAssumption, LeaveOfOK
<1> HIDE DEF l
<1>3. /\ leaves' \in Seq(LeaveRow) /\ \A n \in DOMAIN leaves' : RowOK(leaves'[n])
      /\ DOMAIN leaves \subseteq DOMAIN leaves'
  BY <1>1, <1>2, AppendTyped
<1>4. Typed'
  BY <1>1, <1>3, AsideTyped DEF Typed
<1>5. ~ raced => DaysApart' /\ IsInjective(holidays')
  BY <1>1, <1>2, ApartGrows DEF Calm
<1>6. Calm'
  BY <1>1, <1>5, AsideCalm
<1> QED BY <1>4, <1>6

LEMMA DeleteLeaveKeeps ==
    ASSUME Typed, Calm, NEW n \in DOMAIN leaves, DeleteLeave(n)
    PROVE  Typed' /\ Calm'
<1> DEFINE l == [leaves[n] EXCEPT !.deleted = TRUE]
<1>1. leaves' = [leaves EXCEPT ![n] = l] /\ Aside /\ quota' = quota /\ holidays' = holidays
  BY DEF DeleteLeave
<1>2. l \in LeaveRow /\ RowOK(l)
  BY DEF Typed, RowOK, LeaveRow
<1>3. /\ l.teacher = leaves[n].teacher /\ l.from = leaves[n].from /\ l.to = leaves[n].to
      /\ l.own = leaves[n].own /\ l.deleted = TRUE
  BY DEF Typed, RowOK, LeaveRow
<1> HIDE DEF l
<1>4. /\ leaves' \in Seq(LeaveRow) /\ \A k \in DOMAIN leaves' : RowOK(leaves'[k])
      /\ DOMAIN leaves' = DOMAIN leaves /\ leaves'[n] = l
      /\ \A k \in (DOMAIN leaves) \ {n} : leaves'[k] = leaves[k]
  BY <1>1, <1>2, RowMoves
<1>5. Typed'
  BY <1>1, <1>4, AsideTyped DEF Typed
<1>6. Standing(n)' => Standing(n)
  BY <1>3, <1>4 DEF Standing
<1>7. ~ raced => DaysApart' /\ IsInjective(holidays')
  BY <1>1, <1>3, <1>4, <1>6, ApartKept DEF Calm
<1>8. Calm'
  BY <1>1, <1>7, AsideCalm
<1> QED BY <1>5, <1>8

LEMMA SetQuotaKeeps ==
    ASSUME Typed, Calm, NEW t \in QuotaType, NEW q \in Quotas, SetQuota(t, q)
    PROVE  Typed' /\ Calm'
<1>1. leaves' = leaves /\ holidays' = holidays /\ Aside /\ quota' = [quota EXCEPT ![t] = q]
  BY DEF SetQuota
<1>2. DOMAIN quota' = QuotaType /\ \A x \in QuotaType : quota'[x] \in Quotas \cup {NoQuota}
  BY <1>1 DEF Typed
<1>3. Typed'
  BY <1>1, <1>2, AsideTyped DEF Typed
<1>4. ~ raced => DaysApart' /\ IsInjective(holidays')
  BY <1>1 DEF Calm, DaysApart, Standing
<1>5. Calm'
  BY <1>1, <1>4, AsideCalm
<1> QED BY <1>3, <1>5

LEMMA DeleteHolidayKeeps ==
    ASSUME Typed, Calm, NEW n \in DOMAIN holidays, DeleteHoliday(n)
    PROVE  Typed' /\ Calm'
<1>1. leaves' = leaves /\ quota' = quota /\ Aside /\ holidays' = RemoveAt(holidays, n)
  BY DEF DeleteHoliday
<1>2. holidays \in Seq(Holidays)
  BY DEF Typed
<1>3. /\ holidays' \in Seq(Holidays)
      /\ IsInjective(holidays) => IsInjective(holidays')
  BY <1>1, <1>2, RemoveAtFacts
<1>4. Typed'
  BY <1>1, <1>3, AsideTyped DEF Typed
<1>5. ~ raced => DaysApart'
  BY <1>1 DEF Calm, DaysApart, Standing
<1>6. ~ raced => IsInjective(holidays')
  BY <1>3 DEF Calm
<1>7. Calm'
  BY <1>1, <1>5, <1>6, AsideCalm
<1> QED BY <1>4, <1>7

LEMMA InitKeeps == LeaveInit => Typed /\ Calm
<1> SUFFICES ASSUME LeaveInit
             PROVE  Typed /\ Calm
  OBVIOUS
<1>1. /\ leaves = <<>> /\ holidays = <<>> /\ desk = [c \in Clerk |-> Free] /\ raced = FALSE
      /\ quota = [t \in QuotaType |-> NoQuota]
  BY DEF LeaveInit
<1>2. /\ leaves \in Seq(LeaveRow) /\ DOMAIN leaves = {}
      /\ holidays \in Seq(Holidays) /\ DOMAIN holidays = {}
  BY <1>1
<1>3. \A c \in Clerk : RequestOK(desk[c])
  BY <1>1, FreeOK
<1>4. Typed
  BY <1>1, <1>2, <1>3 DEF Typed
<1>5. \A c \in Clerk : StillSo(c)
  BY <1>1 DEF StillSo, Free
<1>6. DaysApart /\ IsInjective(holidays)
  BY <1>2 DEF DaysApart, IsInjective
<1>7. Calm
  BY <1>1, <1>5, <1>6 DEF Calm
<1> QED BY <1>4, <1>7

LEMMA NextKeeps == Typed /\ Calm /\ [LeaveNext]_leaveVars => (Typed /\ Calm)'
<1> SUFFICES ASSUME Typed, Calm, [LeaveNext]_leaveVars
             PROVE  Typed' /\ Calm'
  OBVIOUS
<1>1. ASSUME NEW c \in Clerk,
             \/ \E t \in Teacher, s \in Spans, type \in LeaveType, half \in BOOLEAN :
                   BeginApply(c, t, s, type, half)
             \/ \E n \in DOMAIN leaves, v \in {"approved", "rejected", "cancelled"} :
                   BeginSettle(c, n, v)
             \/ \E d \in Holidays : BeginHoliday(c, d)
      PROVE  Typed' /\ Calm'
  BY <1>1, ApplyKeeps, BeginSettleKeeps, BeginHolidayKeeps
<1>2. ASSUME NEW c \in Clerk,
             CommitApply(c) \/ CommitSettle(c) \/ CommitHoliday(c) \/ GiveUp(c)
      PROVE  Typed' /\ Calm'
  BY <1>2, CommitApplyKeeps, CommitSettleKeeps, CommitHolidayKeeps, GiveUpKeeps
<1>3. CASE \/ \E t \in Teacher, s \in Spans : AddLeave(t, s)
           \/ \E n \in DOMAIN leaves : DeleteLeave(n)
           \/ \E t \in QuotaType, q \in Quotas : SetQuota(t, q)
           \/ \E n \in DOMAIN holidays : DeleteHoliday(n)
  BY <1>3, AddLeaveKeeps, DeleteLeaveKeeps, SetQuotaKeeps, DeleteHolidayKeeps
<1>4. CASE UNCHANGED leaveVars
  <2>1. /\ leaves' = leaves /\ quota' = quota /\ holidays' = holidays
        /\ desk' = desk /\ raced' = raced
    BY <1>4 DEF leaveVars, leaveTables
  <2>2. \A c \in Clerk : RequestOK(desk[c])'
    BY <2>1 DEF Typed, RequestOK, IsApply, IsSettle, IsHoliday
  <2>3. Typed'
    BY <2>1, <2>2 DEF Typed
  <2>4. DaysApart => DaysApart'
    BY <2>1 DEF DaysApart, Standing
  <2>5. ASSUME NEW c \in Clerk, StillSo(c)
        PROVE  StillSo(c)'
    <3>1. \A l : WithinQuota(l)' = WithinQuota(l)
      BY <2>1, QuotaAsBefore
    <3> QED BY <2>1, <2>5, <3>1 DEF StillSo, OverlapsActive
  <2> QED BY <2>1, <2>3, <2>4, <2>5 DEF Calm
<1> QED BY <1>1, <1>2, <1>3, <1>4 DEF LeaveNext

-----------------------------------------------------------------------------
(* Theorems.                                                                *)

(* The leave rows, the quotas and the calendar stay well formed, whatever   *)
(* requests are under way at once.                                          *)
THEOREM TablesTyped == LeaveSpec => []LeaveTypeOK
<1>1. Typed => LeaveTypeOK
  BY ElementOfSeq, LenProperties DEF Typed, LeaveTypeOK, RowOK, LeaveRow, Statuses, Active, ToSet
<1> QED BY <1>1, InitKeeps, NextKeeps, PTL DEF LeaveSpec

(* Leave that was asked for never overlaps, and a day is a holiday once,    *)
(* unless two requests were under way at once: no order of applications,    *)
(* decisions, withdrawals, deletions and grants by the office gets there.   *)
THEOREM LeaveIsApart == LeaveSpec => []OneLeaveADay
<1>1. Typed /\ Calm => OneLeaveADay
  <2> SUFFICES ASSUME Typed, Calm, ~ raced
               PROVE  OneLeaveADay
    BY DEF OneLeaveADay
  <2>1. DaysApart /\ IsInjective(holidays)
    BY DEF Calm
  <2> QED BY <2>1 DEF OneLeaveADay, DaysApart, Standing
<1> QED BY <1>1, InitKeeps, NextKeeps, PTL DEF LeaveSpec

\* A step on leave changes no verdict, as long as nothing raced.
LEMMA SettledStep ==
    Typed /\ Calm /\ [LeaveNext]_leaveVars
        => [\A n \in DOMAIN leaves :
               (leaves[n].status # "pending" /\ ~ raced)
                   => leaves'[n].status = leaves[n].status]_leaveVars
<1> SUFFICES ASSUME Typed, Calm, LeaveNext, NEW n \in DOMAIN leaves,
                    leaves[n].status # "pending", ~ raced
             PROVE  leaves'[n].status = leaves[n].status
  OBVIOUS
<1>1. CASE leaves' = leaves
  BY <1>1
<1>2. ASSUME NEW l, RowOK(l), leaves' = Append(leaves, l)
      PROVE  leaves'[n].status = leaves[n].status
  BY <1>2, AppendTyped
<1>3. ASSUME NEW c \in Clerk, CommitSettle(c)
      PROVE  leaves'[n].status = leaves[n].status
  <2>1. desk[c].kind = "settle" /\ desk[c].leave # n
    BY <1>3, SettleEffect DEF Calm, StillSo
  <2> QED BY <1>3, <2>1, SettleEffect
<1>4. ASSUME NEW c \in Clerk, CommitApply(c)
      PROVE  leaves'[n].status = leaves[n].status
  <2>1. RowOK(desk[c].leave) /\ leaves' = Append(leaves, desk[c].leave)
    BY <1>4, Kinds DEF CommitApply, Typed, IsApply
  <2> QED BY <1>2, <2>1
<1>5. ASSUME NEW t \in Teacher, NEW s \in Spans, AddLeave(t, s)
      PROVE  leaves'[n].status = leaves[n].status
  <2>1. RowOK(LeaveOf(t, s, "casual", FALSE, "approved"))
    BY LeaveAssumption, LeaveOfOK
  <2> QED BY <1>2, <1>5, <2>1 DEF AddLeave
<1>6. ASSUME NEW k \in DOMAIN leaves, DeleteLeave(k)
      PROVE  leaves'[n].status = leaves[n].status
  <2>1. leaves[k] \in LeaveRow /\ leaves' = [leaves EXCEPT ![k].deleted = TRUE]
    BY <1>6 DEF DeleteLeave, Typed, RowOK
  <2> QED BY <2>1 DEF LeaveRow
<1>7. \/ leaves' = leaves
      \/ \E c \in Clerk : CommitSettle(c) \/ CommitApply(c)
      \/ \E t \in Teacher, s \in Spans : AddLeave(t, s)
      \/ \E k \in DOMAIN leaves : DeleteLeave(k)
  BY DEF LeaveNext, BeginApply, BeginSettle, BeginHoliday, CommitHoliday, GiveUp,
         SetQuota, DeleteHoliday, leaveTables
<1> QED BY <1>1, <1>3, <1>4, <1>5, <1>6, <1>7

(* Only a pending request is settled: where no two requests were under way  *)
(* at once, neither a second decision nor a withdrawal changes a verdict.   *)
THEOREM SettledStays == LeaveSpec => SettledOnce
BY SettledStep, InitKeeps, NextKeeps, PTL DEF LeaveSpec, SettledOnce

-----------------------------------------------------------------------------
(* Quotas.                                                                  *)

\* Days are counted, and none twice.
LEMMA DaysCounted ==
    ASSUME NEW l, RowOK(l)
    PROVE  WorkingDays(l) \in Nat
<1> DEFINE D == {d \in l.from .. l.to : d \notin WeeklyOff \cup ToSet(holidays)}
<1>1. l.from \in Nat /\ l.to \in Nat
  BY DEF RowOK, LeaveRow
<1>2. IsFiniteSet(l.from .. l.to)
  BY <1>1, FS_Interval
<1>3. IsFiniteSet(D)
  BY <1>2, FS_Subset
<1>4. Cardinality(D) \in Nat
  BY <1>3, FS_CardinalityType
<1> HIDE DEF D
<1>5. 2 * Cardinality(D) \in Nat
  BY <1>4
<1> QED BY <1>5 DEF WorkingDays, D

\* More holidays, fewer days of leave.
LEMMA HolidaysSpare ==
    ASSUME NEW l, RowOK(l), ToSet(holidays) \subseteq ToSet(holidays)'
    PROVE  WorkingDays(l)' <= WorkingDays(l)
<1> DEFINE D(h) == {d \in l.from .. l.to : d \notin WeeklyOff \cup h}
           old == D(ToSet(holidays))
           new == D(ToSet(holidays)')
<1>1. l.from \in Nat /\ l.to \in Nat
  BY DEF RowOK, LeaveRow
<1>2. IsFiniteSet(l.from .. l.to)
  BY <1>1, FS_Interval
<1>3. IsFiniteSet(old) /\ new \subseteq old
  BY <1>2, FS_Subset
<1>4. /\ WorkingDays(l) = IF l.half THEN 1 ELSE 2 * Cardinality(old)
      /\ WorkingDays(l)' = IF l.half THEN 1 ELSE 2 * Cardinality(new)
  BY DEF WorkingDays
<1> HIDE DEF old, new
<1>5. IsFiniteSet(new) /\ Cardinality(new) <= Cardinality(old)
  BY <1>3, FS_Subset
<1>6. Cardinality(new) \in Nat /\ Cardinality(old) \in Nat
  BY <1>3, <1>5, FS_CardinalityType
<1>7. 2 * Cardinality(new) <= 2 * Cardinality(old)
  BY <1>5, <1>6
<1> QED BY <1>4, <1>6, <1>7

\* The rows of one kind are finitely many, and each counts for its days.
HeldCounted ==
    /\ \A t, y : IsFiniteSet(Held(t, y)) /\ Held(t, y) \subseteq DOMAIN leaves
    /\ IsFiniteSet(DOMAIN leaves)
    /\ \A n \in DOMAIN leaves : HalfDays[n] = WorkingDays(leaves[n]) /\ HalfDays[n] \in Nat

LEMMA HeldIs == Typed => HeldCounted
<1> SUFFICES ASSUME Typed PROVE HeldCounted
  OBVIOUS
<1>1. IsFiniteSet(1 .. Len(leaves))
  BY Rows, FS_Interval
<1>2. IsFiniteSet(DOMAIN leaves)
  BY <1>1, Rows
<1>3. \A t, y : IsFiniteSet(Held(t, y)) /\ Held(t, y) \subseteq DOMAIN leaves
  BY <1>2, FS_Subset DEF Held
<1>4. ASSUME NEW n \in DOMAIN leaves
      PROVE  HalfDays[n] = WorkingDays(leaves[n]) /\ HalfDays[n] \in Nat
  BY DaysCounted DEF HalfDays, Typed
<1> QED BY <1>2, <1>3, <1>4 DEF HeldCounted

\* So too after a step.
LEMMA HeldNext == Typed' => HeldCounted'
BY HeldIs, PTL

\* Where no row is held that was not, and none counts for more, no more is used.
LEMMA UsedFalls ==
    ASSUME Typed, Typed', NEW t, NEW y, Held(t, y)' \subseteq Held(t, y),
           \A n \in Held(t, y)' : WorkingDays(leaves[n])' <= WorkingDays(leaves[n])
    PROVE  Used(t, y) \in Nat /\ Used(t, y)' \in Nat /\ Used(t, y)' <= Used(t, y)
<1> PICK f, g, S, T : f = HalfDays' /\ g = HalfDays /\ S = Held(t, y)' /\ T = Held(t, y)
  OBVIOUS
<1>1. IsFiniteSet(T) /\ \A n \in T : g[n] \in Nat /\ g[n] = WorkingDays(leaves[n])
  BY HeldIs DEF HeldCounted
<1>2. (\A x, z : IsFiniteSet(Held(x, z)) /\ Held(x, z) \subseteq DOMAIN leaves)'
  BY HeldNext DEF HeldCounted
<1>3. (\A n \in DOMAIN leaves : HalfDays[n] = WorkingDays(leaves[n]) /\ HalfDays[n] \in Nat)'
  BY HeldNext DEF HeldCounted
<1>4. \A n \in S : f[n] \in Nat /\ f[n] = WorkingDays(leaves[n])'
  BY <1>2, <1>3
<1>5. S \in SUBSET T /\ \A n \in S : f[n] <= g[n]
  BY <1>1, <1>4
<1>6. Total(f, S) \in Nat /\ Total(g, T) \in Nat /\ Total(f, S) <= Total(g, T)
  BY <1>1, <1>4, <1>5, TotalGrows
<1>7. Used(t, y) = Total(g, T) /\ Used(t, y)' = Total(f, S)
  BY SumIs DEF Used
<1> QED BY <1>6, <1>7

\* The days of leave of one more row are added, where it is held.
LEMMA UsedGrows ==
    ASSUME Typed, Typed', NEW l, RowOK(l), l.status \in Active, ~ l.deleted,
           leaves' = Append(leaves, l), holidays' = holidays, NEW t, NEW y
    PROVE  /\ Used(t, y) \in Nat
           /\ (l.teacher # t \/ l.type # y) => Used(t, y)' = Used(t, y)
           /\ (l.teacher = t /\ l.type = y) => Used(t, y)' = Used(t, y) + WorkingDays(l)
<1> PICK f, g, S, T : f = HalfDays' /\ g = HalfDays /\ S = Held(t, y)' /\ T = Held(t, y)
  OBVIOUS
<1>1. PICK new : /\ DOMAIN leaves' = (DOMAIN leaves) \cup {new} /\ new \notin DOMAIN leaves
                 /\ \A n \in DOMAIN leaves : leaves'[n] = leaves[n]
                 /\ leaves'[new] = l
  BY AppendTyped, Rows
<1>2. IsFiniteSet(T) /\ T \subseteq DOMAIN leaves /\ \A n \in T : g[n] \in Nat /\ g[n] = WorkingDays(leaves[n])
  BY HeldIs DEF HeldCounted
<1>3. \A k : WorkingDays(k)' = WorkingDays(k)
  BY DEF WorkingDays
<1>4. \A n \in DOMAIN leaves' : f[n] = WorkingDays(leaves'[n])
  BY <1>3 DEF HalfDays
<1>5. f[new] = WorkingDays(l) /\ \A n \in T : f[n] = g[n]
  BY <1>1, <1>2, <1>4
<1>6. f[new] \in Nat
  BY <1>5, DaysCounted
<1>7. Total(f, T) = Total(g, T) /\ Total(g, T) \in Nat
  <2>1. Total(f, T) = Total(g, T)
    BY <1>2, <1>5, TotalSame
  <2> QED BY <2>1, <1>2, TotalIsNat
<1>8. Used(t, y) = Total(g, T) /\ Used(t, y)' = Total(f, S)
  BY SumIs DEF Used
<1>9. CASE l.teacher # t \/ l.type # y
  <2>1. S = T
    BY <1>1, <1>9 DEF Held
  <2> QED BY <1>7, <1>8, <1>9, <2>1
<1>10. CASE l.teacher = t /\ l.type = y
  <2>1. S = T \cup {new}
    BY <1>1, <1>10 DEF Held
  <2>2. \A n \in T \cup {new} : f[n] \in Int
    BY <1>2, <1>5, <1>6
  <2>3. Total(f, T \cup {new}) = Total(f, T) + f[new]
    BY <1>1, <1>2, <2>2, TotalOneMore
  <2> QED BY <1>5, <1>7, <1>8, <1>10, <2>1, <2>3
<1> QED BY <1>9, <1>10

\* What happened when a quota is overdrawn that was not.
ByOffice(y) ==
    \/ quota'[y] # quota[y]
    \/ Len(holidays') < Len(holidays)
    \/ Len(leaves') > Len(leaves) /\ ~ Last(leaves').own

\* A quota is a number, the one of a type without a row too.
LEMMA QuotaIsInt ==
    ASSUME Typed, NEW y \in QuotaType
    PROVE  quota[y] \in Int
<1>1. quota[y] \in Quotas \cup {NoQuota}
  BY DEF Typed
<1>2. Quotas \subseteq Nat
  BY LeaveAssumption DEF LeaveAssumption
<1>3. NoQuota \in Int
  BY DEF NoQuota
<1>4. \A q \in Quotas \cup {NoQuota} : q \in Int
  BY <1>2, <1>3
<1> HIDE DEF NoQuota
<1> QED BY <1>1, <1>4

\* Fewer days used, and the same quota: what was not overdrawn is not.
LEMMA NotOverdrawn ==
    ASSUME Typed, Typed', NEW t, NEW y \in QuotaType, quota'[y] = quota[y], ~ Overdrawn(t, y),
           Held(t, y)' \subseteq Held(t, y),
           \A n \in Held(t, y)' : WorkingDays(leaves[n])' <= WorkingDays(leaves[n])
    PROVE  ~ Overdrawn(t, y)'
<1>1. Used(t, y) \in Nat /\ Used(t, y)' \in Nat /\ Used(t, y)' <= Used(t, y)
  BY UsedFalls
<1>2. quota[y] \in Int
  BY QuotaIsInt
<1>3. SUFFICES ASSUME Overdrawn(t, y)' PROVE FALSE
  OBVIOUS
<1>4. quota[y] # NoQuota /\ Used(t, y)' > quota[y]
  BY <1>3 DEF Overdrawn
<1>5. ~ (Used(t, y) > quota[y])
  BY <1>4 DEF Overdrawn
<1> PICK a, b, q : a = Used(t, y) /\ b = Used(t, y)' /\ q = quota[y]
  OBVIOUS
<1>6. a \in Nat /\ b \in Nat /\ b <= a /\ q \in Int /\ b > q /\ ~ (a > q)
  BY <1>1, <1>2, <1>4, <1>5
<1> QED BY <1>6

\* Rows that keep their columns, but for one that stays as active as it was or is
\* active no more.
LEMMA RowSettled ==
    ASSUME Typed, Typed', NEW n \in DOMAIN leaves, DOMAIN leaves' = DOMAIN leaves,
           \A k \in (DOMAIN leaves) \ {n} : leaves'[k] = leaves[k],
           leaves'[n].teacher = leaves[n].teacher, leaves'[n].from = leaves[n].from,
           leaves'[n].to = leaves[n].to, leaves'[n].type = leaves[n].type,
           leaves'[n].half = leaves[n].half,
           (leaves'[n].status \in Active /\ ~ leaves'[n].deleted)
               => leaves[n].status \in Active /\ ~ leaves[n].deleted,
           holidays' = holidays, quota' = quota, NEW t, NEW y \in QuotaType, ~ Overdrawn(t, y)
    PROVE  ~ Overdrawn(t, y)'
<1>1. Held(t, y)' \subseteq Held(t, y)
  BY DEF Held
<1>2. ASSUME NEW k \in Held(t, y)'
      PROVE  WorkingDays(leaves[k])' <= WorkingDays(leaves[k])
  <2>1. k \in DOMAIN leaves
    BY DEF Held
  <2>2. /\ leaves'[k].from = leaves[k].from /\ leaves'[k].to = leaves[k].to
        /\ leaves'[k].half = leaves[k].half
    BY <2>1
  <2>3. WorkingDays(leaves[k])' = WorkingDays(leaves[k])
    BY <2>2 DEF WorkingDays
  <2>4. WorkingDays(leaves[k]) \in Nat
    BY <2>1, DaysCounted DEF Typed
  <2> QED BY <2>3, <2>4
<1> QED BY <1>1, <1>2, NotOverdrawn

\* An application that finds the quota as it tested it does not overdraw it.
LEMMA ApplyWithinQuota ==
    ASSUME Typed, Calm, Typed', NEW c \in Clerk, CommitApply(c), ~ raced',
           NEW t, NEW y \in QuotaType, ~ Overdrawn(t, y)
    PROVE  ~ Overdrawn(t, y)'
<1> DEFINE l == desk[c].leave
<1>1. /\ leaves' = Append(leaves, l) /\ quota' = quota /\ holidays' = holidays
      /\ desk[c].kind = "apply" /\ ~ raced
  BY DEF CommitApply, End
<1>2. RowOK(l) /\ l.status \in Active /\ ~ l.deleted
  BY <1>1, Kinds DEF Typed, IsApply, Active
<1>3. WithinQuota(l)
  BY <1>1 DEF Calm, StillSo
<1> HIDE DEF l
<1>4. /\ Used(t, y) \in Nat
      /\ (l.teacher # t \/ l.type # y) => Used(t, y)' = Used(t, y)
      /\ (l.teacher = t /\ l.type = y) => Used(t, y)' = Used(t, y) + WorkingDays(l)
  BY <1>1, <1>2, UsedGrows
<1>5. (l.teacher = t /\ l.type = y /\ quota[y] # NoQuota) => Used(t, y) + WorkingDays(l) <= quota[y]
  BY <1>3 DEF WithinQuota
<1>6. WorkingDays(l) \in Nat /\ quota[y] \in Int
  BY <1>2, DaysCounted, QuotaIsInt
<1>7. SUFFICES ASSUME Overdrawn(t, y)' PROVE FALSE
  OBVIOUS
<1>8. quota[y] # NoQuota /\ Used(t, y)' > quota[y]
  BY <1>1, <1>7 DEF Overdrawn
<1>9. ~ (Used(t, y) > quota[y])
  BY <1>8 DEF Overdrawn
<1> PICK a, b, q, d : a = Used(t, y) /\ b = Used(t, y)' /\ q = quota[y] /\ d = WorkingDays(l)
  OBVIOUS
<1>10. a \in Nat /\ q \in Int /\ d \in Nat /\ b > q /\ ~ (a > q)
  BY <1>4, <1>6, <1>8, <1>9
<1>11. CASE l.teacher = t /\ l.type = y
  <2>1. b = a + d /\ a + d <= q
    BY <1>4, <1>5, <1>8, <1>11
  <2> QED BY <1>10, <2>1
<1>12. CASE ~ (l.teacher = t /\ l.type = y)
  <2>1. b = a
    BY <1>4, <1>12
  <2> QED BY <1>10, <2>1
<1> QED BY <1>11, <1>12

\* A step on leave overdraws a quota only by an act of the office, or raced.
LEMMA OverdrawStep ==
    Typed /\ Calm /\ [LeaveNext]_leaveVars
        => [\A t \in Teacher, type \in QuotaType :
               (Overdrawn(t, type)' /\ ~ Overdrawn(t, type) /\ ~ raced')
                   => \/ quota'[type] # quota[type]
                      \/ Len(holidays') < Len(holidays)
                      \/ Len(leaves') > Len(leaves) /\ ~ Last(leaves').own]_leaveVars
<1> SUFFICES ASSUME Typed, Calm, LeaveNext, NEW t \in Teacher, NEW y \in QuotaType,
                    Overdrawn(t, y)', ~ Overdrawn(t, y), ~ raced'
             PROVE  ByOffice(y)
  BY DEF ByOffice
<1> Typed'
  BY NextKeeps
<1>1. ASSUME UNCHANGED leaveTables
      PROVE  FALSE
  <2>1. leaves' = leaves /\ quota' = quota /\ holidays' = holidays
    BY <1>1 DEF leaveTables
  <2>2. \A l : WorkingDays(l)' = WorkingDays(l)
    BY <2>1 DEF WorkingDays
  <2>3. HalfDays' = HalfDays /\ Held(t, y)' = Held(t, y)
    BY <2>1, <2>2 DEF HalfDays, Held
  <2>4. Used(t, y)' = Used(t, y)
    BY <2>3 DEF Used
  <2> QED BY <2>1, <2>4 DEF Overdrawn
<1>2. ASSUME NEW c \in Clerk, CommitApply(c)
      PROVE  FALSE
  BY <1>2, ApplyWithinQuota
<1>3. ASSUME NEW c \in Clerk, CommitSettle(c)
      PROVE  FALSE
  <2>1. PICK n \in DOMAIN leaves :
            /\ desk[c].kind = "settle" /\ n = desk[c].leave
            /\ DOMAIN leaves' = DOMAIN leaves
            /\ \A k \in (DOMAIN leaves) \ {n} : leaves'[k] = leaves[k]
            /\ leaves'[n] = [leaves[n] EXCEPT !.status = desk[c].verdict]
            /\ End(c) /\ quota' = quota /\ holidays' = holidays
    BY <1>3, SettleEffect
  <2>2. leaves[n].status = "pending" /\ leaves[n] \in LeaveRow
    BY <2>1 DEF Calm, StillSo, End, Typed, RowOK
  <2>3. /\ leaves'[n].teacher = leaves[n].teacher /\ leaves'[n].from = leaves[n].from
        /\ leaves'[n].to = leaves[n].to /\ leaves'[n].type = leaves[n].type
        /\ leaves'[n].half = leaves[n].half /\ leaves'[n].deleted = leaves[n].deleted
    BY <2>1, <2>2 DEF LeaveRow
  <2>4. leaves[n].status \in Active
    BY <2>2 DEF Active
  <2> QED BY <2>1, <2>3, <2>4, RowSettled
<1>4. ASSUME NEW c \in Clerk, CommitHoliday(c)
      PROVE  FALSE
  <2>1. leaves' = leaves /\ quota' = quota /\ holidays' = Append(holidays, desk[c].day)
    BY <1>4 DEF CommitHoliday
  <2>2. holidays \in Seq(Holidays) /\ desk[c].day \in Holidays
    BY <1>4, Kinds DEF CommitHoliday, Typed, IsHoliday
  <2>3. ToSet(holidays) \subseteq ToSet(holidays)'
    BY <2>1, <2>2, AppendFacts DEF ToSet
  <2>4. Held(t, y)' = Held(t, y) /\ Held(t, y) \subseteq DOMAIN leaves
    BY <2>1 DEF Held
  <2>5. \A n \in Held(t, y)' : WorkingDays(leaves[n])' <= WorkingDays(leaves[n])
    <3>1. \A l : RowOK(l) => WorkingDays(l)' <= WorkingDays(l)
      BY <2>3, HolidaysSpare
    <3>2. SUFFICES ASSUME NEW n \in Held(t, y)'
                   PROVE  WorkingDays(leaves[n])' <= WorkingDays(leaves[n])
      OBVIOUS
    <3>3. RowOK(leaves[n])
      BY <2>4, <3>2 DEF Typed
    <3>4. PICK l : l = leaves[n]
      OBVIOUS
    <3>5. leaves'[n] = l
      BY <2>1, <3>4
    <3>6. WorkingDays(l)' <= WorkingDays(l)
      BY <3>1, <3>3, <3>4
    <3>7. WorkingDays(leaves[n])' = WorkingDays(l)'
      BY <3>5 DEF WorkingDays
    <3> QED BY <3>4, <3>6, <3>7
  <2> QED BY <2>1, <2>4, <2>5, NotOverdrawn
<1>5. ASSUME NEW x \in Teacher, NEW s \in Spans, AddLeave(x, s)
      PROVE  ByOffice(y)
  <2> DEFINE l == LeaveOf(x, s, "casual", FALSE, "approved")
  <2>1. leaves' = Append(leaves, l) /\ RowOK(l) /\ ~ l.own
    BY <1>5, LeaveAssumption, LeaveOfOK DEF AddLeave
  <2> HIDE DEF l
  <2>2. leaves \in Seq(LeaveRow) /\ l \in LeaveRow
    BY <2>1 DEF Typed, RowOK
  <2>3. Len(leaves') > Len(leaves) /\ Last(leaves') = l
    BY <2>1, <2>2 DEF Last
  <2> QED BY <2>1, <2>3 DEF ByOffice
<1>6. ASSUME NEW n \in DOMAIN leaves, DeleteLeave(n)
      PROVE  FALSE
  <2>1. leaves[n] \in LeaveRow /\ leaves' = [leaves EXCEPT ![n] = [leaves[n] EXCEPT !.deleted = TRUE]]
        /\ quota' = quota /\ holidays' = holidays
    BY <1>6 DEF DeleteLeave, Typed, RowOK
  <2>2. /\ DOMAIN leaves' = DOMAIN leaves
        /\ \A k \in (DOMAIN leaves) \ {n} : leaves'[k] = leaves[k]
        /\ leaves'[n] = [leaves[n] EXCEPT !.deleted = TRUE]
    BY <2>1
  <2>3. /\ leaves'[n].teacher = leaves[n].teacher /\ leaves'[n].from = leaves[n].from
        /\ leaves'[n].to = leaves[n].to /\ leaves'[n].type = leaves[n].type
        /\ leaves'[n].half = leaves[n].half /\ leaves'[n].deleted
    BY <2>1, <2>2 DEF LeaveRow
  <2> QED BY <2>1, <2>2, <2>3, RowSettled
<1>7. ASSUME NEW z \in QuotaType, NEW q \in Quotas, SetQuota(z, q)
      PROVE  ByOffice(y)
  <2>1. CASE quota'[y] # quota[y]
    BY <2>1 DEF ByOffice
  <2>2. CASE quota'[y] = quota[y]
    <3>1. leaves' = leaves /\ holidays' = holidays
      BY <1>7 DEF SetQuota
    <3>2. \A l : WorkingDays(l)' = WorkingDays(l)
      BY <3>1 DEF WorkingDays
    <3>3. HalfDays' = HalfDays /\ Held(t, y)' = Held(t, y)
      BY <3>1, <3>2 DEF HalfDays, Held
    <3>4. Used(t, y)' = Used(t, y)
      BY <3>3 DEF Used
    <3> QED BY <2>2, <3>4 DEF Overdrawn
  <2> QED BY <2>1, <2>2
<1>8. ASSUME NEW n \in DOMAIN holidays, DeleteHoliday(n)
      PROVE  ByOffice(y)
  <2>1. holidays \in Seq(Holidays) /\ holidays' = RemoveAt(holidays, n)
    BY <1>8 DEF DeleteHoliday, Typed
  <2>2. Len(holidays') < Len(holidays)
    BY <2>1, RemoveAtFacts
  <2> QED BY <2>2 DEF ByOffice
<1>9. \/ UNCHANGED leaveTables
      \/ \E c \in Clerk : CommitApply(c) \/ CommitSettle(c) \/ CommitHoliday(c)
      \/ \E x \in Teacher, s \in Spans : AddLeave(x, s)
      \/ \E n \in DOMAIN leaves : DeleteLeave(n)
      \/ \E z \in QuotaType, q \in Quotas : SetQuota(z, q)
      \/ \E n \in DOMAIN holidays : DeleteHoliday(n)
  BY DEF LeaveNext, BeginApply, BeginSettle, BeginHoliday, GiveUp
<1> QED BY <1>1, <1>2, <1>3, <1>4, <1>5, <1>6, <1>7, <1>8, <1>9

(* An application and its decision never spend more than the quota: where   *)
(* one is overdrawn that was not, an administrator gave leave, changed the  *)
(* quota or took a holiday back, or two requests were under way at once.    *)
THEOREM QuotasHold == LeaveSpec => OnlyOfficeOverdraws
BY OverdrawStep, InitKeeps, NextKeeps, PTL DEF LeaveSpec, OnlyOfficeOverdraws

-----------------------------------------------------------------------------
(* Lectures.                                                               *)

LectureShape(l) ==
    l = [teacher |-> l.teacher, batch |-> l.batch, room |-> l.room, day |-> l.day,
         from |-> l.from, to |-> l.to, status |-> l.status, began |-> l.began,
         late |-> l.late, substitute |-> l.substitute, reason |-> l.reason,
         deleted |-> l.deleted]

\* The plan of a row.
Placed(l) ==
    /\ l.teacher \in Teacher /\ l.batch \in Batch /\ l.day \in Days
    /\ l.from \in Nat /\ l.to \in Nat /\ l.from < l.to

\* A row; nobody has found a lecture late that has not begun, and nobody stands
\* in for themselves.
LectureOK(l) ==
    /\ LectureShape(l) /\ Placed(l)
    /\ l.substitute \in (Teacher \ {l.teacher}) \cup {NoTeacher}
    /\ l.began \in Hours \cup {NoHour}
    /\ l.status \in {"scheduled", "started", "completed", "cancelled", "no_show"}
    /\ l.status = "no_show" => l.reason \in NoShowReasons /\ l.substitute = NoTeacher
    /\ l.late # "unknown" => l.late = Lateness(l, l.began)
    /\ l.status \in {"scheduled", "no_show"} => l.late = "unknown"

\* The rows are numbered.
IsTable(rows) == \E S : rows \in Seq(S)

Occupies(l) == ~ l.deleted /\ l.status \in Occupying
Clash(a, b) ==
    SameTime(a, b) /\ (TeacherConflict(a, b) \/ BatchConflict(a, b) \/ ClassroomConflict(a, b))

LecturesInv ==
    /\ IsTable(lectures) /\ \A n \in DOMAIN lectures : LectureOK(lectures[n])
    /\ NoDoubleBooking

SlotsInv == \A s \in timetable : InOrder(s)

-----------------------------------------------------------------------------
(* Clashes.                                                                 *)

LEMMA ClashBothWays == \A a, b : Clash(a, b) => Clash(b, a)
BY DEF Clash, SameTime, TeacherConflict, BatchConflict, ClassroomConflict

LEMMA NoConflict ==
    ASSUME NEW l, NEW rows, NEW except, ~ Conflict(l, rows, except)
    PROVE  \A n \in (DOMAIN rows) \ except : ~ (Occupies(rows[n]) /\ Clash(l, rows[n]))
BY DEF Conflict, Occupies, Clash

LEMMA BookedOnce ==
    NoDoubleBooking <=> \A m, n \in DOMAIN lectures :
        (m # n /\ Occupies(lectures[m]) /\ Occupies(lectures[n]))
            => ~ Clash(lectures[m], lectures[n])
BY DEF NoDoubleBooking, Occupies, Clash

-----------------------------------------------------------------------------
(* One row changes.                                                         *)

\* A row that changes occupies nobody, or stays where it was, or was tested.
Fits(n, new) ==
    \/ ~ Occupies(new)
    \/ /\ Occupies(lectures[n]) /\ new.teacher = lectures[n].teacher
       /\ new.batch = lectures[n].batch /\ new.room = lectures[n].room
       /\ new.day = lectures[n].day /\ new.from = lectures[n].from /\ new.to = lectures[n].to
    \/ ~ Conflict(new, lectures, {n})

\* The outcome of a row that changes stands.
Stands(n, new) ==
    lectures[n].status \in {"completed", "cancelled"} => new.status = lectures[n].status

OutcomeStep == [\A n \in DOMAIN lectures :
                 lectures[n].status \in {"completed", "cancelled"}
                     => lectures'[n].status = lectures[n].status]_lecturesVars

LEMMA TableFacts ==
    ASSUME NEW rows, IsTable(rows)
    PROVE  Len(rows) \in Nat /\ DOMAIN rows = 1 .. Len(rows)
BY LenProperties DEF IsTable

LEMMA TableChanged ==
    ASSUME NEW rows, IsTable(rows), NEW n \in DOMAIN rows, NEW new
    PROVE  /\ IsTable([rows EXCEPT ![n] = new])
           /\ DOMAIN [rows EXCEPT ![n] = new] = DOMAIN rows
           /\ [rows EXCEPT ![n] = new][n] = new
           /\ \A m \in (DOMAIN rows) \ {n} : [rows EXCEPT ![n] = new][m] = rows[m]
<1>1. PICK S : rows \in Seq(S)
  BY DEF IsTable
<1>2. PICK T : T = S \cup {new}
  OBVIOUS
<1>3. rows \in Seq(T) /\ new \in T
  BY <1>1, <1>2
<1>4. [rows EXCEPT ![n] = new] \in Seq(T)
  BY <1>3
<1> QED BY <1>3, <1>4 DEF IsTable

LEMMA RowChanged ==
    ASSUME LecturesInv, NEW n \in DOMAIN lectures, NEW new, LectureOK(new),
           Fits(n, new), Stands(n, new), lectures' = [lectures EXCEPT ![n] = new]
    PROVE  LecturesInv' /\ OutcomeStep
<1>1. /\ DOMAIN lectures' = DOMAIN lectures
      /\ lectures'[n] = new /\ \A m \in (DOMAIN lectures) \ {n} : lectures'[m] = lectures[m]
  BY TableChanged DEF LecturesInv
<1>2. IsTable(lectures')
  BY TableChanged DEF LecturesInv
<1>3. \A m \in DOMAIN lectures' : LectureOK(lectures'[m])
  BY <1>1 DEF LecturesInv
<1>4. ASSUME NEW m \in (DOMAIN lectures) \ {n}, Occupies(lectures[m]), Occupies(new)
      PROVE  ~ Clash(new, lectures[m]) /\ ~ Clash(lectures[m], new)
  <2>1. ~ Clash(new, lectures[m])
    <3>1. CASE ~ Conflict(new, lectures, {n})
      BY <1>4, <3>1, NoConflict
    <3>2. CASE /\ Occupies(lectures[n]) /\ new.teacher = lectures[n].teacher
               /\ new.batch = lectures[n].batch /\ new.room = lectures[n].room
               /\ new.day = lectures[n].day /\ new.from = lectures[n].from
               /\ new.to = lectures[n].to
      <4>1. ~ Clash(lectures[n], lectures[m])
        BY <1>4, <3>2, BookedOnce DEF LecturesInv
      <4> QED BY <3>2, <4>1 DEF Clash, SameTime, TeacherConflict, BatchConflict, ClassroomConflict
    <3> QED BY <1>4, <3>1, <3>2 DEF Fits
  <2> QED BY <2>1, ClashBothWays
<1>5. NoDoubleBooking'
  <2>1. ASSUME NEW i \in DOMAIN lectures, NEW j \in DOMAIN lectures, i # j,
               Occupies(lectures'[i]), Occupies(lectures'[j])
        PROVE  ~ Clash(lectures'[i], lectures'[j])
    <3>1. CASE i = n
      BY <1>1, <1>4, <2>1, <3>1
    <3>2. CASE j = n
      BY <1>1, <1>4, <2>1, <3>2
    <3>3. CASE i # n /\ j # n
      BY <1>1, <2>1, <3>3, BookedOnce DEF LecturesInv
    <3> QED BY <3>1, <3>2, <3>3
  <2> QED BY <1>1, <2>1 DEF NoDoubleBooking, Occupies, Clash
<1>6. OutcomeStep
  BY <1>1 DEF Stands, OutcomeStep
<1> QED BY <1>2, <1>3, <1>5, <1>6 DEF LecturesInv

-----------------------------------------------------------------------------
(* The life of a lecture.                                                   *)

Fields == {"teacher", "batch", "room", "day", "from", "to", "status", "began", "late",
           "substitute", "reason", "deleted"}

LEMMA FieldsOf ==
    ASSUME NEW l, LectureShape(l)
    PROVE  DOMAIN l = Fields
BY DEF LectureShape, Fields

LEMMA ShapeOf ==
    ASSUME NEW m, DOMAIN m = Fields, m = [f \in Fields |-> m[f]]
    PROVE  LectureShape(m)
BY DEF LectureShape, Fields

LEMMA StartKeeps ==
    ASSUME LecturesInv, NEW n \in DOMAIN lectures, NEW h \in Hours, Start(n, h)
    PROVE  LecturesInv' /\ OutcomeStep
<1>1. PICK l : l = lectures[n]
  OBVIOUS
<1>2. LectureOK(l) /\ DOMAIN l = Fields
  BY <1>1, FieldsOf DEF LecturesInv, LectureOK
<1>3. PICK m : m = [l EXCEPT !.status = "started", !.began = h]
  OBVIOUS
<1>4. LectureShape(m)
  BY <1>2, <1>3, ShapeOf
<1>5. /\ m.status = "started" /\ m.began = h
      /\ m.teacher = l.teacher /\ m.batch = l.batch /\ m.room = l.room
      /\ m.day = l.day /\ m.from = l.from /\ m.to = l.to
      /\ m.late = l.late /\ m.substitute = l.substitute /\ m.deleted = l.deleted
  BY <1>2, <1>3 DEF Fields
<1>6. l.status = "scheduled" /\ lectures' = [lectures EXCEPT ![n] = m]
  BY <1>1, <1>2, <1>3 DEF Start, May, ValidTransitions, Change, LectureOK
<1>7. LectureOK(m)
  BY <1>2, <1>4, <1>5, <1>6 DEF LectureOK, Placed
<1>8. Fits(n, m) /\ Stands(n, m)
  BY <1>1, <1>5, <1>6 DEF Fits, Stands, Occupies, Occupying
<1> QED BY <1>6, <1>7, <1>8, RowChanged

LEMMA CompleteKeeps ==
    ASSUME LecturesInv, NEW n \in DOMAIN lectures, Complete(n)
    PROVE  LecturesInv' /\ OutcomeStep
<1>1. PICK l : l = lectures[n]
  OBVIOUS
<1>2. LectureOK(l) /\ DOMAIN l = Fields
  BY <1>1, FieldsOf DEF LecturesInv, LectureOK
<1>3. PICK m : m = [l EXCEPT !.status = "completed", !.late = Lateness(l, l.began)]
  OBVIOUS
<1>4. LectureShape(m)
  BY <1>2, <1>3, ShapeOf
<1>5. /\ m.status = "completed" /\ m.late = Lateness(l, l.began)
      /\ m.teacher = l.teacher /\ m.batch = l.batch /\ m.day = l.day
      /\ m.from = l.from /\ m.to = l.to /\ m.began = l.began
      /\ m.substitute = l.substitute
  BY <1>2, <1>3 DEF Fields
<1>6. /\ l.status \in {"started", "no_show"}
      /\ lectures' = [lectures EXCEPT ![n] = m]
  BY <1>1, <1>2, <1>3 DEF Complete, May, ValidTransitions, Change, LectureOK
<1>7. LectureOK(m)
  BY <1>2, <1>4, <1>5 DEF LectureOK, Lateness, Placed
<1>8. Fits(n, m) /\ Stands(n, m)
  BY <1>1, <1>5, <1>6 DEF Fits, Stands, Occupies, Occupying
<1> QED BY <1>6, <1>7, <1>8, RowChanged

LEMMA CancelKeeps ==
    ASSUME LecturesInv, NEW n \in DOMAIN lectures, Cancel(n)
    PROVE  LecturesInv' /\ OutcomeStep
<1>1. PICK l : l = lectures[n]
  OBVIOUS
<1>2. LectureOK(l) /\ DOMAIN l = Fields
  BY <1>1, FieldsOf DEF LecturesInv, LectureOK
<1>3. PICK m : m = [l EXCEPT !.status = "cancelled"]
  OBVIOUS
<1>4. LectureShape(m)
  BY <1>2, <1>3, ShapeOf
<1>5. /\ m.status = "cancelled" /\ m.late = l.late
      /\ m.teacher = l.teacher /\ m.batch = l.batch /\ m.day = l.day
      /\ m.from = l.from /\ m.to = l.to /\ m.began = l.began
      /\ m.substitute = l.substitute
  BY <1>2, <1>3 DEF Fields
<1>6. /\ l.status \in {"scheduled", "started"}
      /\ lectures' = [lectures EXCEPT ![n] = m]
  BY <1>1, <1>2, <1>3 DEF Cancel, May, ValidTransitions, Change, LectureOK
<1>7. LectureOK(m)
  BY <1>2, <1>4, <1>5 DEF LectureOK, Lateness, Placed
<1>8. Fits(n, m) /\ Stands(n, m)
  BY <1>1, <1>5, <1>6 DEF Fits, Stands, Occupies, Occupying
<1> QED BY <1>6, <1>7, <1>8, RowChanged

LEMMA NoShowKeeps ==
    ASSUME LecturesInv, NEW n \in DOMAIN lectures,
           NEW why \in NoShowReasons, NoShow(n, why)
    PROVE  LecturesInv' /\ OutcomeStep
<1>1. PICK l : l = lectures[n]
  OBVIOUS
<1>2. LectureOK(l) /\ DOMAIN l = Fields
  BY <1>1, FieldsOf DEF LecturesInv, LectureOK
<1>3. PICK m : m = [l EXCEPT !.status = "no_show", !.reason = why, !.substitute = NoTeacher]
  OBVIOUS
<1>4. LectureShape(m)
  BY <1>2, <1>3, ShapeOf
<1>5. /\ m.status = "no_show" /\ m.reason = why /\ m.substitute = NoTeacher /\ m.late = l.late
      /\ m.teacher = l.teacher /\ m.batch = l.batch /\ m.day = l.day
      /\ m.from = l.from /\ m.to = l.to /\ m.began = l.began
  BY <1>2, <1>3 DEF Fields
<1>6. l.status = "scheduled" /\ lectures' = [lectures EXCEPT ![n] = m]
  BY <1>1, <1>2, <1>3 DEF NoShow, May, ValidTransitions, Change, LectureOK
<1>7. LectureOK(m)
  BY <1>2, <1>4, <1>5, <1>6 DEF LectureOK, Placed
<1>8. Fits(n, m) /\ Stands(n, m)
  BY <1>1, <1>5, <1>6 DEF Fits, Stands, Occupies, Occupying
<1> QED BY <1>6, <1>7, <1>8, RowChanged

LEMMA RescheduleKeeps ==
    ASSUME LecturesInv, NEW n \in DOMAIN lectures, NEW day \in Days, NEW p \in Plans,
           Reschedule(n, day, p)
    PROVE  LecturesInv' /\ OutcomeStep
<1>1. PICK l : l = lectures[n]
  OBVIOUS
<1>2. LectureOK(l) /\ DOMAIN l = Fields
  BY <1>1, FieldsOf DEF LecturesInv, LectureOK
<1>3. PICK m : m = [l EXCEPT !.day = day, !.from = p.from, !.to = p.to,
                             !.room = IF p.room = NoRoom THEN @ ELSE p.room]
  OBVIOUS
<1>4. LectureShape(m)
  BY <1>2, <1>3, ShapeOf
<1>5. /\ m.status = l.status /\ m.late = l.late /\ m.teacher = l.teacher
      /\ m.batch = l.batch /\ m.substitute = l.substitute /\ m.began = l.began
      /\ m.day = day /\ m.from = p.from /\ m.to = p.to
  BY <1>2, <1>3 DEF Fields
<1>6. l.status = "scheduled" /\ lectures' = [lectures EXCEPT ![n] = m]
  BY <1>1, <1>2, <1>3 DEF Reschedule, May, ValidTransitions, Change, LectureOK
<1>7. ~ Conflict(m, lectures, {n})
  BY <1>1, <1>3 DEF Reschedule
<1>8. LectureOK(m)
  <2>1. Placed(m)
    BY <1>2, <1>5, LecturesAssumption DEF LectureOK, Placed, InOrder
  <2> QED BY <1>2, <1>4, <1>5, <1>6, <2>1 DEF LectureOK
<1>9. Fits(n, m) /\ Stands(n, m)
  BY <1>1, <1>5, <1>7 DEF Fits, Stands
<1> QED BY <1>6, <1>8, <1>9, RowChanged

LEMMA RecordActualsKeeps ==
    ASSUME LecturesInv, NEW n \in DOMAIN lectures, NEW began \in Hours \cup {NoHour},
           NEW ended \in BOOLEAN, RecordActuals(n, began, ended)
    PROVE  LecturesInv' /\ OutcomeStep
<1>1. PICK l : l = lectures[n]
  OBVIOUS
<1>2. LectureOK(l) /\ DOMAIN l = Fields
  BY <1>1, FieldsOf DEF LecturesInv, LectureOK
<1>3. PICK hour : hour = IF began = NoHour THEN l.began ELSE began
  OBVIOUS
<1>4. PICK status : status = IF ended \/ l.status = "completed" THEN "completed" ELSE "started"
  OBVIOUS
<1>5. PICK m : m = [l EXCEPT !.began = hour, !.late = Lateness(l, hour), !.status = status]
  OBVIOUS
<1>6. LectureShape(m)
  BY <1>2, <1>5, ShapeOf
<1>7. /\ m.status = status /\ m.late = Lateness(l, hour) /\ m.began = hour
      /\ m.teacher = l.teacher /\ m.batch = l.batch /\ m.room = l.room
      /\ m.day = l.day /\ m.from = l.from /\ m.to = l.to
      /\ m.substitute = l.substitute /\ m.deleted = l.deleted
  BY <1>2, <1>5 DEF Fields
<1>8. /\ l.status \in {"scheduled", "started", "completed"}
      /\ lectures' = [lectures EXCEPT ![n] = m]
  BY <1>1, <1>2, <1>3, <1>4, <1>5 DEF RecordActuals, Change, LectureOK
<1>9. LectureOK(m)
  <2>1. hour \in Hours
    BY <1>1, <1>2, <1>3 DEF RecordActuals, LectureOK
  <2> QED BY <1>2, <1>4, <1>6, <1>7, <2>1 DEF LectureOK, Lateness, Placed
<1>10. Fits(n, m) /\ Stands(n, m)
  BY <1>1, <1>4, <1>7, <1>8 DEF Fits, Stands, Occupies, Occupying
<1> QED BY <1>8, <1>9, <1>10, RowChanged

LEMMA SubstituteKeeps ==
    ASSUME LecturesInv, NEW n \in DOMAIN lectures, NEW t \in Teacher, Substitute(n, t)
    PROVE  LecturesInv' /\ OutcomeStep
<1>1. PICK l : l = lectures[n]
  OBVIOUS
<1>2. LectureOK(l) /\ DOMAIN l = Fields
  BY <1>1, FieldsOf DEF LecturesInv, LectureOK
<1>3. PICK status : status = IF l.status = "no_show" THEN "completed" ELSE l.status
  OBVIOUS
<1>4. PICK m : m = [l EXCEPT !.substitute = t,
                             !.reason = IF l.status = "no_show" THEN NoReason ELSE @,
                             !.status = IF l.status = "no_show" THEN "completed" ELSE @]
  OBVIOUS
<1>5. LectureShape(m)
  BY <1>2, <1>4, ShapeOf
<1>6. /\ m.status = status /\ m.late = l.late /\ m.began = l.began
      /\ m.teacher = l.teacher /\ m.batch = l.batch /\ m.room = l.room
      /\ m.day = l.day /\ m.from = l.from /\ m.to = l.to
      /\ m.substitute = t /\ m.deleted = l.deleted
  BY <1>2, <1>3, <1>4 DEF Fields
<1>7. lectures' = [lectures EXCEPT ![n] = m] /\ t # l.teacher
  BY <1>1, <1>4 DEF Substitute, Change, Accepted
<1>8. LectureOK(m)
  BY <1>2, <1>3, <1>5, <1>6, <1>7 DEF LectureOK, Lateness, Placed
<1>9. Fits(n, m) /\ Stands(n, m)
  BY <1>1, <1>3, <1>6 DEF Fits, Stands, Occupies, Occupying
<1> QED BY <1>7, <1>8, <1>9, RowChanged

LEMMA DeleteLectureKeeps ==
    ASSUME LecturesInv, NEW n \in DOMAIN lectures, DeleteLecture(n)
    PROVE  LecturesInv' /\ OutcomeStep
<1>1. PICK l : l = lectures[n]
  OBVIOUS
<1>2. LectureOK(l) /\ DOMAIN l = Fields
  BY <1>1, FieldsOf DEF LecturesInv, LectureOK
<1>3. PICK m : m = [l EXCEPT !.deleted = TRUE]
  OBVIOUS
<1>4. LectureShape(m)
  BY <1>2, <1>3, ShapeOf
<1>5. /\ m.deleted /\ m.status = l.status /\ m.late = l.late /\ m.began = l.began
      /\ m.teacher = l.teacher /\ m.batch = l.batch /\ m.day = l.day /\ m.from = l.from
      /\ m.to = l.to /\ m.substitute = l.substitute /\ m.reason = l.reason
  BY <1>2, <1>3 DEF Fields
<1>6. lectures' = [lectures EXCEPT ![n] = m]
  BY <1>1, <1>3 DEF DeleteLecture
<1>7. LectureOK(m)
  BY <1>2, <1>4, <1>5 DEF LectureOK, Lateness, Placed
<1>8. Fits(n, m) /\ Stands(n, m)
  BY <1>1, <1>5 DEF Fits, Stands, Occupies
<1> QED BY <1>6, <1>7, <1>8, RowChanged

-----------------------------------------------------------------------------
(* Planning.                                                                *)

LEMMA PlannedOK ==
    ASSUME NEW p, NEW day \in Days, p.teacher \in Teacher, p.batch \in Batch, InOrder(p)
    PROVE  LectureOK(LectureOf(p, day))
<1>1. PICK l : l = LectureOf(p, day)
  OBVIOUS
<1>2. LectureShape(l)
  BY <1>1 DEF LectureOf, LectureShape
<1>3. /\ l.teacher = p.teacher /\ l.batch = p.batch /\ l.day = day
      /\ l.from = p.from /\ l.to = p.to
      /\ l.status = "scheduled" /\ l.late = "unknown" /\ l.began = NoHour
      /\ l.substitute = NoTeacher
  BY <1>1 DEF LectureOf
<1>4. LectureOK(l)
  BY <1>2, <1>3 DEF LectureOK, Placed, InOrder
<1> QED BY <1>1, <1>4

\* Rows are added: none clashes with a lecture of the table, or with a row
\* added before it.
LEMMA RowsAdded ==
    ASSUME LecturesInv, NEW m \in Nat, NEW rows, rows = [i \in 1 .. m |-> rows[i]],
           \A i \in 1 .. m : LectureOK(rows[i]) /\ ~ Conflict(rows[i], lectures, {}),
           \A i, j \in 1 .. m : i < j => ~ (Occupies(rows[i]) /\ Clash(rows[j], rows[i])),
           lectures' = lectures \o rows
    PROVE  LecturesInv' /\ OutcomeStep
<1>1. PICK S : lectures \in Seq(S)
  BY DEF LecturesInv, IsTable
<1>2. PICK T : T = S \cup {rows[i] : i \in 1 .. m}
  OBVIOUS
<1>3. lectures \in Seq(T) /\ rows \in Seq(T) /\ Len(rows) = m
  <2>1. lectures \in Seq(T)
    BY <1>1, <1>2
  <2>2. \A i \in 1 .. m : rows[i] \in T
    BY <1>2
  <2>3. rows \in Seq(T)
    BY <2>2, IsASeq
  <2>4. Len(rows) \in Nat /\ DOMAIN rows = 1 .. Len(rows)
    BY <2>3, LenProperties
  <2> QED BY <2>1, <2>3, <2>4
<1>4. PICK k : k = Len(lectures)
  OBVIOUS
<1>5. k \in Nat /\ DOMAIN lectures = 1 .. k
  BY <1>1, <1>4, LenProperties
<1>6. /\ lectures' \in Seq(T) /\ DOMAIN lectures' = 1 .. k + m
      /\ \A i \in 1 .. k : lectures'[i] = lectures[i]
      /\ \A i \in k + 1 .. k + m : lectures'[i] = rows[i - k]
  <2>1. /\ lectures \o rows \in Seq(T)
        /\ Len(lectures \o rows) = Len(lectures) + Len(rows)
        /\ \A i \in 1 .. Len(lectures) + Len(rows) :
              (lectures \o rows)[i]
                  = IF i <= Len(lectures) THEN lectures[i] ELSE rows[i - Len(lectures)]
    BY <1>3, ConcatProperties
  <2>2. lectures' \in Seq(T) /\ Len(lectures') = k + m
    BY <1>3, <1>4, <2>1
  <2>3. DOMAIN lectures' = 1 .. k + m
    BY <2>2, LenProperties
  <2>4. \A i \in 1 .. k + m : lectures'[i] = IF i <= k THEN lectures[i] ELSE rows[i - k]
    BY <1>3, <1>4, <2>1
  <2> QED BY <1>5, <2>2, <2>3, <2>4
<1>7. \A i \in k + 1 .. k + m : i - k \in 1 .. m
  BY <1>5
<1>8. \A i \in 1 .. k + m : i \in 1 .. k \/ i \in k + 1 .. k + m
  BY <1>5
<1>9. \A i \in DOMAIN lectures' : LectureOK(lectures'[i])
  BY <1>5, <1>6, <1>7, <1>8 DEF LecturesInv
<1>10. \A i \in 1 .. m, j \in 1 .. k : ~ (Occupies(lectures[j]) /\ Clash(rows[i], lectures[j]))
  <2> SUFFICES ASSUME NEW i \in 1 .. m
               PROVE  \A j \in 1 .. k : ~ (Occupies(lectures[j]) /\ Clash(rows[i], lectures[j]))
    OBVIOUS
  <2>1. PICK none : none = {}
    OBVIOUS
  <2>2. ~ Conflict(rows[i], lectures, none)
    BY <2>1
  <2>3. \A j \in (DOMAIN lectures) \ none : ~ (Occupies(lectures[j]) /\ Clash(rows[i], lectures[j]))
    BY <2>2, NoConflict
  <2> QED BY <1>5, <2>1, <2>3
<1>11. ASSUME NEW a \in 1 .. k + m, NEW b \in 1 .. k + m, a < b,
              Occupies(lectures'[a]), Occupies(lectures'[b])
       PROVE  ~ Clash(lectures'[a], lectures'[b]) /\ ~ Clash(lectures'[b], lectures'[a])
  <2>1. CASE b \in 1 .. k
    <3>1. a \in 1 .. k /\ a # b
      BY <1>5, <1>11, <2>1
    <3> QED BY <1>5, <1>6, <1>11, <2>1, <3>1, BookedOnce DEF LecturesInv
  <2>2. CASE a \in 1 .. k /\ b \in k + 1 .. k + m
    <3>1. ~ Clash(lectures'[b], lectures'[a])
      BY <1>6, <1>7, <1>10, <1>11, <2>2
    <3> QED BY <3>1, ClashBothWays
  <2>3. CASE a \in k + 1 .. k + m /\ b \in k + 1 .. k + m
    <3>1. a - k \in 1 .. m /\ b - k \in 1 .. m /\ a - k < b - k
      BY <1>5, <1>11, <2>3
    <3>2. ~ Clash(lectures'[b], lectures'[a])
      BY <1>6, <1>11, <2>3, <3>1
    <3> QED BY <3>2, ClashBothWays
  <2> QED BY <1>5, <1>8, <1>11, <2>1, <2>2, <2>3
<1>12. NoDoubleBooking'
  <2>1. ASSUME NEW a \in 1 .. k + m, NEW b \in 1 .. k + m, a # b,
               Occupies(lectures'[a]), Occupies(lectures'[b])
        PROVE  ~ Clash(lectures'[a], lectures'[b])
    <3>1. a < b \/ b < a
      BY <1>5, <2>1
    <3> QED BY <1>11, <2>1, <3>1
  <2> QED BY <1>6, <2>1 DEF NoDoubleBooking, Occupies, Clash
<1>13. OutcomeStep
  BY <1>5, <1>6 DEF OutcomeStep
<1> QED BY <1>6, <1>9, <1>12, <1>13 DEF LecturesInv, IsTable

LEMMA ScheduleKeeps ==
    ASSUME LecturesInv, NEW p \in Plans, NEW day \in Days, Schedule(p, day)
    PROVE  LecturesInv' /\ OutcomeStep
<1>1. PICK l : l = LectureOf(p, day)
  OBVIOUS
<1>2. LectureOK(l)
  BY <1>1, PlannedOK, LecturesAssumption
<1>3. PICK rows : rows = [i \in 1 .. 1 |-> l]
  OBVIOUS
<1>4. <<l>> = rows
  BY <1>3
<1>5. ~ Conflict(l, lectures, {}) /\ lectures' = lectures \o rows
  BY <1>1, <1>4 DEF Schedule, Insert
<1>6. /\ rows = [i \in 1 .. 1 |-> rows[i]]
      /\ \A i \in 1 .. 1 : LectureOK(rows[i]) /\ ~ Conflict(rows[i], lectures, {})
      /\ \A i, j \in 1 .. 1 : i < j => ~ (Occupies(rows[i]) /\ Clash(rows[j], rows[i]))
  BY <1>2, <1>3, <1>5
<1> QED BY <1>5, <1>6, RowsAdded

\* What a bulk request adds is tested against the table and against itself.
LEMMA AdmittedKeeps ==
    ASSUME LecturesInv, NEW candidates, NEW admissible,
           \A k \in admissible : LectureOK(candidates[k]),
           InsertAdmitted(candidates, admissible)
    PROVE  LecturesInv' /\ OutcomeStep
<1>1. PICK added \in SUBSET admissible, n \in 1 .. MaxLectures :
          /\ Admitted(candidates, admissible, added)
          /\ \E order \in [1 .. n -> added] :
                /\ \A k \in added : \E i \in 1 .. n : order[i] = k
                /\ \A i, j \in 1 .. n : i < j => order[i] < order[j]
                /\ Insert([i \in 1 .. n |-> candidates[order[i]]])
  BY DEF InsertAdmitted
<1>2. PICK order \in [1 .. n -> added] :
          /\ \A i, j \in 1 .. n : i < j => order[i] < order[j]
          /\ Insert([i \in 1 .. n |-> candidates[order[i]]])
  BY <1>1
<1>3. PICK rows : rows = [i \in 1 .. n |-> candidates[order[i]]]
  OBVIOUS
<1>4. lectures' = lectures \o rows /\ rows = [i \in 1 .. n |-> rows[i]]
  BY <1>2, <1>3 DEF Insert
<1>5. ASSUME NEW k \in added
      PROVE  /\ LectureOK(candidates[k]) /\ ~ Conflict(candidates[k], lectures, {})
             /\ ~ Conflict(candidates[k], [j \in {i \in added : i < k} |-> candidates[j]], {})
  BY <1>1, <1>5 DEF Admitted
<1>6. \A i \in 1 .. n : LectureOK(rows[i]) /\ ~ Conflict(rows[i], lectures, {})
  BY <1>2, <1>3, <1>5
<1>7. ASSUME NEW k \in added, NEW i \in added, i < k
      PROVE  ~ (Occupies(candidates[i]) /\ Clash(candidates[k], candidates[i]))
  <2>1. PICK before : before = [j \in {x \in added : x < k} |-> candidates[j]]
    OBVIOUS
  <2>2. PICK none : none = {}
    OBVIOUS
  <2>3. ~ Conflict(candidates[k], before, none)
    BY <1>5, <2>1, <2>2
  <2>4. \A x \in (DOMAIN before) \ none : ~ (Occupies(before[x]) /\ Clash(candidates[k], before[x]))
    BY <2>3, NoConflict
  <2>5. i \in (DOMAIN before) \ none /\ before[i] = candidates[i]
    BY <1>7, <2>1, <2>2
  <2> QED BY <2>4, <2>5
<1>8. \A i, j \in 1 .. n : i < j => ~ (Occupies(rows[i]) /\ Clash(rows[j], rows[i]))
  BY <1>2, <1>3, <1>7
<1>9. n \in Nat
  BY LecturesAssumption
<1> QED BY <1>4, <1>6, <1>8, <1>9, RowsAdded

LEMMA CopyKeeps ==
    ASSUME LecturesInv, NEW selected, NEW target \in Days, CopySelected(selected, target)
    PROVE  LecturesInv' /\ OutcomeStep
<1>1. PICK found : found = {k \in DOMAIN selected : /\ selected[k] \in DOMAIN lectures
                                                    /\ ~ lectures[selected[k]].deleted}
  OBVIOUS
<1>2. PICK candidates : candidates = [k \in found |-> LectureOf(lectures[selected[k]], target)]
  OBVIOUS
<1>3. InsertAdmitted(candidates, found)
  BY <1>1, <1>2 DEF CopySelected
<1>4. ASSUME NEW k \in found
      PROVE  LectureOK(candidates[k])
  <2>1. /\ lectures[selected[k]].teacher \in Teacher /\ lectures[selected[k]].batch \in Batch
        /\ InOrder(lectures[selected[k]])
    BY <1>1 DEF LecturesInv, LectureOK, Placed, InOrder
  <2> QED BY <1>2, <2>1, PlannedOK
<1> QED BY <1>3, <1>4, AdmittedKeeps

LEMMA CopyDayKeeps ==
    ASSUME LecturesInv, NEW source, NEW target \in Days, CopyDay(source, target)
    PROVE  LecturesInv' /\ OutcomeStep
<1>1. \E selected : CopySelected(selected, target)
  BY DEF CopyDay
<1> QED BY <1>1, CopyKeeps

LEMMA GenerateKeeps ==
    ASSUME LecturesInv, SlotsInv, NEW from \in Days, NEW to \in Days, Generate(timetable, from, to)
    PROVE  LecturesInv' /\ OutcomeStep
<1> DEFINE days == {d \in from .. to : d \notin ToSet(holidays)}
           dated == {x \in timetable \X days : x[1].weekday = x[2] % Week}
<1>1. PICK inOrder \in SetToSeqs(dated) :
          LET planned == [k \in DOMAIN inOrder |-> LectureOf(inOrder[k][1], inOrder[k][2])]
          IN  InsertAdmitted(planned,
                  {k \in DOMAIN planned : <<planned[k].teacher, planned[k].batch>> \in Qualified})
  BY DEF Generate
<1>2. \A k \in DOMAIN inOrder : inOrder[k] \in dated
  BY DEF SetToSeqs
<1>3. \A x \in dated : InOrder(x[1]) /\ x[2] \in Days
  <2>1. from .. to \subseteq Days
    BY LecturesAssumption
  <2> QED BY <2>1 DEF SlotsInv
<1> HIDE DEF dated
<1>4. PICK planned : planned = [k \in DOMAIN inOrder |-> LectureOf(inOrder[k][1], inOrder[k][2])]
  OBVIOUS
<1>5. PICK admissible : admissible =
          {k \in DOMAIN planned : <<planned[k].teacher, planned[k].batch>> \in Qualified}
  OBVIOUS
<1>6. InsertAdmitted(planned, admissible)
  BY <1>1, <1>4, <1>5
<1>7. ASSUME NEW k \in admissible
      PROVE  LectureOK(planned[k])
  <2>1. k \in DOMAIN inOrder /\ planned[k] = LectureOf(inOrder[k][1], inOrder[k][2])
    BY <1>4, <1>5
  <2>2. /\ planned[k].teacher = inOrder[k][1].teacher
        /\ planned[k].batch = inOrder[k][1].batch
    BY <2>1 DEF LectureOf
  <2>3. planned[k].teacher \in Teacher /\ planned[k].batch \in Batch
    BY <1>5, LecturesAssumption
  <2>4. InOrder(inOrder[k][1]) /\ inOrder[k][2] \in Days
    BY <1>2, <1>3, <2>1
  <2> QED BY <2>1, <2>2, <2>3, <2>4, PlannedOK
<1> QED BY <1>6, <1>7, AdmittedKeeps

-----------------------------------------------------------------------------
(* Lectures and leave together.                                             *)

\* No step on lectures touches leave; like any write without a test, it races
\* with the requests under way.
LEMMA LectureStepIsAside == LectureStep => Aside /\ UNCHANGED leaveTables
<1> SUFFICES ASSUME LectureStep
             PROVE  Aside /\ UNCHANGED leaveTables
  OBVIOUS
<1>1. ASSUME NEW rows, Insert(rows)
      PROVE  Aside /\ UNCHANGED leaveTables
  BY <1>1 DEF Insert
<1>2. ASSUME NEW n, NEW new, Change(n, new)
      PROVE  Aside /\ UNCHANGED leaveTables
  BY <1>2 DEF Change
<1>3. ASSUME NEW selected, NEW target, CopySelected(selected, target)
      PROVE  Aside /\ UNCHANGED leaveTables
  BY <1>1, <1>3 DEF CopySelected, InsertAdmitted
<1>4. ASSUME NEW n, Lifecycle(n)
      PROVE  Aside /\ UNCHANGED leaveTables
  BY <1>2, <1>4 DEF Lifecycle, Start, Complete, Cancel, NoShow, Reschedule, RecordActuals,
                    Substitute
<1>5. ASSUME NEW p, NEW d, Schedule(p, d)
      PROVE  Aside /\ UNCHANGED leaveTables
  BY <1>1, <1>5 DEF Schedule
<1>6. ASSUME NEW d, NEW e, CopyDay(d, e) \/ Generate(timetable, d, e)
      PROVE  Aside /\ UNCHANGED leaveTables
  BY <1>1, <1>3, <1>6 DEF CopyDay, Generate, InsertAdmitted
<1>7. ASSUME NEW b, NEW slots, SetTimetable(b, slots)
      PROVE  Aside /\ UNCHANGED leaveTables
  BY <1>7 DEF SetTimetable
<1>8. ASSUME NEW linked, RecordSession(linked)
      PROVE  Aside /\ UNCHANGED leaveTables
  BY <1>8 DEF RecordSession
<1>9. ASSUME NEW n, DeleteLecture(n)
      PROVE  Aside /\ UNCHANGED leaveTables
  BY <1>9 DEF DeleteLecture
<1> QED BY <1>3, <1>4, <1>5, <1>6, <1>7, <1>8, <1>9 DEF LectureStep

LEMMA LeaveBeside ==
    ASSUME Typed, Calm, LectureStep
    PROVE  Typed' /\ Calm'
<1>1. Aside /\ leaves' = leaves /\ quota' = quota /\ holidays' = holidays
  BY LectureStepIsAside DEF leaveTables
<1>2. Typed'
  BY <1>1, AsideTyped DEF Typed
<1>3. ~ raced => DaysApart' /\ IsInjective(holidays')
  BY <1>1 DEF Calm, DaysApart, Standing
<1> QED BY <1>1, <1>2, <1>3, AsideCalm

LEMMA LecturesUntouched ==
    ASSUME LecturesInv, lectures' = lectures
    PROVE  LecturesInv' /\ OutcomeStep
BY DEF LecturesInv, NoDoubleBooking, OutcomeStep

LEMMA LectureStepKeeps ==
    ASSUME LecturesInv, SlotsInv, LectureStep
    PROVE  LecturesInv' /\ OutcomeStep
<1>1. ASSUME NEW n \in DOMAIN lectures, Lifecycle(n)
      PROVE  LecturesInv' /\ OutcomeStep
  BY <1>1, StartKeeps, CompleteKeeps, CancelKeeps, NoShowKeeps, RescheduleKeeps,
     RecordActualsKeeps, SubstituteKeeps DEF Lifecycle
<1>2. ASSUME NEW p \in Plans, NEW d \in Days, Schedule(p, d)
      PROVE  LecturesInv' /\ OutcomeStep
  BY <1>2, ScheduleKeeps
<1>3. ASSUME NEW d \in Days, NEW e \in Days, CopyDay(d, e) \/ Generate(timetable, d, e)
      PROVE  LecturesInv' /\ OutcomeStep
  BY <1>3, CopyDayKeeps, GenerateKeeps
<1>4. ASSUME NEW n \in DOMAIN lectures, NEW d \in Days, CopySelected(<<n>>, d)
      PROVE  LecturesInv' /\ OutcomeStep
  BY <1>4, CopyKeeps
<1>5. ASSUME NEW b, NEW slots, SetTimetable(b, slots)
      PROVE  LecturesInv' /\ OutcomeStep
  BY <1>5, LecturesUntouched DEF SetTimetable
<1>6. ASSUME NEW linked, RecordSession(linked)
      PROVE  LecturesInv' /\ OutcomeStep
  BY <1>6, LecturesUntouched DEF RecordSession
<1>7. ASSUME NEW n \in DOMAIN lectures, DeleteLecture(n)
      PROVE  LecturesInv' /\ OutcomeStep
  BY <1>7, DeleteLectureKeeps
<1> QED BY <1>1, <1>2, <1>3, <1>4, <1>5, <1>6, <1>7 DEF LectureStep

\* A new pattern is of slots in order; no other request touches the timetable.
LEMMA SlotsKept ==
    ASSUME SlotsInv, LectureStep
    PROVE  SlotsInv'
<1>1. ASSUME timetable' = timetable PROVE SlotsInv'
  BY <1>1 DEF SlotsInv
<1>2. ASSUME NEW b, NEW slots \in Timetables, SetTimetable(b, slots)
      PROVE  SlotsInv'
  BY <1>2, LecturesAssumption DEF SetTimetable, SlotsInv
<1>3. ASSUME NEW rows, Insert(rows) PROVE timetable' = timetable
  BY <1>3 DEF Insert
<1>4. ASSUME NEW n, NEW new, Change(n, new) PROVE timetable' = timetable
  BY <1>4 DEF Change
<1>5. ASSUME NEW selected, NEW target, CopySelected(selected, target)
      PROVE  timetable' = timetable
  BY <1>3, <1>5 DEF CopySelected, InsertAdmitted
<1>6. ASSUME NEW n, Lifecycle(n) PROVE timetable' = timetable
  BY <1>4, <1>6 DEF Lifecycle, Start, Complete, Cancel, NoShow, Reschedule, RecordActuals,
                    Substitute
<1>7. ASSUME NEW p, NEW d, Schedule(p, d) PROVE timetable' = timetable
  BY <1>3, <1>7 DEF Schedule
<1>8. ASSUME NEW d, NEW e, CopyDay(d, e) \/ Generate(timetable, d, e)
      PROVE  timetable' = timetable
  BY <1>3, <1>5, <1>8 DEF CopyDay, Generate, InsertAdmitted
<1>9. ASSUME NEW linked, RecordSession(linked) PROVE timetable' = timetable
  BY <1>9 DEF RecordSession
<1>10. ASSUME NEW n, DeleteLecture(n) PROVE timetable' = timetable
  BY <1>10 DEF DeleteLecture
<1> QED BY <1>1, <1>2, <1>5, <1>6, <1>7, <1>8, <1>9, <1>10 DEF LectureStep

LEMMA LecturesInitKeeps == LecturesInit => LecturesInv /\ SlotsInv
<1> SUFFICES ASSUME LecturesInit
             PROVE  LecturesInv /\ SlotsInv
  OBVIOUS
<1>1. lectures = <<>> /\ timetable = {}
  BY DEF LecturesInit
<1>2. lectures \in Seq({}) /\ DOMAIN lectures = {}
  BY <1>1
<1> QED BY <1>1, <1>2 DEF LecturesInv, IsTable, NoDoubleBooking, SlotsInv

Inv == Typed /\ Calm /\ LecturesInv /\ SlotsInv

LEMMA LecturesInvInductive ==
    /\ LecturesInit => Inv
    /\ Inv /\ [LecturesNext]_lecturesVars => Inv'
<1>1. LecturesInit => Inv
  BY LecturesInitKeeps, InitKeeps DEF LecturesInit, Inv
<1>2. ASSUME Inv, LecturesNext
      PROVE  Inv'
  <2>1. CASE LectureStep
    BY <1>2, <2>1, LeaveBeside, LectureStepKeeps, SlotsKept DEF Inv
  <2>2. CASE LeaveNext /\ UNCHANGED lectureTables
    <3>1. Typed' /\ Calm'
      BY <1>2, <2>2, NextKeeps DEF Inv
    <3>2. LecturesInv' /\ SlotsInv'
      BY <1>2, <2>2, LecturesUntouched DEF Inv, lectureTables, SlotsInv
    <3> QED BY <3>1, <3>2 DEF Inv
  <2> QED BY <1>2, <2>1, <2>2 DEF LecturesNext
<1>3. ASSUME Inv, UNCHANGED lecturesVars
      PROVE  Inv'
  <2>1. Typed' /\ Calm'
    BY <1>3, NextKeeps DEF Inv, lecturesVars
  <2>2. LecturesInv' /\ SlotsInv'
    BY <1>3, LecturesUntouched DEF Inv, lecturesVars, lectureTables, SlotsInv
  <2> QED BY <2>1, <2>2 DEF Inv
<1> QED BY <1>1, <1>2, <1>3

-----------------------------------------------------------------------------
(* Theorems.                                                                *)

(* No teacher, batch or room is planned twice at one time, however lectures *)
(* are scheduled, copied, generated, moved, started, closed and given up:   *)
(* every way into the plan is tested against the whole of it.               *)
THEOREM PlannedOnce == LecturesSpec => []NoDoubleBooking
<1>1. Inv => NoDoubleBooking
  BY DEF Inv, LecturesInv
<1> QED BY <1>1, LecturesInvInductive, PTL DEF LecturesSpec

(* What was settled stays: a lecture that was held or called off is never   *)
(* held, called off or missed again, and no verdict on leave changes while  *)
(* no two requests are under way at once.                                   *)
THEOREM OutcomesAreFinal == LecturesSpec => OutcomesStand
<1>1. Inv /\ [LecturesNext]_lecturesVars => OutcomeStep
  <2> SUFFICES ASSUME Inv, LecturesNext
               PROVE  OutcomeStep
    BY DEF OutcomeStep
  <2>1. CASE LectureStep
    BY <2>1, LectureStepKeeps DEF Inv
  <2>2. CASE UNCHANGED lectureTables
    BY <2>2, LecturesUntouched DEF Inv, lectureTables
  <2> QED BY <2>1, <2>2 DEF LecturesNext
<1>2. Inv /\ [LecturesNext]_lecturesVars
        => [\A n \in DOMAIN leaves :
               (leaves[n].status # "pending" /\ ~ raced)
                   => leaves'[n].status = leaves[n].status]_leaveVars
  <2>1. CASE LectureStep
    BY <2>1, LectureStepIsAside DEF leaveTables
  <2>2. CASE [LeaveNext]_leaveVars
    BY <2>2, SettledStep DEF Inv
  <2>3. [LecturesNext]_lecturesVars => LectureStep \/ [LeaveNext]_leaveVars
    BY DEF LecturesNext, lecturesVars
  <2> QED BY <2>1, <2>2, <2>3
<1> QED BY <1>1, <1>2, LecturesInvInductive, PTL
    DEF LecturesSpec, OutcomesStand, SettledOnce, OutcomeFinal, OutcomeStep

(* What the desks show is true: a no-show has a reason and no substitute,   *)
(* the lateness is that of the hour recorded against the hour scheduled,    *)
(* each lecture with an outcome is counted once, and the picker offers whom *)
(* the request accepts.                                                     *)
THEOREM ReportsAreTrue == LecturesSpec => []ReportsTruthful
<1>1. Inv => NoShowExcludesSubstitute /\ LatenessTruthful
  BY DEF Inv, LecturesInv, LectureOK, NoShowExcludesSubstitute, LatenessTruthful,
         NoShowReasons, NoReason
<1>2. Inv => DeliveryAccounted
  <2> SUFFICES ASSUME Inv
               PROVE  DeliveryAccounted
    OBVIOUS
  <2>1. \A n \in DOMAIN lectures : LectureOK(lectures[n])
    BY DEF Inv, LecturesInv
  <2>2. Assigned = TaughtSelf \cup SubstitutedOut \cup WithStatus({"no_show"})
    BY <2>1 DEF LectureOK, Assigned, TaughtSelf, SubstitutedOut, WithStatus, Shown
  <2>3. TaughtSelf \cap SubstitutedOut = {} /\ SubstitutedOut \cap WithStatus({"no_show"}) = {}
    BY <2>1 DEF LectureOK, Assigned, TaughtSelf, SubstitutedOut, WithStatus, Shown
  <2>4. ASSUME NEW n \in WithStatus({"completed"})
        PROVE  (\E t \in Teacher : n \in Conducted(t)) /\ (\E t \in Teacher : n \in Taught(t))
    BY <2>1, <2>4 DEF LectureOK, Placed, Conducted, Taught, WithStatus, Shown
  <2>5. \A t \in Teacher : /\ Conducted(t) \subseteq WithStatus({"completed"})
                           /\ Taught(t) \subseteq WithStatus({"completed"})
    BY DEF Conducted, Taught
  <2>6. UNION {Conducted(t) : t \in Teacher} = UNION {Taught(t) : t \in Teacher}
    BY <2>4, <2>5
  <2> QED BY <2>2, <2>3, <2>6 DEF DeliveryAccounted
<1>3. PickerAccepted
  BY DEF PickerAccepted, Eligible, Accepted
<1> QED BY <1>1, <1>2, <1>3, LecturesInvInductive, PTL DEF LecturesSpec, ReportsTruthful

-----------------------------------------------------------------------------
(* The dashboards.                                                         *)

Names == {"scheduled", "conducted", "late", "on_time", "delay"}

\* The rows the dashboards read are finitely many, and well formed.
LEMMA ShownOK ==
    ASSUME LecturesInv
    PROVE  /\ IsFiniteSet(Shown)
           /\ \A n \in Shown : LectureOK(lectures[n]) /\ Placed(lectures[n])
<1>1. IsFiniteSet(1 .. Len(lectures)) /\ DOMAIN lectures = 1 .. Len(lectures)
  BY TableFacts, FS_Interval DEF LecturesInv
<1>2. IsFiniteSet(Shown)
  BY <1>1, FS_Subset DEF Shown
<1> QED BY <1>2 DEF LecturesInv, LectureOK, Shown

LEMMA FiniteCount ==
    ASSUME NEW S, IsFiniteSet(S)
    PROVE  \A T \in SUBSET S : /\ IsFiniteSet(T) /\ Cardinality(T) \in Nat
                               /\ Cardinality(T) <= Cardinality(S)
                               /\ T # {} <=> Cardinality(T) > 0
<1> SUFFICES ASSUME NEW T \in SUBSET S
             PROVE  /\ IsFiniteSet(T) /\ Cardinality(T) \in Nat
                    /\ Cardinality(T) <= Cardinality(S)
                    /\ T # {} <=> Cardinality(T) > 0
  OBVIOUS
<1>1. IsFiniteSet(T) /\ Cardinality(T) <= Cardinality(S)
  BY FS_Subset
<1>2. Cardinality(T) \in Nat
  BY <1>1, FS_CardinalityType
<1>3. Cardinality(T) = 0 <=> T = {}
  BY <1>1, FS_EmptySet
<1> QED BY <1>1, <1>2, <1>3

\* What is counted in two parts.
LEMMA CountApart ==
    ASSUME NEW S, IsFiniteSet(S), NEW A \in SUBSET S, NEW B \in SUBSET S, A \cap B = {}
    PROVE  Cardinality(A \cup B) = Cardinality(A) + Cardinality(B)
<1>1. IsFiniteSet(A) /\ IsFiniteSet(B)
  BY FS_Subset
<1>2. Cardinality(A \cap B) = 0
  BY FS_EmptySet
<1>3. Cardinality(A \cup B) = Cardinality(A) + Cardinality(B) - Cardinality(A \cap B)
  BY <1>1, FS_Union
<1>4. Cardinality(A) \in Nat /\ Cardinality(B) \in Nat
  BY <1>1, FS_CardinalityType
<1> QED BY <1>2, <1>3, <1>4

\* A column that counts the parts counts the whole.
LEMMA ColumnCounts ==
    ASSUME NEW table, NEW name, IsFiniteSet(DOMAIN table), NEW S, IsFiniteSet(S), NEW part,
           Parts(part, DOMAIN table, S),
           \A k \in DOMAIN table : table[k][name] = Cardinality(part[k])
    PROVE  Column(table, name) = Cardinality(S)
<1> PICK K, column : K = DOMAIN table /\ column = [k \in K |-> table[k][name]]
  OBVIOUS
<1>1. column = [k \in K |-> Cardinality(part[k])]
  OBVIOUS
<1>2. Total(column, K) = Cardinality(S)
  BY <1>1, CountOfParts
<1>3. DOMAIN column = K
  OBVIOUS
<1>4. SumFunction(column) = Total(column, K)
  BY <1>3, SumOfAll
<1> QED BY <1>2, <1>4 DEF Column

\* The rows of each teacher, and of each batch.
LEMMA ByPlan ==
    ASSUME LecturesInv, NEW S \in SUBSET Shown
    PROVE  /\ Parts([t \in Teacher |-> {n \in S : lectures[n].teacher = t}], Teacher, S)
           /\ Parts([b \in Batch |-> {n \in S : lectures[n].batch = b}], Batch, S)
BY ShownOK DEF Parts, Placed

(* A lecture that is over and has no outcome is on the roster of its day,   *)
(* because what is under way or planned lies on a day and begins before it  *)
(* ends.                                                                    *)
LEMMA NothingIsForgotten ==
    ASSUME LecturesInv
    PROVE  NothingForgotten
<1> SUFFICES ASSUME NEW today \in Days, NEW hour \in Hours \cup {p.to + 1 : p \in Plans}
             PROVE  /\ PendingActuals(today, hour)
                           \subseteq UNION {Live(d) \cup Overdue(d, today, hour) : d \in Days}
                    /\ \A n \in Shown :
                          lectures[n].day < today
                              => \/ n \in PendingActuals(today, hour) \cup PendingMakeups
                                 \/ Label(n) \in {"completed", "made_up"}
  BY DEF NothingForgotten
<1>1. today \in Nat /\ hour \in Nat /\ Days \subseteq Nat
  BY LecturesAssumption DEF InOrder
<1>2. ASSUME NEW n \in PendingActuals(today, hour)
      PROVE  \E d \in Days : n \in Live(d) \cup Overdue(d, today, hour)
  <2> PICK l : l = lectures[n]
    OBVIOUS
  <2>1. /\ n \in Shown /\ l.status \in Occupying
        /\ l.day < today \/ (l.day = today /\ l.to < hour)
    BY DEF PendingActuals, WithStatus
  <2>2. /\ l.day \in Days /\ l.from \in Nat /\ l.to \in Nat /\ l.from < l.to
        /\ l.status \in {"scheduled", "started", "completed", "cancelled", "no_show"}
    BY <2>1, ShownOK DEF LectureOK, Placed
  <2>3. l.status = "started" \/ l.status = "scheduled"
    BY <2>1, <2>2 DEF Occupying
  <2>4. l.day < today \/ (l.day = today /\ l.from < hour)
    BY <1>1, <2>1, <2>2
  <2>5. n \in OnDay(l.day)
    BY <2>1 DEF OnDay
  <2>6. n \in Live(l.day) \cup Overdue(l.day, today, hour)
    BY <2>3, <2>4, <2>5 DEF Live, Overdue
  <2> QED BY <2>2, <2>6
<1>3. ASSUME NEW n \in Shown, lectures[n].day < today
      PROVE  \/ n \in PendingActuals(today, hour) \cup PendingMakeups
             \/ Label(n) \in {"completed", "made_up"}
  <2>1. lectures[n].status \in {"scheduled", "started", "completed", "cancelled", "no_show"}
    BY ShownOK DEF LectureOK
  <2>2. CASE lectures[n].status \in {"scheduled", "started"}
    BY <1>3, <2>2 DEF PendingActuals, WithStatus, Occupying
  <2>3. CASE lectures[n].status = "completed"
    BY <2>3 DEF Label
  <2>4. CASE lectures[n].status \in {"cancelled", "no_show"}
    BY <2>4 DEF Label, PendingMakeups, Shown
  <2> QED BY <2>1, <2>2, <2>3, <2>4
<1> QED BY <1>2, <1>3

(* The roster of a day adds up to its snapshot, by teacher and by outcome,  *)
(* and who stands in was let in by somebody else.                           *)
LEMMA RostersAgree ==
    ASSUME LecturesInv
    PROVE  RosterAgrees
<1> SUFFICES ASSUME NEW d \in Days
             PROVE  LET snapshot == Snapshot(d)
                        rows == [t \in Teacher |-> RosterRow(t, d)]
                        out == [t \in Teacher |-> SubOut(t, d)]
                        in == [t \in Teacher |-> SubIn(t, d)]
                    IN  /\ \A k \in Tiles : snapshot[k] = Column(rows, k)
                        /\ SumFunction(snapshot) = Cardinality(OnDay(d))
                        /\ \A t \in Teacher : in[t] \cap out[t] = {}
                        /\ UNION {in[t] : t \in Teacher} \subseteq UNION {out[t] : t \in Teacher}
  BY DEF RosterAgrees
<1>1. OnDay(d) \in SUBSET Shown /\ IsFiniteSet(OnDay(d))
  BY ShownOK, FS_Subset DEF OnDay
<1>2. IsFiniteSet(Teacher)
  BY ReportsAssumption
<1>3. ASSUME NEW k \in Tiles
      PROVE  Snapshot(d)[k] = Column([t \in Teacher |-> RosterRow(t, d)], k)
  <2> PICK S : S = {n \in OnDay(d) : Tile[lectures[n].status] = k}
    OBVIOUS
  <2> PICK part : part = [t \in Teacher |-> {n \in S : lectures[n].teacher = t}]
    OBVIOUS
  <2> PICK table : table = [t \in Teacher |-> RosterRow(t, d)]
    OBVIOUS
  <2>1. S \in SUBSET Shown /\ IsFiniteSet(S) /\ DOMAIN table = Teacher
    BY <1>1, FS_Subset
  <2>2. Parts(part, Teacher, S)
    BY <2>1, ByPlan
  <2>3. ASSUME NEW t \in Teacher
        PROVE  table[t][k] = Cardinality(part[t])
    <3>1. {n \in OnDay(d) \cap PlannedFor(t) : Tile[lectures[n].status] = k} = part[t]
      BY <1>1 DEF PlannedFor
    <3> QED BY <3>1 DEF RosterRow, Tally
  <2>4. Column(table, k) = Cardinality(S)
    BY <1>2, <2>1, <2>2, <2>3, ColumnCounts
  <2> QED BY <2>4 DEF Snapshot, Tally
<1>4. SumFunction(Snapshot(d)) = Cardinality(OnDay(d))
  <2> PICK part : part = [k \in Tiles |-> {n \in OnDay(d) : Tile[lectures[n].status] = k}]
    OBVIOUS
  <2>1. \A n \in OnDay(d) : Tile[lectures[n].status] \in Tiles
    BY <1>1, ShownOK DEF LectureOK, Tile, Tiles
  <2>2. Parts(part, Tiles, OnDay(d))
    BY <2>1 DEF Parts
  <2>3. IsFiniteSet(Tiles)
    <3>1. Tiles = {"pending"} \cup {"in_progress"} \cup {"completed"} \cup {"cancelled"} \cup {"no_show"}
      BY DEF Tiles
    <3>2. \A x : IsFiniteSet({x})
      BY FS_Singleton
    <3>3. IsFiniteSet({"pending"} \cup {"in_progress"})
      BY <3>2, FS_Union
    <3>4. IsFiniteSet({"pending"} \cup {"in_progress"} \cup {"completed"})
      BY <3>2, <3>3, FS_Union
    <3>5. IsFiniteSet({"pending"} \cup {"in_progress"} \cup {"completed"} \cup {"cancelled"})
      BY <3>2, <3>4, FS_Union
    <3>6. IsFiniteSet({"pending"} \cup {"in_progress"} \cup {"completed"} \cup {"cancelled"} \cup {"no_show"})
      BY <3>2, <3>5, FS_Union
    <3> QED BY <3>1, <3>6
  <2>4. Total([k \in Tiles |-> Cardinality(part[k])], Tiles) = Cardinality(OnDay(d))
    BY <1>1, <2>2, <2>3, CountOfParts
  <2>5. Snapshot(d) = [k \in Tiles |-> Cardinality(part[k])]
    BY DEF Snapshot, Tally
  <2> PICK f : f = Snapshot(d)
    OBVIOUS
  <2>6. DOMAIN f = Tiles
    BY <2>5
  <2>7. SumFunction(f) = Total(f, Tiles)
    BY <2>6, SumOfAll
  <2> QED BY <2>4, <2>5, <2>7
<1>5. ASSUME NEW t \in Teacher
      PROVE  SubIn(t, d) \cap SubOut(t, d) = {} /\ SubIn(t, d) \subseteq OnDay(d) \cap Substituted
  <2>1. \A n \in SubIn(t, d) : n \in OnDay(d) \cap Substituted /\ lectures[n].substitute = t
    BY DEF SubIn
  <2>2. \A n \in SubOut(t, d) : n \in Shown /\ lectures[n].teacher = t
    BY DEF SubOut, PlannedFor
  <2>3. \A n \in Shown : lectures[n].substitute = t => lectures[n].teacher # t
    BY ShownOK, LecturesAssumption DEF LectureOK
  <2> QED BY <2>1, <2>2, <2>3
<1>6. ASSUME NEW n \in OnDay(d) \cap Substituted
      PROVE  \E t \in Teacher : n \in SubOut(t, d)
  <2>1. lectures[n].teacher \in Teacher
    BY <1>1, ShownOK DEF Placed
  <2> QED BY <1>1, <2>1 DEF SubOut, PlannedFor
<1>7. UNION {SubIn(t, d) : t \in Teacher} \subseteq UNION {SubOut(t, d) : t \in Teacher}
  BY <1>5, <1>6
<1> QED BY <1>3, <1>4, <1>5, <1>7

(* Taught as planned, substituted and missed are three things; each figure  *)
(* of adherence adds up over the teachers who have a row, because who has   *)
(* none counts for nothing.                                                 *)
LEMMA AdherencesAgree ==
    ASSUME LecturesInv
    PROVE  AdherenceAgrees
<1> PICK U : U = {u \in Teacher : \E k \in Figures : Adherence[u][k] > 0}
  OBVIOUS
<1> PICK table : table = [t \in U |-> Adherence[t]]
  OBVIOUS
<1>1. AdherencePage.totals = Totals /\ AdherencePage.by_teacher = table
  BY DEF AdherencePage
<1>2. /\ IsFiniteSet(Shown) /\ DOMAIN table = U /\ U \subseteq Teacher /\ IsFiniteSet(U)
      /\ Substituted \in SUBSET Shown
  BY ShownOK, ReportsAssumption, FS_Subset DEF Substituted
<1>3. \A S \in SUBSET Shown : IsFiniteSet(S) /\ Cardinality(S) \in Nat
  BY <1>2, FiniteCount
<1>4. \A S \in SUBSET Shown : S # {} => Cardinality(S) > 0
  BY <1>2, FiniteCount
<1>5. ASSUME NEW name \in Figures, NEW S \in SUBSET Shown, NEW part,
             Parts(part, Teacher, S),
             \A t \in Teacher : Adherence[t][name] = Cardinality(part[t])
      PROVE  Column(table, name) = Cardinality(S)
  <2>1. ASSUME NEW x \in S
        PROVE  \E t \in U : x \in part[t]
    <3>1. PICK t \in Teacher : x \in part[t]
      BY <1>5 DEF Parts
    <3>2. part[t] \in SUBSET Shown /\ part[t] # {}
      BY <1>5, <3>1 DEF Parts
    <3>3. Adherence[t][name] > 0
      BY <1>4, <1>5, <3>2
    <3> QED BY <3>1, <3>3
  <2>2. Parts(part, U, S)
    BY <1>2, <1>5, <2>1 DEF Parts
  <2>3. \A t \in U : table[t][name] = Cardinality(part[t])
    BY <1>2, <1>5
  <2>4. /\ IsFiniteSet(DOMAIN table) /\ IsFiniteSet(S) /\ Parts(part, DOMAIN table, S)
        /\ \A t \in DOMAIN table : table[t][name] = Cardinality(part[t])
    BY <1>2, <1>3, <2>2, <2>3
  <2> QED BY ONLY <2>4, ColumnCounts
<1>6. Column(table, "planned") = Cardinality(Shown)
  <2> PICK part : part = [t \in Teacher |-> {n \in Shown : lectures[n].teacher = t}]
    OBVIOUS
  <2>1. Parts(part, Teacher, Shown)
    BY ByPlan
  <2>2. \A t \in Teacher : Adherence[t]["planned"] = Cardinality(part[t])
    BY DEF Adherence, PlannedFor
  <2>3. "planned" \in Figures
    BY DEF Figures
  <2>4. Shown \in SUBSET Shown
    OBVIOUS
  <2> QED BY ONLY <1>5, <2>1, <2>2, <2>3, <2>4
<1>7. Column(table, "substituted_out") = Cardinality(Substituted)
  <2> PICK part : part = [t \in Teacher |-> {n \in Substituted : lectures[n].teacher = t}]
    OBVIOUS
  <2>1. Parts(part, Teacher, Substituted)
    BY <1>2, ByPlan
  <2>2. ASSUME NEW t \in Teacher
        PROVE  Adherence[t]["substituted_out"] = Cardinality(part[t])
    <3>1. Substituted \cap PlannedFor(t) = part[t]
      BY <1>2 DEF PlannedFor
    <3> QED BY <3>1 DEF Adherence
  <2>3. "substituted_out" \in Figures
    BY DEF Figures
  <2>4. Substituted \in SUBSET Shown
    BY <1>2
  <2> QED BY ONLY <1>5, <2>1, <2>2, <2>3, <2>4
<1>8. Column(table, "substituted_in") = Cardinality(Substituted)
  <2> PICK part : part = [t \in Teacher |-> {n \in Substituted : lectures[n].substitute = t}]
    OBVIOUS
  <2>1. \A n \in Substituted : lectures[n].substitute \in Teacher
    BY ShownOK DEF Substituted, LectureOK
  <2>2. Parts(part, Teacher, Substituted)
    BY <2>1 DEF Parts
  <2>3. \A t \in Teacher : Adherence[t]["substituted_in"] = Cardinality(part[t])
    BY DEF Adherence
  <2>4. "substituted_in" \in Figures
    BY DEF Figures
  <2>5. Substituted \in SUBSET Shown
    BY <1>2
  <2> QED BY ONLY <1>5, <2>2, <2>3, <2>4, <2>5
<1>9. Cardinality(CompletedAsPlanned) + Cardinality(Substituted)
          + Cardinality(WithStatus({"no_show"})) <= Cardinality(Shown)
  <2> PICK A, B, C : A = CompletedAsPlanned /\ B = Substituted /\ C = WithStatus({"no_show"})
    OBVIOUS
  <2>1. A \in SUBSET Shown /\ B \in SUBSET Shown /\ C \in SUBSET Shown
    BY <1>2 DEF CompletedAsPlanned, WithStatus
  <2>2. A \cap B = {} /\ A \cap C = {}
    BY DEF CompletedAsPlanned, WithStatus
  <2>3. B \cap C = {}
    BY ShownOK DEF WithStatus, Substituted, LectureOK
  <2>4. (A \cup B) \cap C = {} /\ A \cup B \in SUBSET Shown /\ (A \cup B) \cup C \in SUBSET Shown
    BY <2>1, <2>2, <2>3
  <2>5. Cardinality(A \cup B) = Cardinality(A) + Cardinality(B)
    BY <1>2, <2>1, <2>2, CountApart
  <2>6. Cardinality((A \cup B) \cup C) = Cardinality(A \cup B) + Cardinality(C)
    BY <1>2, <2>1, <2>4, CountApart
  <2>7. Cardinality((A \cup B) \cup C) <= Cardinality(Shown)
    BY <1>2, <2>4, FiniteCount
  <2> QED BY <2>5, <2>6, <2>7
<1>10. /\ Totals.planned = Cardinality(Shown) /\ Totals.substituted = Cardinality(Substituted)
       /\ Totals.completed_as_planned = Cardinality(CompletedAsPlanned)
       /\ Totals.no_show = Cardinality(WithStatus({"no_show"}))
  BY DEF Totals
<1> QED BY <1>1, <1>6, <1>7, <1>8, <1>9, <1>10 DEF AdherenceAgrees

-----------------------------------------------------------------------------
(* Productivity.                                                           *)

\* Who was found late began after the hour scheduled, and nobody else.
LEMMA LateIsLater ==
    ASSUME LecturesInv, NEW n \in Shown
    PROVE  /\ lectures[n].late = "late" => /\ lectures[n].began \in Nat /\ lectures[n].from \in Nat
                                            /\ lectures[n].began > lectures[n].from
           /\ Delay(n) > 0 <=> lectures[n].late = "late"
<1> PICK l : l = lectures[n]
  OBVIOUS
<1>1. /\ l.from \in Nat /\ l.began \in Hours \cup {NoHour}
      /\ l.late # "unknown" => l.late = Lateness(l, l.began)
  BY ShownOK DEF LectureOK, Placed
<1>2. l.late = "late" => l.began # NoHour /\ l.began > l.from
  BY <1>1 DEF Lateness
<1>3. l.late = "late" => l.began \in Nat
  BY <1>1, <1>2, LecturesAssumption
<1>4. Delay(n) > 0 <=> l.late = "late"
  <2>1. CASE l.late = "late"
    <3>1. Delay(n) = l.began - l.from
      BY <1>2, <2>1 DEF Delay
    <3> QED BY <1>1, <1>2, <1>3, <2>1, <3>1
  <2>2. CASE l.late # "late"
    <3>1. Delay(n) = 0
      BY <2>2 DEF Delay
    <3> QED BY <2>2, <3>1
  <2> QED BY <2>1, <2>2
<1> QED BY <1>1, <1>2, <1>3, <1>4

\* The delays of some rows are those of the rows that began late.
Gap == [n \in Shown |-> IF lectures[n].status = "completed" /\ lectures[n].late = "late"
                         THEN lectures[n].began - lectures[n].from ELSE 0]

LEMMA DelayOf ==
    ASSUME LecturesInv, NEW S \in SUBSET Shown
    PROVE  ReportOf(S).delay = Total(Gap, S) /\ \A n \in Shown : Gap[n] \in Int
<1> PICK late : late = {n \in {m \in S : lectures[m].status = "completed"} : lectures[n].late = "late"}
  OBVIOUS
<1> PICK f : f = [n \in late |-> lectures[n].began - lectures[n].from]
  OBVIOUS
<1> PICK g : g = Gap
  OBVIOUS
<1>1. \A n \in Shown : g[n] \in Int
  BY LateIsLater DEF Gap
<1>2. IsFiniteSet(S) /\ late \in SUBSET S /\ IsFiniteSet(late)
  <2>1. IsFiniteSet(S)
    BY ShownOK, FS_Subset
  <2>2. late \in SUBSET S
    OBVIOUS
  <2> QED BY <2>1, <2>2, FS_Subset
<1>3. ReportOf(S).delay = SumFunction(f)
  BY DEF ReportOf
<1>4. DOMAIN f = late
  OBVIOUS
<1>5. SumFunction(f) = Total(f, late)
  BY <1>4, SumOfAll
<1>6. \A n \in late : f[n] = g[n]
  BY DEF Gap
<1>7. Total(f, late) = Total(g, late)
  BY <1>2, <1>6, TotalSame
<1>8. (\A n \in S : g[n] \in Int) /\ \A n \in S \ late : g[n] = 0
  BY <1>1 DEF Gap
<1>9. Total(g, late) = Total(g, S)
  BY <1>2, <1>8, TotalWithoutZeros
<1> QED BY <1>1, <1>3, <1>5, <1>7, <1>9

\* However the rows are grouped, the report of the groups adds up to that of all.
GroupsAddUp(part, K) ==
    \A name \in Names : Column([k \in K |-> ReportOf(part[k])], name) = ReportOf(Shown)[name]

LEMMA ReportsAdd ==
    ASSUME LecturesInv, NEW K, IsFiniteSet(K), NEW part, Parts(part, K, Shown)
    PROVE  GroupsAddUp(part, K)
<1> PICK table : table = [k \in K |-> ReportOf(part[k])]
  OBVIOUS
<1>1. DOMAIN table = K /\ IsFiniteSet(Shown) /\ \A k \in K : part[k] \in SUBSET Shown
  BY ShownOK DEF Parts
<1>2. ASSUME NEW name, NEW S \in SUBSET Shown, ReportOf(Shown)[name] = Cardinality(S),
             \A k \in K : ReportOf(part[k])[name] = Cardinality(part[k] \cap S)
      PROVE  Column(table, name) = ReportOf(Shown)[name]
  <2> PICK p : p = [k \in K |-> part[k] \cap S]
    OBVIOUS
  <2>1. Parts(p, K, S)
    BY <1>2 DEF Parts
  <2>2. IsFiniteSet(S)
    BY <1>1, FS_Subset
  <2>3. \A k \in K : table[k][name] = Cardinality(p[k])
    BY <1>2
  <2>4. /\ IsFiniteSet(DOMAIN table) /\ Parts(p, DOMAIN table, S)
        /\ \A k \in DOMAIN table : table[k][name] = Cardinality(p[k])
    BY <1>1, <2>1, <2>3
  <2>5. Column(table, name) = Cardinality(S)
    BY ONLY <2>2, <2>4, ColumnCounts
  <2> QED BY <1>2, <2>5
<1> DEFINE held == {n \in Shown : lectures[n].status = "completed"}
           HeldOf(rows) == {n \in rows : lectures[n].status = "completed"}
<1>3. Column(table, "scheduled") = ReportOf(Shown)["scheduled"]
  <2>1. ReportOf(Shown)["scheduled"] = Cardinality(Shown)
    BY DEF ReportOf
  <2>2. ASSUME NEW k \in K
        PROVE  ReportOf(part[k])["scheduled"] = Cardinality(part[k] \cap Shown)
    <3>1. part[k] \cap Shown = part[k]
      BY <1>1
    <3> QED BY <3>1 DEF ReportOf
  <2> QED BY <1>2, <2>1, <2>2
<1>4. Column(table, "conducted") = ReportOf(Shown)["conducted"]
  <2>1. ReportOf(Shown)["conducted"] = Cardinality(held)
    BY DEF ReportOf
  <2>2. ASSUME NEW k \in K
        PROVE  ReportOf(part[k])["conducted"] = Cardinality(part[k] \cap held)
    <3>1. part[k] \cap held = {n \in part[k] : lectures[n].status = "completed"}
      BY <1>1
    <3> QED BY <3>1 DEF ReportOf
  <2> QED BY <1>2, <2>1, <2>2
<1>5. Column(table, "late") = ReportOf(Shown)["late"]
  <2> PICK S : S = {n \in HeldOf(Shown) : lectures[n].late = "late"}
    OBVIOUS
  <2>1. ReportOf(Shown)["late"] = Cardinality(S) /\ S \in SUBSET Shown
    BY DEF ReportOf
  <2>2. ASSUME NEW k \in K
        PROVE  ReportOf(part[k])["late"] = Cardinality(part[k] \cap S)
    <3>1. part[k] \cap S = {n \in HeldOf(part[k]) : lectures[n].late = "late"}
      BY <1>1
    <3> QED BY <3>1 DEF ReportOf
  <2> QED BY <1>2, <2>1, <2>2
<1>6. Column(table, "on_time") = ReportOf(Shown)["on_time"]
  <2> PICK S : S = {n \in HeldOf(Shown) : lectures[n].late = "on_time"}
    OBVIOUS
  <2>1. ReportOf(Shown)["on_time"] = Cardinality(S) /\ S \in SUBSET Shown
    BY DEF ReportOf
  <2>2. ASSUME NEW k \in K
        PROVE  ReportOf(part[k])["on_time"] = Cardinality(part[k] \cap S)
    <3>1. part[k] \cap S = {n \in HeldOf(part[k]) : lectures[n].late = "on_time"}
      BY <1>1
    <3> QED BY <3>1 DEF ReportOf
  <2> QED BY <1>2, <2>1, <2>2
<1>7. Column(table, "delay") = ReportOf(Shown)["delay"]
  <2> PICK g, column : g = Gap /\ column = [k \in K |-> table[k]["delay"]]
    OBVIOUS
  <2>1. ReportOf(Shown)["delay"] = Total(g, Shown) /\ \A n \in Shown : g[n] \in Int
    BY DelayOf
  <2>2. \A k \in K : table[k]["delay"] = Total(g, part[k])
    BY <1>1, DelayOf
  <2>3. column = [k \in K |-> Total(g, part[k])]
    BY <2>2
  <2>4. Total(column, K) = Total(g, Shown)
    BY <1>1, <2>1, <2>3, TotalOfParts
  <2>5. DOMAIN column = K
    BY <2>3
  <2>6. SumFunction(column) = Total(column, K)
    BY <2>5, SumOfAll
  <2> QED BY <1>1, <2>1, <2>4, <2>6 DEF Column
<1> QED BY <1>3, <1>4, <1>5, <1>6, <1>7 DEF Names, GroupsAddUp

\* What a teacher was assigned they taught, gave away or missed, or it fell through
\* for another reason; the report of the lectures planned for them counts the first
\* two as conducted.
LEMMA TeachersAccounted ==
    ASSUME LecturesInv, NEW t \in Teacher
    PROVE  /\ Insights[t].assigned - (Insights[t].taught_self + Insights[t].substituted_out
                                          + Insights[t].teacher_no_show)
                  = Cardinality(MissedFor(NoShowReasons \ {"teacher"}) \cap PlannedFor(t))
           /\ ByTeacher[t].conducted = Insights[t].taught_self + Insights[t].substituted_out
<1> PICK A, B, C, T, O :
          /\ A = TaughtSelf \cap PlannedFor(t) /\ B = SubstitutedOut \cap PlannedFor(t)
          /\ C = WithStatus({"no_show"}) \cap PlannedFor(t)
          /\ T = MissedFor({"teacher"}) \cap PlannedFor(t)
          /\ O = MissedFor(NoShowReasons \ {"teacher"}) \cap PlannedFor(t)
  OBVIOUS
<1>1. /\ IsFiniteSet(Shown) /\ A \in SUBSET Shown /\ B \in SUBSET Shown /\ C \in SUBSET Shown
      /\ A \cup B \in SUBSET Shown
  BY ShownOK DEF TaughtSelf, SubstitutedOut, Assigned, WithStatus
<1>2. \A n \in Shown : lectures[n].status = "no_show" => lectures[n].substitute = NoTeacher
  BY ShownOK DEF LectureOK
<1>3. A \cap B = {} /\ (A \cup B) \cap C = {}
  BY <1>2 DEF TaughtSelf, SubstitutedOut, Assigned, WithStatus
<1>4. Assigned \cap PlannedFor(t) = (A \cup B) \cup C
  BY <1>2 DEF TaughtSelf, SubstitutedOut, Assigned, WithStatus
<1>5. {n \in Reported({t}, Batch) : lectures[n].status = "completed"} = A \cup B
  <2>1. \A n \in Shown : lectures[n].batch \in Batch
    BY ShownOK DEF Placed
  <2> QED BY <1>2, <2>1
      DEF TaughtSelf, SubstitutedOut, Assigned, WithStatus, Reported, PlannedFor
<1>6. Cardinality(A \cup B) = Cardinality(A) + Cardinality(B)
  BY <1>1, <1>3, CountApart
<1>7. Cardinality((A \cup B) \cup C) = Cardinality(A \cup B) + Cardinality(C)
  BY <1>1, <1>3, CountApart
<1>8. /\ Insights[t].assigned = Cardinality(Assigned \cap PlannedFor(t))
      /\ Insights[t].taught_self = Cardinality(A) /\ Insights[t].substituted_out = Cardinality(B)
      /\ Insights[t].teacher_no_show = Cardinality(T)
  BY DEF Insights
<1>9. ByTeacher[t].conducted
          = Cardinality({n \in Reported({t}, Batch) : lectures[n].status = "completed"})
  BY DEF ByTeacher, ReportOf
<1>10. C = T \cup O /\ T \cap O = {} /\ T \in SUBSET Shown /\ O \in SUBSET Shown
  <2>1. \A n \in Shown : lectures[n].status = "no_show" => lectures[n].reason \in NoShowReasons
    BY ShownOK DEF LectureOK
  <2> QED BY <2>1 DEF MissedFor, WithStatus
<1>11. Cardinality(C) = Cardinality(T) + Cardinality(O)
  <2>1. IsFiniteSet(Shown) /\ T \in SUBSET Shown /\ O \in SUBSET Shown /\ T \cap O = {}
    BY <1>1, <1>10
  <2>2. Cardinality(T \cup O) = Cardinality(T) + Cardinality(O)
    BY ONLY <2>1, CountApart
  <2>3. C = T \cup O
    BY <1>10
  <2> QED BY ONLY <2>2, <2>3
<1>12. \A S \in SUBSET Shown : Cardinality(S) \in Nat
  BY <1>1, FiniteCount
<1>13. /\ Cardinality(A) \in Nat /\ Cardinality(B) \in Nat /\ Cardinality(T) \in Nat
       /\ Cardinality(O) \in Nat
  BY <1>1, <1>10, <1>12
<1>14. Cardinality(Assigned \cap PlannedFor(t))
           = ((Cardinality(A) + Cardinality(B)) + (Cardinality(T) + Cardinality(O)))
  BY ONLY <1>4, <1>6, <1>7, <1>11
<1>15. Insights[t].assigned - (Insights[t].taught_self + Insights[t].substituted_out
                                  + Insights[t].teacher_no_show) = Cardinality(O)
  <2>1. \A a, b, m, o \in Nat : ((a + b) + (m + o)) - (a + b + m) = o
    OBVIOUS
  <2>2. ((Cardinality(A) + Cardinality(B)) + (Cardinality(T) + Cardinality(O)))
           - (Cardinality(A) + Cardinality(B) + Cardinality(T)) = Cardinality(O)
    BY ONLY <1>13, <2>1
  <2> QED BY ONLY <2>2, <1>8, <1>14
<1>16. ByTeacher[t].conducted = Insights[t].taught_self + Insights[t].substituted_out
  BY ONLY <1>5, <1>6, <1>8, <1>9
<1>17. O = MissedFor(NoShowReasons \ {"teacher"}) \cap PlannedFor(t)
  OBVIOUS
<1> QED BY ONLY <1>15, <1>16, <1>17

\* What is counted for whoever taught is what is counted for whoever was planned.
LEMMA TaughtIsConducted ==
    ASSUME LecturesInv
    PROVE  /\ Column(Insights, "taught") = ReportOf(Shown)["conducted"]
           /\ Column(Insights, "late") = ReportOf(Shown)["late"]
<1> PICK table, held : table = Insights /\ held = {n \in Shown : lectures[n].status = "completed"}
  OBVIOUS
<1>1. DOMAIN table = Teacher /\ IsFiniteSet(DOMAIN table)
  BY ReportsAssumption DEF Insights
<1>2. held = WithStatus({"completed"}) /\ held \in SUBSET Shown
  BY DEF WithStatus
<1>3. ASSUME NEW n \in held
      PROVE  \E t \in Teacher : n \in Taught(t)
  BY <1>2, ShownOK DEF LectureOK, Placed, Taught
<1>4. \A t, u \in Teacher : t # u => Taught(t) \cap Taught(u) = {}
  BY DEF Taught
<1>5. ASSUME NEW S \in SUBSET held, NEW name,
             \A t \in Teacher : table[t][name] = Cardinality(Taught(t) \cap S)
      PROVE  Column(table, name) = Cardinality(S)
  <2> PICK part : part = [t \in Teacher |-> Taught(t) \cap S]
    OBVIOUS
  <2>1. Parts(part, DOMAIN table, S)
    BY <1>1, <1>3, <1>4 DEF Parts
  <2>2. IsFiniteSet(S)
    <3>1. S \in SUBSET Shown
      BY <1>2
    <3> QED BY <3>1, ShownOK, FS_Subset
  <2>3. \A t \in DOMAIN table : table[t][name] = Cardinality(part[t])
    BY <1>1, <1>5
  <2> QED BY ONLY <1>1, <2>1, <2>2, <2>3, ColumnCounts
<1>6. Column(table, "taught") = Cardinality(held)
  <2>1. ASSUME NEW t \in Teacher
        PROVE  table[t]["taught"] = Cardinality(Taught(t) \cap held)
    <3>1. Taught(t) \cap held = Taught(t)
      BY <1>2 DEF Taught
    <3> QED BY <3>1 DEF Insights
  <2>2. held \in SUBSET held
    OBVIOUS
  <2> QED BY ONLY <1>5, <2>1, <2>2
<1>7. Column(table, "late") = Cardinality({n \in held : lectures[n].late = "late"})
  <2> PICK S : S = {n \in held : lectures[n].late = "late"}
    OBVIOUS
  <2>1. ASSUME NEW t \in Teacher
        PROVE  table[t]["late"] = Cardinality(Taught(t) \cap S)
    <3>1. Taught(t) \cap S = {n \in Taught(t) : lectures[n].late = "late"}
      BY <1>2 DEF Taught
    <3> QED BY <3>1 DEF Insights
  <2>2. S \in SUBSET held
    OBVIOUS
  <2>3. Column(table, "late") = Cardinality(S)
    BY ONLY <1>5, <2>1, <2>2
  <2> QED BY <2>3
<1> QED BY <1>6, <1>7 DEF ReportOf

(* The reports by teacher, by batch and by week are groupings of the same   *)
(* lectures, and so is what is counted for whoever taught.                  *)
LEMMA ProductivitiesAgree ==
    ASSUME LecturesInv
    PROVE  ProductivityAgrees
<1> PICK all : all = ReportOf(Shown)
  OBVIOUS
<1>1. \A n \in Shown : Placed(lectures[n])
  BY ShownOK
<1>2. IsFiniteSet(Teacher) /\ IsFiniteSet(Batch) /\ IsFiniteSet(Days)
  BY ReportsAssumption
<1>3. \A name \in Names : Column(ByTeacher, name) = all[name]
  <2> PICK part : part = [t \in Teacher |-> Reported({t}, Batch)]
    OBVIOUS
  <2>1. Parts(part, Teacher, Shown)
    BY <1>1 DEF Parts, Reported, Placed
  <2>2. ByTeacher = [t \in Teacher |-> ReportOf(part[t])]
    BY DEF ByTeacher
  <2>3. GroupsAddUp(part, Teacher)
    BY <1>2, <2>1, ReportsAdd
  <2> QED BY <2>2, <2>3 DEF GroupsAddUp
<1>4. \A name \in Names : Column(ByBatch, name) = all[name]
  <2> PICK part : part = [b \in Batch |-> Reported(Teacher, {b})]
    OBVIOUS
  <2>1. Parts(part, Batch, Shown)
    BY <1>1 DEF Parts, Reported, Placed
  <2>2. ByBatch = [b \in Batch |-> ReportOf(part[b])]
    BY DEF ByBatch
  <2>3. GroupsAddUp(part, Batch)
    BY <1>2, <2>1, ReportsAdd
  <2> QED BY <2>2, <2>3 DEF GroupsAddUp
<1>5. \A name \in Names : Column(ByWeek, name) = all[name]
  <2> PICK W : W = {d \div Week : d \in Days}
    OBVIOUS
  <2> PICK part : part = [w \in W |->
                            {n \in Reported(Teacher, Batch) : lectures[n].day \div Week = w}]
    OBVIOUS
  <2>1. Reported(Teacher, Batch) = Shown
    BY <1>1 DEF Reported, Placed
  <2>2. \A n \in Shown : lectures[n].day \div Week \in W
    BY <1>1 DEF Placed
  <2>3. Parts(part, W, Shown)
    BY <2>1, <2>2 DEF Parts
  <2>4. IsFiniteSet(W)
    <3> PICK week : week = [d \in Days |-> d \div Week]
      OBVIOUS
    <3>1. week \in Surjection(Days, W)
      BY DEF Surjection
    <3> QED BY <1>2, <3>1, FS_Surjection
  <2>5. ByWeek = [w \in W |-> ReportOf(part[w])]
    BY DEF ByWeek
  <2>6. GroupsAddUp(part, W)
    BY <2>3, <2>4, ReportsAdd
  <2> QED BY <2>5, <2>6 DEF GroupsAddUp
<1>6. /\ Column(Insights, "taught") = all["conducted"]
      /\ Column(Insights, "late") = all["late"]
  BY TaughtIsConducted
<1>7. ASSUME NEW t \in Teacher
      PROVE  /\ Insights[t].assigned - (Insights[t].taught_self + Insights[t].substituted_out
                                            + Insights[t].teacher_no_show)
                    = Cardinality(MissedFor(NoShowReasons \ {"teacher"}) \cap PlannedFor(t))
             /\ ByTeacher[t].conducted = Insights[t].taught_self + Insights[t].substituted_out
             /\ Taught(t) \subseteq ReportRows(t)
             /\ Credited(t) = {lectures[n].batch : n \in Taught(t)}
  <2>1. Taught(t) \subseteq ReportRows(t)
    BY DEF Taught, ReportRows, Effective, WithStatus
  <2>2. Taught(t) = {n \in WithStatus({"completed"}) : Effective(lectures[n]) = t}
    BY DEF Taught, Effective
  <2>3. \A n \in Taught(t) : lectures[n].batch \in Batch
    BY <1>1 DEF Taught, WithStatus, Placed
  <2>4. Credited(t) = {lectures[n].batch : n \in Taught(t)}
    BY <2>2, <2>3 DEF Credited
  <2> QED BY <2>1, <2>4, TeachersAccounted
<1>8. \A n \in Shown : Delay(n) > 0 <=> lectures[n].late = "late"
  BY LateIsLater
<1>9. Names = {"scheduled", "conducted", "late", "on_time", "delay"}
  BY DEF Names
<1>10. \A name \in {"scheduled", "conducted", "late", "on_time", "delay"} :
          /\ Column(ByTeacher, name) = Column(ByBatch, name)
          /\ Column(ByTeacher, name) = Column(ByWeek, name)
  BY <1>3, <1>4, <1>5, <1>9
<1>11. /\ Column(Insights, "taught") = Column(ByTeacher, "conducted")
       /\ Column(Insights, "late") = Column(ByTeacher, "late")
  BY <1>3, <1>6, <1>9
<1> QED BY <1>7, <1>8, <1>10, <1>11 DEF ProductivityAgrees

(* The snapshots of the days, the breakdown of adherence and the column of  *)
(* productivity put the same lectures on the teachers: a no-show has one of *)
(* the reasons, lies on one day and was planned for one teacher.            *)
LEMMA NoShowsDoAgree ==
    ASSUME LecturesInv
    PROVE  NoShowsAgree
<1> PICK all, T, O : /\ all = WithStatus({"no_show"})
                     /\ T = {n \in all : lectures[n].reason = "teacher"}
                     /\ O = {n \in all : lectures[n].reason = "other"}
  OBVIOUS
<1>1. IsFiniteSet(Shown) /\ all \in SUBSET Shown /\ T \in SUBSET Shown /\ O \in SUBSET Shown
  BY ShownOK DEF WithStatus
<1>2. \A n \in all : lectures[n].reason \in {"teacher", "other"}
  BY <1>1, ShownOK DEF WithStatus, LectureOK, NoShowReasons
<1>3. MissedFor({"teacher"}) = T /\ MissedFor({"other", NoReason}) = O
  BY <1>2 DEF MissedFor, NoReason
<1>4. all = T \cup O /\ T \cap O = {}
  BY <1>2
<1>5. Cardinality(all) = Cardinality(T) + Cardinality(O)
  BY <1>1, <1>4, CountApart
<1>6. /\ AdherencePage.no_show_breakdown = NoShowBreakdown
      /\ AdherencePage.totals.no_show = Cardinality(all)
  BY DEF AdherencePage, Totals
<1>7. NoShowBreakdown.teacher = Cardinality(T) /\ NoShowBreakdown.other = Cardinality(O)
  BY <1>3 DEF NoShowBreakdown
<1>8. Column(Insights, "teacher_no_show") = Cardinality(T)
  <2> PICK part : part = [t \in Teacher |-> {n \in T : lectures[n].teacher = t}]
    OBVIOUS
  <2> PICK table : table = Insights
    OBVIOUS
  <2>1. Parts(part, Teacher, T)
    BY <1>1, ByPlan
  <2>2. DOMAIN table = Teacher /\ IsFiniteSet(Teacher) /\ IsFiniteSet(T)
    BY <1>1, ReportsAssumption, FS_Subset DEF Insights
  <2>3. ASSUME NEW t \in Teacher
        PROVE  table[t]["teacher_no_show"] = Cardinality(part[t])
    <3>1. T \cap PlannedFor(t) = part[t]
      BY <1>1 DEF PlannedFor
    <3> QED BY <1>3, <3>1 DEF Insights
  <2>4. Column(table, "teacher_no_show") = Cardinality(T)
    BY <2>1, <2>2, <2>3, ColumnCounts
  <2> QED BY <2>4
<1>9. ASSUME NEW S \in SUBSET Shown, NEW why \in {"teacher", "other"},
             \A d \in Days : SnapshotNoShows(d)[why] = Cardinality({n \in S : lectures[n].day = d})
      PROVE  Column([d \in Days |-> SnapshotNoShows(d)], why) = Cardinality(S)
  <2> PICK part : part = [d \in Days |-> {n \in S : lectures[n].day = d}]
    OBVIOUS
  <2> PICK table : table = [d \in Days |-> SnapshotNoShows(d)]
    OBVIOUS
  <2>1. \A n \in S : lectures[n].day \in Days
    BY ShownOK DEF Placed
  <2>2. Parts(part, Days, S)
    BY <2>1 DEF Parts
  <2>3. DOMAIN table = Days /\ IsFiniteSet(Days) /\ IsFiniteSet(S)
    BY <1>1, ReportsAssumption, FS_Subset
  <2>4. \A d \in Days : table[d][why] = Cardinality(part[d])
    BY <1>9
  <2>5. Column(table, why) = Cardinality(S)
    BY <2>2, <2>3, <2>4, ColumnCounts
  <2> QED BY <2>5
<1>10. ASSUME NEW d \in Days
       PROVE  /\ SnapshotNoShows(d)["teacher"] = Cardinality({n \in T : lectures[n].day = d})
              /\ SnapshotNoShows(d)["other"] = Cardinality({n \in O : lectures[n].day = d})
  <2> PICK M, A, B : /\ M = {n \in OnDay(d) : lectures[n].status = "no_show"}
                     /\ A = {n \in T : lectures[n].day = d}
                     /\ B = {n \in O : lectures[n].day = d}
    OBVIOUS
  <2>1. M = {n \in all : lectures[n].day = d}
    BY DEF OnDay, WithStatus
  <2>2. {n \in M : lectures[n].reason = "teacher"} = A /\ M = A \cup B /\ A \cap B = {}
    BY <1>4, <2>1
  <2>3. A \in SUBSET Shown /\ B \in SUBSET Shown
    BY <1>1
  <2>4. Cardinality(M) = Cardinality(A) + Cardinality(B)
    BY <1>1, <2>2, <2>3, CountApart
  <2>5. Cardinality(A) \in Nat /\ Cardinality(B) \in Nat
    BY <1>1, <2>3, FiniteCount
  <2>6. /\ SnapshotNoShows(d)["teacher"] = Cardinality(A)
        /\ SnapshotNoShows(d)["other"] = Cardinality(M) - Cardinality(A)
    BY <2>2 DEF SnapshotNoShows
  <2> QED BY <2>4, <2>5, <2>6
<1>11. /\ Column([d \in Days |-> SnapshotNoShows(d)], "teacher") = Cardinality(T)
       /\ Column([d \in Days |-> SnapshotNoShows(d)], "other") = Cardinality(O)
  BY <1>1, <1>9, <1>10
<1>12. NoShowReasons = {"teacher", "other"}
  BY DEF NoShowReasons
<1> QED BY <1>5, <1>6, <1>7, <1>8, <1>11, <1>12 DEF NoShowsAgree

(* The dashboards of a branch agree with each other and leave out nothing:  *)
(* for any number of lectures, teachers, batches and weeks, however they    *)
(* were planned, moved, given up, taken over and closed.                    *)
THEOREM DashboardsAlwaysAgree == LecturesSpec => []DashboardsAgree
<1>1. Inv /\ ReportsTruthful => DashboardsAgree
  BY NothingIsForgotten, RostersAgree, AdherencesAgree, ProductivitiesAgree,
     NoShowsDoAgree DEF Inv, DashboardsAgree
<1> QED BY <1>1, ReportsAreTrue, LecturesInvInductive, PTL DEF LecturesSpec

-----------------------------------------------------------------------------
(* What is reported of the days of the students.                            *)

\* The sum of a table, element by element.
LEMMA SummedIs == \A f : Summed(f) = Total(f, DOMAIN f)
BY SumOfAll DEF Summed, SumFunction, FoldFunction, SumFunctionOnSet, FoldFunctionOnSet, MapThenFoldSet

\* Who is of a batch and its days are few; nobody comes in on a day the matrix has not.
LEMMA SetsAre ==
    ASSUME RegistersTypeOK, NEW g
    PROVE  /\ Members(g) \in SUBSET (Pupil \ gone) /\ IsFiniteSet(Members(g))
           /\ Scheduled(g) \in SUBSET MatrixColumns(g) /\ MatrixColumns(g) \in SUBSET SchoolDays
           /\ IsFiniteSet(Scheduled(g)) /\ IsFiniteSet(MatrixColumns(g))
           /\ \A p \in Members(g) : PresentOn(p) \subseteq MatrixColumns(g)
<1>1. Members(g) \in SUBSET (Pupil \ gone) /\ Members(g) \in SUBSET Pupil
  BY DEF Members
<1>2. /\ Scheduled(g) \in SUBSET MatrixColumns(g) /\ MatrixColumns(g) \in SUBSET SchoolDays
      /\ Scheduled(g) \in SUBSET SchoolDays
  BY DEF Scheduled, MatrixColumns, PresentOn
<1>3. IsFiniteSet(Pupil) /\ IsFiniteSet(SchoolDays)
  BY RegistersAssumption
<1>4. IsFiniteSet(Members(g)) /\ IsFiniteSet(Scheduled(g)) /\ IsFiniteSet(MatrixColumns(g))
  BY <1>1, <1>2, <1>3, FS_Subset
<1>5. \A p \in Members(g) : PresentOn(p) \subseteq MatrixColumns(g)
  BY DEF MatrixColumns
<1> QED
  BY <1>1, <1>2, <1>4, <1>5

\* The days a student came in on are school days.
LEMMA PresentIs ==
    ASSUME NEW p
    PROVE  PresentOn(p) \in SUBSET SchoolDays /\ IsFiniteSet(PresentOn(p))
           /\ Cardinality(PresentOn(p)) \in Nat
<1>1. PresentOn(p) \in SUBSET SchoolDays /\ IsFiniteSet(SchoolDays)
  BY RegistersAssumption DEF PresentOn
<1> QED
  BY <1>1, FS_Subset, FS_CardinalityType

\* A day of a student is written in four ways, which agree on who came in.
LEMMA CellIs ==
    ASSUME NEW p, NEW d \in SchoolDays
    PROVE  /\ Cell(p, d) = "P" <=> dayRow[<<p, d>>] = "PRESENT"
           /\ Cell(p, d) = "L" <=> dayRow[<<p, d>>] = "LATE"
           /\ Cell(p, d) \in {"P", "L"} <=> d \in PresentOn(p)
           /\ Cell(p, d) # "A" <=> d \in PresentOn(p)
           /\ Mark(p, d) = "P" <=> d \in PresentOn(p)
           /\ DayLabel(p, d) # "Absent" <=> d \in PresentOn(p)
<1>1. CASE dayRow[<<p, d>>] = "PRESENT"
  BY <1>1 DEF Cell, Mark, DayLabel, PresentOn, CameIn
<1>2. CASE dayRow[<<p, d>>] = "LATE"
  BY <1>2 DEF Cell, Mark, DayLabel, PresentOn, CameIn
<1>3. CASE dayRow[<<p, d>>] \notin {"PRESENT", "LATE"}
  BY <1>3 DEF Cell, Mark, DayLabel, PresentOn, CameIn
<1> QED
  BY <1>1, <1>2, <1>3

\* Who of a batch came in on which day.
Came(g) == {x \in Members(g) \X MatrixColumns(g) : x[2] \in PresentOn(x[1])}

\* The matrix of a batch is the relation of its students and the days they came in on.
LEMMA MatrixIs ==
    ASSUME RegistersTypeOK, NEW g
    PROVE  LET M == Members(g)
               D == MatrixColumns(g)
           IN  /\ Matrix(g).working = Cardinality(D)
               /\ Matrix(g).cells = [x \in M \X D |-> Cell(x[1], x[2])]
               /\ DOMAIN Matrix(g).present = M /\ DOMAIN Matrix(g).dayPresent = D
               /\ \A p \in M : /\ Matrix(g).present[p] = Cardinality(PresentOn(p))
                               /\ Matrix(g).present[p] = Cardinality(OfRow(Came(g), D, p))
               /\ \A d \in D : Matrix(g).dayPresent[d] = Cardinality(OfColumn(Came(g), M, d))
<1> PICK M, D : M = Members(g) /\ D = MatrixColumns(g)
  OBVIOUS
<1>1. D \subseteq SchoolDays /\ \A p \in M : PresentOn(p) \subseteq D
  BY SetsAre
<1>2. /\ Matrix(g).working = Cardinality(D)
      /\ Matrix(g).cells = [x \in M \X D |-> Cell(x[1], x[2])]
      /\ Matrix(g).present = [p \in M |-> Cardinality({d \in D : Cell(p, d) \in {"P", "L"}})]
      /\ Matrix(g).dayPresent = [d \in D |-> Cardinality({p \in M : Cell(p, d) \in {"P", "L"}})]
  BY DEF Matrix
<1>3. ASSUME NEW p \in M
      PROVE  /\ {d \in D : Cell(p, d) \in {"P", "L"}} = PresentOn(p)
             /\ {d \in D : Cell(p, d) \in {"P", "L"}} = OfRow(Came(g), D, p)
  BY <1>1, CellIs DEF Came, OfRow, OfColumn
<1>4. ASSUME NEW d \in D
      PROVE  {p \in M : Cell(p, d) \in {"P", "L"}} = OfColumn(Came(g), M, d)
  BY <1>1, CellIs DEF Came, OfRow, OfColumn
<1> QED
  BY <1>2, <1>3, <1>4

\* The totals of its rows and those of its columns are the pairs of that relation.
LEMMA CameIs ==
    ASSUME RegistersTypeOK, NEW g
    PROVE  /\ Came(g) \in SUBSET (Members(g) \X MatrixColumns(g)) /\ IsFiniteSet(Came(g))
           /\ Cardinality(Came(g)) \in Nat
           /\ Total(Matrix(g).present, Members(g)) = Cardinality(Came(g))
           /\ Total(Matrix(g).dayPresent, MatrixColumns(g)) = Cardinality(Came(g))
<1> PICK M, D, R : M = Members(g) /\ D = MatrixColumns(g) /\ R = Came(g)
  OBVIOUS
<1> PICK f, h : f = Matrix(g).present /\ h = Matrix(g).dayPresent
  OBVIOUS
<1>1. IsFiniteSet(M) /\ IsFiniteSet(D) /\ R \in SUBSET (M \X D)
  BY SetsAre DEF Came
<1>2. \A p \in M : f[p] = Cardinality(OfRow(R, D, p))
  BY MatrixIs
<1>3. \A d \in D : h[d] = Cardinality(OfColumn(R, M, d))
  BY MatrixIs
<1>4. Total(f, M) = Cardinality(R) /\ Total(h, D) = Cardinality(R) /\ IsFiniteSet(R)
  BY ONLY <1>1, <1>2, <1>3, CountedTwice
<1> QED
  BY <1>1, <1>4, FS_CardinalityType

\* A line of the sheet of a batch: who was present or late came in, and nobody
\* on more days than there are.
LEMMA SheetIs ==
    ASSUME RegistersTypeOK, NEW g, NEW p \in Members(g)
    PROVE  /\ SheetTotals(g)[p].present + SheetTotals(g)[p].late = Matrix(g).present[p]
           /\ SheetTotals(g)[p].absent
                = Cardinality(MatrixColumns(g)) - Cardinality(OfRow(Came(g), MatrixColumns(g), p))
           /\ SheetTotals(g)[p].absent \in Nat
<1> PICK M, D, R : M = Members(g) /\ D = MatrixColumns(g) /\ R = Came(g)
  OBVIOUS
<1> PICK C : C = [x \in M \X D |-> Cell(x[1], x[2])]
  OBVIOUS
<1>1. IsFiniteSet(M) /\ IsFiniteSet(D) /\ D \subseteq SchoolDays /\ R \in SUBSET (M \X D)
  BY SetsAre DEF Came
<1> PICK present, late : /\ present = {x \in M \X D : x[1] = p /\ C[x] = "P"}
                         /\ late = {x \in M \X D : x[1] = p /\ C[x] = "L"}
  OBVIOUS
<1>2. /\ SheetTotals(g)[p].present = Cardinality(present)
      /\ SheetTotals(g)[p].late = Cardinality(late)
      /\ SheetTotals(g)[p].absent = Cardinality(D) - Matrix(g).present[p]
  <2>1. Matrix(g).working = Cardinality(D) /\ Matrix(g).cells = C /\ DOMAIN C = M \X D
    BY MatrixIs
  <2> QED
    BY <2>1 DEF SheetTotals
<1>3. Matrix(g).present[p] = Cardinality(OfRow(R, D, p))
  BY MatrixIs
<1>4. present \cup late = RowPairs(R, p) /\ present \cap late = {}
  <2>1. ASSUME NEW x \in M \X D, x[1] = p PROVE x \in R <=> (C[x] = "P" \/ C[x] = "L")
    <3>1. x[1] = p /\ x[2] \in D /\ x[2] \in SchoolDays
      BY <1>1, <2>1
    <3>2. C[x] = Cell(p, x[2])
      BY <2>1
    <3>3. Cell(p, x[2]) \in {"P", "L"} <=> x[2] \in PresentOn(p)
      BY <3>1, CellIs
    <3> QED
      BY <2>1, <3>1, <3>2, <3>3 DEF Came
  <2> QED
    BY <1>1, <2>1 DEF RowPairs
<1>5. Cardinality(present \cup late) = Cardinality(OfRow(R, D, p)) /\ IsFiniteSet(present \cup late)
  <2>1. p \in M
    OBVIOUS
  <2>2. Cardinality(RowPairs(R, p)) = Cardinality(OfRow(R, D, p)) /\ IsFiniteSet(RowPairs(R, p))
    BY ONLY <1>1, <2>1, RowCount
  <2> QED
    BY <1>4, <2>2
<1>6. IsFiniteSet(present) /\ IsFiniteSet(late)
  <2>1. present \in SUBSET (present \cup late) /\ late \in SUBSET (present \cup late)
    OBVIOUS
  <2> QED
    BY ONLY <1>5, <2>1, FS_Subset
<1>7. Cardinality(present \cup late) = Cardinality(present) + Cardinality(late)
  BY ONLY <1>4, <1>6, BothApart
<1>8. OfRow(R, D, p) \in SUBSET D
  BY DEF OfRow
<1>9. /\ Cardinality(OfRow(R, D, p)) \in Nat /\ Cardinality(D) \in Nat
      /\ Cardinality(OfRow(R, D, p)) <= Cardinality(D)
  BY ONLY <1>1, <1>8, FS_Subset, FS_CardinalityType
<1>10. Cardinality(D) - Cardinality(OfRow(R, D, p)) \in Nat
  BY ONLY <1>9
<1> QED
  BY <1>2, <1>3, <1>5, <1>7, <1>10

\* The counts of a day are the column of that day.
LEMMA CountsAre ==
    ASSUME RegistersTypeOK, NEW g
    PROVE  /\ DOMAIN DailyBatchCounts(g) = MatrixColumns(g)
           /\ \A d \in MatrixColumns(g) :
                 /\ DailyBatchCounts(g)[d].present = Cardinality(OfColumn(Came(g), Members(g), d))
                 /\ DailyBatchCounts(g)[d].absent
                      = Cardinality(Members(g)) - Cardinality(OfColumn(Came(g), Members(g), d))
           /\ \A d \in SchoolDays :
                 DayCounts(g, d).present = Cardinality(OfColumn(Came(g), Members(g), d))
           /\ \A d \in SchoolDays \ MatrixColumns(g) : DayCounts(g, d).present = 0
<1> PICK M, D : M = Members(g) /\ D = MatrixColumns(g)
  OBVIOUS
<1>1. D \subseteq SchoolDays /\ \A p \in M : PresentOn(p) \subseteq D
  BY SetsAre
<1>2. /\ DOMAIN Matrix(g).dayPresent = D
      /\ \A d \in D : Matrix(g).dayPresent[d] = Cardinality(OfColumn(Came(g), M, d))
  BY MatrixIs
<1>3. DailyBatchCounts(g) = [d \in D |->
          [enrolled |-> Cardinality(M), present |-> Matrix(g).dayPresent[d],
           absent |-> Cardinality(M) - Matrix(g).dayPresent[d]]]
  BY <1>2 DEF DailyBatchCounts
<1>4. ASSUME NEW d \in SchoolDays
      PROVE  DayCounts(g, d).present = Cardinality(OfColumn(Came(g), M, d))
  <2>1. \A p \in M : Mark(p, d) = "P" <=> <<p, d>> \in Came(g)
    BY <1>1, CellIs DEF Came
  <2>2. {p \in M : Mark(p, d) = "P"} = OfColumn(Came(g), M, d)
    BY <2>1 DEF OfColumn
  <2> QED
    BY <2>2 DEF DayCounts
<1>5. ASSUME NEW d \in SchoolDays \ D PROVE DayCounts(g, d).present = 0
  <2>1. OfColumn(Came(g), M, d) = {}
    BY DEF OfColumn, Came
  <2>2. Cardinality(OfColumn(Came(g), M, d)) = 0
    BY <2>1, FS_EmptySet
  <2> QED
    BY <1>4, <2>2
<1> QED
  BY <1>2, <1>3, <1>4, <1>5

\* The matrix agrees with the sheet of the batch, the counts of its days and the cells.
LEMMA MatrixDoesAgree == RegistersTypeOK => MatrixAgrees
<1> SUFFICES ASSUME RegistersTypeOK, NEW g \in Group
             PROVE  /\ Summed(Matrix(g).dayPresent) = SummaryRow(g).present
                    /\ SummaryRow(g).present <= SummaryRow(g).slots
                    /\ \A p \in Members(g) :
                          /\ SheetTotals(g)[p].present + SheetTotals(g)[p].late = Matrix(g).present[p]
                          /\ SheetTotals(g)[p].absent >= 0
                    /\ \A d \in SchoolDays :
                          DayCounts(g, d).present
                            = IF d \in DOMAIN DailyBatchCounts(g) THEN DailyBatchCounts(g)[d].present ELSE 0
                    /\ \A x \in DOMAIN Matrix(g).cells : Matrix(g).cells[x] # "A" => x \in DayLedger
  BY DEF MatrixAgrees
<1> PICK M, D, R : M = Members(g) /\ D = MatrixColumns(g) /\ R = Came(g)
  OBVIOUS
<1>1. IsFiniteSet(M) /\ IsFiniteSet(D) /\ D \subseteq SchoolDays /\ M \subseteq Pupil \ gone
  BY SetsAre
<1>2. /\ SummaryRow(g).present = Cardinality(R) /\ Summed(Matrix(g).dayPresent) = Cardinality(R)
      /\ SummaryRow(g).slots = Cardinality(M) * Cardinality(D)
  <2>1. /\ DOMAIN Matrix(g).present = M /\ DOMAIN Matrix(g).dayPresent = D
        /\ Matrix(g).working = Cardinality(D)
    BY MatrixIs
  <2>2. Total(Matrix(g).present, M) = Cardinality(R) /\ Total(Matrix(g).dayPresent, D) = Cardinality(R)
    BY CameIs
  <2>3. Summed(Matrix(g).present) = Cardinality(R) /\ Summed(Matrix(g).dayPresent) = Cardinality(R)
    BY <2>1, <2>2, SummedIs
  <2> QED
    BY <2>1, <2>3 DEF SummaryRow
<1>3. Cardinality(R) <= Cardinality(M) * Cardinality(D)
  <2>1. R \in SUBSET (M \X D)
    BY DEF Came
  <2>2. IsFiniteSet(M \X D) /\ Cardinality(M \X D) = Cardinality(M) * Cardinality(D)
    BY <1>1, FS_Product
  <2>3. Cardinality(R) <= Cardinality(M \X D)
    BY ONLY <2>1, <2>2, FS_Subset
  <2> QED
    BY <2>2, <2>3
<1>4. \A p \in M : /\ SheetTotals(g)[p].present + SheetTotals(g)[p].late = Matrix(g).present[p]
                   /\ SheetTotals(g)[p].absent >= 0
  BY SheetIs
<1>5. \A d \in SchoolDays :
          DayCounts(g, d).present
            = IF d \in DOMAIN DailyBatchCounts(g) THEN DailyBatchCounts(g)[d].present ELSE 0
  BY CountsAre
<1>6. ASSUME NEW x \in DOMAIN Matrix(g).cells, Matrix(g).cells[x] # "A" PROVE x \in DayLedger
  <2>1. Matrix(g).cells = [y \in M \X D |-> Cell(y[1], y[2])]
    BY MatrixIs
  <2>2. x \in M \X D /\ x = <<x[1], x[2]>> /\ Cell(x[1], x[2]) # "A"
    BY <1>6, <2>1
  <2>3. x[2] \in SchoolDays /\ x[1] \in Pupil /\ x[1] \notin gone
    BY <1>1, <2>2
  <2>4. x[2] \in PresentOn(x[1])
    BY <2>2, <2>3, CellIs
  <2>5. dayRow[x] # "none"
    BY <2>2, <2>4 DEF PresentOn, CameIn
  <2>6. DOMAIN dayRow = Pupil \X SchoolDays
    BY DEF RegistersTypeOK
  <2> QED
    BY <2>2, <2>3, <2>5, <2>6 DEF DayLedger
<1> QED
  BY <1>2, <1>3, <1>4, <1>5, <1>6

\* The batches of a student are few.
LEMMA GroupsAre ==
    ASSUME RegistersTypeOK, NEW p \in Pupil \ gone
    PROVE  /\ GroupsOf(p) \in SUBSET Group /\ IsFiniteSet(GroupsOf(p))
           /\ \A g \in GroupsOf(p) : p \in Members(g)
<1>1. GroupsOf(p) \in SUBSET Group /\ \A g \in GroupsOf(p) : p \in Members(g)
  BY DEF GroupsOf, Members
<1> QED
  BY <1>1, RegistersAssumption, FS_Subset

\* The board adds up, over the batches of a student, the days he came and the
\* days of their matrices.
LEMMA BoardRowIs ==
    ASSUME RegistersTypeOK, NEW p \in Pupil \ gone
    PROVE  LET came == [g \in GroupsOf(p) |-> Cardinality(PresentOn(p))]
               days == [g \in GroupsOf(p) |-> Cardinality(MatrixColumns(g))]
           IN  /\ BoardRow(p) = [present |-> Total(came, GroupsOf(p)), working |-> Total(days, GroupsOf(p))]
               /\ BoardRow(p).present \in Nat /\ BoardRow(p).working \in Nat
               /\ BoardRow(p).present <= BoardRow(p).working
               /\ \A g \in GroupsOf(p) : Cardinality(PresentOn(p)) <= BoardRow(p).present
<1> PICK G : G = GroupsOf(p)
  OBVIOUS
<1> PICK came, days : /\ came = [g \in G |-> Cardinality(PresentOn(p))]
                      /\ days = [g \in G |-> Cardinality(MatrixColumns(g))]
  OBVIOUS
<1>1. IsFiniteSet(G) /\ \A g \in G : p \in Members(g)
  BY GroupsAre
<1>2. \A g \in G : came[g] \in Nat /\ days[g] \in Nat /\ came[g] <= days[g]
  <2> SUFFICES ASSUME NEW g \in G
               PROVE  /\ Cardinality(PresentOn(p)) \in Nat /\ Cardinality(MatrixColumns(g)) \in Nat
                      /\ Cardinality(PresentOn(p)) <= Cardinality(MatrixColumns(g))
    OBVIOUS
  <2>1. IsFiniteSet(MatrixColumns(g)) /\ PresentOn(p) \in SUBSET MatrixColumns(g)
    BY <1>1, SetsAre
  <2> QED
    BY ONLY <2>1, FS_Subset, FS_CardinalityType
<1>3. BoardRow(p) = [present |-> Total(came, G), working |-> Total(days, G)]
  <2>1. {g \in GroupsOf(p) : p \in Members(g)} = G
    BY <1>1
  <2> PICK f, h : /\ f = [g \in G |-> Matrix(g).present[p]] /\ h = [g \in G |-> Matrix(g).working]
    OBVIOUS
  <2>2. f = came /\ h = days
    <3>1. \A g \in G : /\ Matrix(g).present[p] = Cardinality(PresentOn(p))
                       /\ Matrix(g).working = Cardinality(MatrixColumns(g))
      BY <1>1, MatrixIs
    <3> QED
      BY <3>1
  <2>3. BoardRow(p) = [present |-> Summed(f), working |-> Summed(h)]
    BY <2>1 DEF BoardRow
  <2>4. Summed(f) = Total(came, G) /\ Summed(h) = Total(days, G)
    BY <2>2, SummedIs
  <2> QED
    BY <2>3, <2>4
<1>4. Total(came, G) \in Nat /\ Total(days, G) \in Nat /\ Total(came, G) <= Total(days, G)
  BY <1>1, <1>2, TotalGrows
<1>5. ASSUME NEW g \in G PROVE Cardinality(PresentOn(p)) <= Total(came, G)
  <2>1. came[g] = Cardinality(PresentOn(p)) /\ \A x \in G : came[x] \in Int
    BY <1>2
  <2>2. Total(came, G) = came[g] + Total(came, G \ {g})
    BY <1>1, <2>1, TotalTake
  <2>3. IsFiniteSet(G \ {g}) /\ \A x \in G \ {g} : came[x] \in Nat
    BY <1>1, <1>2, FS_Subset
  <2>4. Total(came, G \ {g}) \in Nat
    BY <2>3, TotalIsNat
  <2> QED
    BY <1>2, <2>1, <2>2, <2>4
<1> QED
  BY <1>3, <1>4, <1>5

\* The summary of a month, and how it compares with the day rows.
LEMMA MonthIs ==
    ASSUME RegistersTypeOK, NEW p \in Pupil \ gone
    PROVE  LET days == UNION {Scheduled(g) : g \in GroupsOf(p)}
           IN  /\ MonthlySummary(p) = [working |-> Cardinality(days),
                                       present |-> Cardinality(days \cap PresentOn(p))]
               /\ MonthlySummary(p).present \in Nat /\ MonthlySummary(p).working \in Nat
               /\ MonthlySummary(p).present <= Cardinality(PresentOn(p))
               /\ GroupsOf(p) = {} => MonthlySummary(p).present = 0
               /\ (GroupsOf(p) # {} /\ \A g \in GroupsOf(p) : MatrixColumns(g) = Scheduled(g))
                     => MonthlySummary(p).present = Cardinality(PresentOn(p))
<1> PICK days : days = UNION {Scheduled(g) : g \in GroupsOf(p)}
  OBVIOUS
<1> PICK came : came = PresentOn(p)
  OBVIOUS
<1> PICK both : both = days \cap came
  OBVIOUS
<1>1. IsFiniteSet(came) /\ Cardinality(came) \in Nat
  BY PresentIs
<1>2. MonthlySummary(p) = [working |-> Cardinality(days), present |-> Cardinality(both)]
  BY DEF MonthlySummary
<1>3. IsFiniteSet(days) /\ IsFiniteSet(both) /\ both \in SUBSET came
  <2>1. days \in SUBSET SchoolDays
    BY DEF Scheduled
  <2> QED
    BY <1>1, <2>1, RegistersAssumption, FS_Subset
<1>4. Cardinality(days) \in Nat /\ Cardinality(both) \in Nat /\ Cardinality(both) <= Cardinality(came)
  BY ONLY <1>1, <1>3, FS_Subset, FS_CardinalityType
<1>5. ASSUME GroupsOf(p) = {} PROVE Cardinality(both) = 0
  <2>1. both = {}
    BY <1>5
  <2> QED
    BY <2>1, FS_EmptySet
<1>6. ASSUME GroupsOf(p) # {}, \A g \in GroupsOf(p) : MatrixColumns(g) = Scheduled(g)
      PROVE  both = came
  <2> PICK g \in GroupsOf(p) : TRUE
    BY <1>6
  <2>1. p \in Members(g)
    BY GroupsAre
  <2>2. came \subseteq Scheduled(g)
    BY <1>6, <2>1, SetsAre
  <2> QED
    BY <2>2
<1> QED
  BY <1>2, <1>4, <1>5, <1>6

\* A share of a whole, in percent.
LEMMA ShareIs ==
    ASSUME NEW t \in 0 .. 100
    PROVE  \A n \in Nat : t * n <= 100 * n /\ (t > 0 /\ n > 0 => t * n > 0)
<1> DEFINE Good(n) == t * n <= 100 * n /\ (t > 0 /\ n > 0 => t * n > 0) /\ t * n >= 0
           N == {n \in Nat : Good(n)}
<1>1. 0 \in N
  OBVIOUS
<1>2. ASSUME NEW n \in N PROVE n + 1 \in N
  <2>1. t * (n + 1) = t * n + t
    OBVIOUS
  <2> QED
    BY <2>1
<1>3. \A n \in Nat : n \in N
  <2>1. N \in SUBSET Nat
    OBVIOUS
  <2> HIDE DEF N
  <2> QED
    BY <1>1, <1>2, <2>1, AllNumbers
<1> QED
  BY <1>3

\* The board agrees with the matrices of the batches of a student.
LEMMA BoardDoesAgree == RegistersTypeOK => BoardAgrees
<1> SUFFICES ASSUME RegistersTypeOK, NEW p \in Pupil \ gone
             PROVE  LET row == BoardRow(p)
                        usual == /\ Cardinality(GroupsOf(p)) = 1
                                 /\ \A g \in GroupsOf(p) : MatrixColumns(g) = Scheduled(g)
                    IN  /\ row.present = row.working => p \notin Defaulters
                        /\ (row.present = 0 /\ row.working > 0 /\ Threshold > 0) => p \in Defaulters
                        /\ usual => /\ p \in DOMAIN RosterAttendance <=> row.working > 0
                                    /\ p \in DOMAIN RosterAttendance => RosterAttendance[p] = row
                        /\ MonthlySummary(p).present <= Cardinality(Timeline(p))
                        /\ MonthlySummary(p).present <= row.present
  BY DEF BoardAgrees
<1> PICK row : row = BoardRow(p)
  OBVIOUS
<1> PICK G : G = GroupsOf(p)
  OBVIOUS
<1> PICK month : month = MonthlySummary(p)
  OBVIOUS
<1>1. /\ row.present \in Nat /\ row.working \in Nat /\ row.present <= row.working
      /\ \A g \in G : Cardinality(PresentOn(p)) <= row.present
  BY BoardRowIs
<1>2. p \in Defaulters <=> row.working > 0 /\ 100 * row.present < Threshold * row.working
  BY DEF Defaulters, Below
<1>3. /\ Threshold * row.working <= 100 * row.working
      /\ Threshold > 0 /\ row.working > 0 => Threshold * row.working > 0
  BY <1>1, ShareIs, RegistersAssumption
<1>4. /\ month.present \in Nat /\ month.present <= Cardinality(PresentOn(p))
      /\ G = {} => month.present = 0
  BY MonthIs
<1>5. ASSUME row.present = row.working PROVE p \notin Defaulters
  <2> PICK w, t : w = row.working /\ t = Threshold * w
    OBVIOUS
  <2>1. t <= 100 * w /\ row.present = w /\ w \in Nat /\ (p \in Defaulters => 100 * w < t)
    BY <1>1, <1>2, <1>3, <1>5
  <2>2. t \in Int
    BY <2>1, RegistersAssumption
  <2> QED
    BY ONLY <2>1, <2>2
<1>6. ASSUME row.present = 0, row.working > 0, Threshold > 0 PROVE p \in Defaulters
  BY <1>2, <1>3, <1>6
<1>7. ASSUME Cardinality(G) = 1, \A g \in G : MatrixColumns(g) = Scheduled(g)
      PROVE  /\ p \in DOMAIN RosterAttendance <=> row.working > 0
             /\ p \in DOMAIN RosterAttendance => RosterAttendance[p] = row
  <2>1. IsFiniteSet(G)
    BY GroupsAre
  <2>2. PICK g : G = {g}
    BY <1>7, <2>1, FS_Singleton
  <2> PICK came, days : /\ came = [x \in G |-> Cardinality(PresentOn(p))]
                        /\ days = [x \in G |-> Cardinality(MatrixColumns(x))]
    OBVIOUS
  <2>3. row = [present |-> Total(came, G), working |-> Total(days, G)]
    BY BoardRowIs
  <2>4. came[g] = Cardinality(PresentOn(p)) /\ days[g] = Cardinality(Scheduled(g))
    BY <1>7, <2>2
  <2>5. came[g] \in Int /\ days[g] \in Int
    <3>1. IsFiniteSet(Scheduled(g))
      BY SetsAre
    <3>2. Cardinality(Scheduled(g)) \in Nat
      BY <3>1, FS_CardinalityType
    <3> QED
      BY <2>4, <3>2, PresentIs
  <2>6. Total(came, G) = came[g] /\ Total(days, G) = days[g]
    BY <2>2, <2>5, TotalOfOne
  <2>7. month = [working |-> Cardinality(Scheduled(g)), present |-> Cardinality(PresentOn(p))]
    <3>1. UNION {Scheduled(x) : x \in GroupsOf(p)} = Scheduled(g) /\ GroupsOf(p) # {}
      BY <2>2
    <3>2. \A x \in GroupsOf(p) : MatrixColumns(x) = Scheduled(x)
      BY <1>7
    <3>3. month.present = Cardinality(PresentOn(p))
      BY <3>1, <3>2, MonthIs
    <3> PICK all : all = UNION {Scheduled(x) : x \in GroupsOf(p)}
      OBVIOUS
    <3> PICK both : both = all \cap PresentOn(p)
      OBVIOUS
    <3>4. month = [working |-> Cardinality(all), present |-> Cardinality(both)]
      BY DEF MonthlySummary
    <3>5. all = Scheduled(g)
      BY <3>1
    <3>6. Cardinality(both) = Cardinality(PresentOn(p))
      BY ONLY <3>3, <3>4
    <3> QED
      BY ONLY <3>4, <3>5, <3>6
  <2>8. row = month
    BY <2>3, <2>4, <2>6, <2>7
  <2>9. p \in DOMAIN RosterAttendance <=> month.working > 0
    BY DEF RosterAttendance
  <2>10. p \in DOMAIN RosterAttendance => RosterAttendance[p] = month
    BY DEF RosterAttendance
  <2> QED
    BY <2>8, <2>9, <2>10
<1>8. month.present <= Cardinality(Timeline(p))
  <2>1. PresentOn(p) \in SUBSET Timeline(p) /\ Timeline(p) \in SUBSET SchoolDays
    BY DEF PresentOn, Timeline, CameIn
  <2>2. IsFiniteSet(Timeline(p))
    BY <2>1, RegistersAssumption, FS_Subset
  <2>3. Cardinality(PresentOn(p)) <= Cardinality(Timeline(p)) /\ Cardinality(Timeline(p)) \in Nat
    BY ONLY <2>1, <2>2, FS_Subset, FS_CardinalityType
  <2> QED
    BY <1>4, <2>3, PresentIs
<1>9. month.present <= row.present
  <2>1. CASE G = {}
    BY <1>1, <1>4, <2>1
  <2>2. CASE G # {}
    <3> PICK g \in G : TRUE
      BY <2>2
    <3> QED
      BY <1>1, <1>4, PresentIs
  <2> QED
    BY <2>1, <2>2
<1> QED
  BY <1>5, <1>6, <1>7, <1>8, <1>9

\* The turnout of a lecture agrees with the matrix of its batch.
LEMMA TurnoutDoesAgree == RegistersTypeOK => TurnoutAgrees
<1> SUFFICES ASSUME RegistersTypeOK, NEW s \in DOMAIN Turnout
             PROVE  /\ Turnout[s].present >= DayCounts(s[1], s[2]).present
                    /\ (\A p \in gone : s[1] \notin GroupsOf(p))
                          => /\ Turnout[s].present = DayCounts(s[1], s[2]).present
                             /\ Turnout[s].roster = DayCounts(s[1], s[2]).total
  BY DEF TurnoutAgrees
<1> PICK all : all = {p \in Pupil : <<p, s[1]>> \in roll}
  OBVIOUS
<1> PICK came, here : /\ came = {p \in all : s[2] \in PresentOn(p)}
                      /\ here = {p \in Members(s[1]) : Mark(p, s[2]) = "P"}
  OBVIOUS
<1>1. s \in Slots /\ s[1] \in Group /\ s[2] \in SchoolDays
  BY RegistersAssumption DEF Turnout
<1>2. Turnout[s] = [roster |-> Cardinality(all), present |-> Cardinality(came)]
  BY DEF Turnout
<1>3. DayCounts(s[1], s[2]) = [total |-> Cardinality(Members(s[1])), present |-> Cardinality(here)]
  BY DEF DayCounts
<1>4. \A p : Mark(p, s[2]) = "P" <=> s[2] \in PresentOn(p)
  BY <1>1, CellIs
<1>5. Members(s[1]) \subseteq all /\ here \in SUBSET came /\ came \in SUBSET Pupil
  BY <1>4 DEF Members
<1>6. IsFiniteSet(came)
  BY <1>5, RegistersAssumption, FS_Subset
<1>7. Cardinality(here) \in Nat /\ Cardinality(came) \in Nat /\ Cardinality(here) <= Cardinality(came)
  BY ONLY <1>5, <1>6, FS_Subset, FS_CardinalityType
<1>8. ASSUME \A p \in gone : s[1] \notin GroupsOf(p) PROVE Members(s[1]) = all /\ here = came
  <2>1. Members(s[1]) = all
    BY <1>1, <1>8 DEF Members, GroupsOf
  <2> QED
    BY <1>4, <2>1
<1>9. /\ Turnout[s].present = Cardinality(came) /\ Turnout[s].roster = Cardinality(all)
      /\ DayCounts(s[1], s[2]).present = Cardinality(here)
      /\ DayCounts(s[1], s[2]).total = Cardinality(Members(s[1]))
  BY <1>2, <1>3
<1>10. Turnout[s].present >= DayCounts(s[1], s[2]).present
  BY ONLY <1>7, <1>9
<1>11. ASSUME \A p \in gone : s[1] \notin GroupsOf(p)
       PROVE  /\ Turnout[s].present = DayCounts(s[1], s[2]).present
              /\ Turnout[s].roster = DayCounts(s[1], s[2]).total
  BY <1>8, <1>9, <1>11
<1> QED
  BY <1>10, <1>11

\* The days missed, of a batch, by day and by student.
LEMMA AbsencesAre ==
    ASSUME RegistersTypeOK, NEW g \in Group
    PROVE  Summed([d \in {e \in SchoolDays : <<e, g>> \in DOMAIN DaywiseBatchwise} |->
                      DaywiseBatchwise[<<d, g>>].absent])
             = Summed([p \in Members(g) |-> AllBatches[g].sheet[p].absent])
<1> PICK M, D, R : M = Members(g) /\ D = MatrixColumns(g) /\ R = Came(g)
  OBVIOUS
<1> PICK missed : missed = (M \X D) \ R
  OBVIOUS
<1>1. IsFiniteSet(M) /\ IsFiniteSet(D) /\ missed \in SUBSET (M \X D) /\ D \subseteq SchoolDays
  BY SetsAre
<1>2. {e \in SchoolDays : <<e, g>> \in DOMAIN DaywiseBatchwise} = D
  BY <1>1, CountsAre DEF DaywiseBatchwise
<1> PICK f, h : /\ f = [d \in D |-> DaywiseBatchwise[<<d, g>>].absent]
                /\ h = [p \in M |-> AllBatches[g].sheet[p].absent]
  OBVIOUS
<1>3. ASSUME NEW d \in D PROVE f[d] = Cardinality(OfColumn(missed, M, d))
  <2>1. <<d, g>> \in DOMAIN DaywiseBatchwise /\ DaywiseBatchwise[<<d, g>>] = DailyBatchCounts(g)[d]
    BY <1>1, CountsAre DEF DaywiseBatchwise
  <2>2. f[d] = Cardinality(M) - Cardinality(OfColumn(R, M, d))
    BY <2>1, CountsAre
  <2>3. OfColumn(missed, M, d) = M \ OfColumn(R, M, d) /\ M \cap OfColumn(R, M, d) = OfColumn(R, M, d)
    BY DEF OfColumn
  <2>4. Cardinality(M \ OfColumn(R, M, d)) = Cardinality(M) - Cardinality(M \cap OfColumn(R, M, d))
    BY ONLY <1>1, FS_Difference
  <2> QED
    BY <2>2, <2>3, <2>4
<1>4. ASSUME NEW p \in M PROVE h[p] = Cardinality(OfRow(missed, D, p))
  <2>1. h[p] = Cardinality(D) - Cardinality(OfRow(R, D, p))
    BY SheetIs DEF AllBatches
  <2>2. OfRow(missed, D, p) = D \ OfRow(R, D, p) /\ D \cap OfRow(R, D, p) = OfRow(R, D, p)
    BY DEF OfRow
  <2>3. Cardinality(D \ OfRow(R, D, p)) = Cardinality(D) - Cardinality(D \cap OfRow(R, D, p))
    BY ONLY <1>1, FS_Difference
  <2> QED
    BY <2>1, <2>2, <2>3
<1>5. Total(h, M) = Cardinality(missed) /\ Total(f, D) = Cardinality(missed)
  BY ONLY <1>1, <1>3, <1>4, CountedTwice
<1>6. Summed(f) = Total(f, D) /\ Summed(h) = Total(h, M)
  BY SummedIs
<1> QED
  BY <1>2, <1>5, <1>6

\* The ledger of the day rows, by student.
LEMMA LedgerIs ==
    ASSUME RegistersTypeOK
    PROVE  /\ LedgerReport.records
                = Summed([p \in Pupil \ gone |-> Cardinality(DOMAIN StudentReport(p).lines)])
           /\ LedgerReport.students
                = Cardinality({p \in Pupil \ gone : DOMAIN StudentReport(p).lines # {}})
<1> PICK P : P = Pupil \ gone
  OBVIOUS
<1> PICK L : L = DayLedger
  OBVIOUS
<1>1. IsFiniteSet(P) /\ IsFiniteSet(SchoolDays)
  BY RegistersAssumption, FS_Subset
<1>2. DOMAIN dayRow = Pupil \X SchoolDays
  BY DEF RegistersTypeOK
<1>3. L \in SUBSET (P \X SchoolDays)
  BY <1>2 DEF DayLedger
<1>4. ASSUME NEW p \in P
      PROVE  DOMAIN StudentReport(p).lines = Timeline(p) /\ Timeline(p) = OfRow(L, SchoolDays, p)
  BY <1>2 DEF StudentReport, Timeline, OfRow, DayLedger
<1> PICK f : f = [p \in P |-> Cardinality(DOMAIN StudentReport(p).lines)]
  OBVIOUS
<1> PICK h : h = [d \in SchoolDays |-> Cardinality(OfColumn(L, P, d))]
  OBVIOUS
<1>5. Total(f, P) = Cardinality(L)
  <2>1. \A p \in P : f[p] = Cardinality(OfRow(L, SchoolDays, p))
    BY <1>4
  <2>2. \A d \in SchoolDays : h[d] = Cardinality(OfColumn(L, P, d))
    OBVIOUS
  <2> QED
    BY ONLY <1>1, <1>3, <2>1, <2>2, CountedTwice
<1>6. Summed(f) = Total(f, P)
  BY SummedIs
<1>7. {x[1] : x \in L} = {p \in P : DOMAIN StudentReport(p).lines # {}}
  <2>1. ASSUME NEW x \in L PROVE x[1] \in {p \in P : DOMAIN StudentReport(p).lines # {}}
    <3>1. x[1] \in P /\ x[2] \in SchoolDays /\ x = <<x[1], x[2]>>
      BY <1>3
    <3>2. x[2] \in OfRow(L, SchoolDays, x[1])
      BY <3>1 DEF OfRow
    <3> QED
      BY <1>4, <3>1, <3>2
  <2>2. ASSUME NEW p \in P, DOMAIN StudentReport(p).lines # {} PROVE p \in {x[1] : x \in L}
    <3>1. OfRow(L, SchoolDays, p) # {}
      BY <1>4, <2>2
    <3> PICK d \in SchoolDays : <<p, d>> \in L
      BY <3>1 DEF OfRow
    <3>2. <<p, d>>[1] = p
      OBVIOUS
    <3> QED
      BY <3>2
  <2> QED
    BY <2>1, <2>2
<1> QED
  BY <1>5, <1>6, <1>7 DEF LedgerReport

\* The documents of a student and of a day agree with the matrix.
LEMMA DocumentsDoAgree == RegistersTypeOK => DocumentsAgree
<1> SUFFICES ASSUME RegistersTypeOK PROVE DocumentsAgree
  OBVIOUS
<1>1. ASSUME NEW p \in Pupil \ gone
      PROVE  LET report == StudentReport(p)
                 came == {d \in DOMAIN report.lines : report.lines[d] \in CameIn}
             IN  /\ report.head.present <= Cardinality(came)
                 /\ (\A g \in GroupsOf(p) : MatrixColumns(g) = Scheduled(g)) /\ GroupsOf(p) # {}
                       => report.head.present = Cardinality(came)
  <2> PICK report : report = StudentReport(p)
    OBVIOUS
  <2>1. report = [head |-> MonthlySummary(p), lines |-> [d \in Timeline(p) |-> dayRow[<<p, d>>]]]
    BY DEF StudentReport
  <2>2. {d \in DOMAIN report.lines : report.lines[d] \in CameIn} = PresentOn(p)
    BY <2>1 DEF Timeline, PresentOn, CameIn
  <2>3. report.head = MonthlySummary(p)
    BY <2>1
  <2>4. /\ MonthlySummary(p).present <= Cardinality(PresentOn(p))
        /\ (GroupsOf(p) # {} /\ \A g \in GroupsOf(p) : MatrixColumns(g) = Scheduled(g))
              => MonthlySummary(p).present = Cardinality(PresentOn(p))
    BY MonthIs
  <2> QED
    BY <2>2, <2>3, <2>4
<1>2. ASSUME NEW g \in Group, NEW d \in SchoolDays
      PROVE  DayReport(g, d).tiles.present
               = Cardinality({p \in Members(g) : DayReport(g, d).lines[p] # "Absent"})
  <2> PICK report : report = DayReport(g, d)
    OBVIOUS
  <2>1. report = [tiles |-> DayCounts(g, d), lines |-> [p \in Members(g) |-> DayLabel(p, d)]]
    BY DEF DayReport
  <2>2. {p \in Members(g) : report.lines[p] # "Absent"} = {p \in Members(g) : Mark(p, d) = "P"}
    <3>1. \A p \in Members(g) : DayLabel(p, d) # "Absent" <=> Mark(p, d) = "P"
      BY CellIs
    <3>2. \A p \in Members(g) : report.lines[p] = DayLabel(p, d)
      BY <2>1
    <3> QED
      BY <3>1, <3>2
  <2>3. report.tiles.present = Cardinality({p \in Members(g) : Mark(p, d) = "P"})
    BY <2>1 DEF DayCounts
  <2> QED
    BY <2>2, <2>3
<1>3. ASSUME NEW g \in Group PROVE MonthGrid(g).working = 0 <=> AllBatches[g].line.slots = 0
  <2> PICK M, D : M = Members(g) /\ D = MatrixColumns(g)
    OBVIOUS
  <2> PICK m, n : m = Cardinality(M) /\ n = Cardinality(D)
    OBVIOUS
  <2>1. IsFiniteSet(M) /\ IsFiniteSet(D)
    BY SetsAre
  <2>2. m \in Nat /\ n \in Nat /\ (m = 0 <=> M = {}) /\ (n = 0 <=> D = {})
    BY <2>1, FS_CardinalityType, FS_EmptySet
  <2>3. Matrix(g).working = n
    BY MatrixIs
  <2>4. AllBatches[g].line.slots = m * n
    BY <2>3 DEF AllBatches, SummaryRow
  <2>5. m * n = 0 <=> (m = 0 \/ n = 0)
    BY ONLY <2>2
  <2>6. CASE M = {} \/ D = {}
    <3>1. MonthGrid(g).working = 0
      BY <2>6 DEF MonthGrid, NotFound
    <3> QED
      BY <2>2, <2>4, <2>5, <2>6, <3>1
  <2>7. CASE ~ (M = {} \/ D = {})
    <3>1. MonthGrid(g) = Matrix(g)
      BY <2>7 DEF MonthGrid
    <3> QED
      BY <2>2, <2>3, <2>4, <2>5, <2>7, <3>1
  <2> QED
    BY <2>6, <2>7
<1> QED
  BY <1>1, <1>2, <1>3, AbsencesAre, LedgerIs DEF DocumentsAgree

\* No step leaves the tables of the days of the students.
LEMMA RegistersStep == RegistersTypeOK /\ [RegistersNext]_registersVars => RegistersTypeOK'
<1> SUFFICES ASSUME RegistersTypeOK, [RegistersNext]_registersVars PROVE RegistersTypeOK'
  OBVIOUS
<1> USE DEF RegistersTypeOK
<1>1. ASSUME NEW p \in Pupil, NEW d \in SchoolDays, NEW status \in DayStatus, WriteDay(p, d, status)
      PROVE  RegistersTypeOK'
  BY <1>1 DEF WriteDay
<1>2. ASSUME NEW d \in SchoolDays, SweepDay(d) PROVE RegistersTypeOK'
  <2>1. dayRow' \in [Pupil \X SchoolDays -> DayStatus \cup {"none"}]
    BY <1>2 DEF SweepDay, DayStatus
  <2> QED
    BY <1>2, <2>1 DEF SweepDay
<1>3. ASSUME NEW s \in Slots, NEW status \in SlotStatus, PlanSlot(s, status) PROVE RegistersTypeOK'
  BY <1>3 DEF PlanSlot
<1>4. ASSUME NEW r \in Rolls, Regroup(r) PROVE RegistersTypeOK'
  BY <1>4 DEF Regroup
<1>5. ASSUME NEW p \in Pupil, DeletePupil(p) PROVE RegistersTypeOK'
  BY <1>5 DEF DeletePupil
<1>6. ASSUME UNCHANGED registersVars PROVE RegistersTypeOK'
  BY <1>6 DEF registersVars
<1> QED
  BY <1>1, <1>2, <1>3, <1>4, <1>5, <1>6 DEF RegistersNext

\* However days are written, lectures planned, held and struck, and students
\* moved or deleted: the matrix, the board, the turnout and the documents of the
\* days of the students tell one story.
THEOREM RegistersTellOneStory ==
    RegistersInit /\ [][RegistersNext]_registersVars => []RegistersAgree
<1>1. RegistersInit => RegistersTypeOK
  BY DEF RegistersInit, RegistersTypeOK, SlotStatus
<1>2. RegistersTypeOK => RegistersAgree
  BY MatrixDoesAgree, BoardDoesAgree, TurnoutDoesAgree, DocumentsDoAgree DEF RegistersAgree
<1> QED
  BY <1>1, <1>2, RegistersStep, PTL

-----------------------------------------------------------------------------
(* How students stand.                                                      *)

\* A part of a whole is a percentage.
LEMMA RatioIs ==
    ASSUME NEW a \in Nat, NEW b \in Nat, a <= b
    PROVE  Ratio(a, b) \in 0 .. 100
<1>1. b # 0 => (100 * a) \div b \in 0 .. 100
  OBVIOUS
<1> QED
  BY <1>1 DEF Ratio

\* A mean is the sum by the number of terms.
LEMMA MeanIs ==
    ASSUME NEW f, NEW S, DOMAIN f = S
    PROVE  Mean(f) = IF S = {} THEN 0 ELSE Total(f, S) \div Cardinality(S)
<1>1. Summed(f) = Total(f, S)
  BY SummedIs
<1> QED
  BY <1>1 DEF Mean

\* There are finitely many students, lectures, tests and statuses.
LEMMA PlacesFinite == IsFiniteSet(Pupil) /\ IsFiniteSet(Slots) /\ IsFiniteSet(Exam) /\ IsFiniteSet(RecordStatus)
<1>1. IsFiniteSet(Group \X SchoolDays)
  BY RegistersAssumption, FS_Product
<1>2. IsFiniteSet(Slots)
  BY <1>1, RegistersAssumption, FS_Subset
<1>3. IsFiniteSet({"PRESENT", "ABSENT", "LATE", "EXCUSED", "PARTIAL"})
  <2>1. IsFiniteSet({})
    BY FS_EmptySet
  <2>2. IsFiniteSet({} \cup {"PRESENT"} \cup {"ABSENT"} \cup {"LATE"} \cup {"EXCUSED"} \cup {"PARTIAL"})
    BY <2>1, FS_AddElement
  <2>3. {} \cup {"PRESENT"} \cup {"ABSENT"} \cup {"LATE"} \cup {"EXCUSED"} \cup {"PARTIAL"}
          = {"PRESENT", "ABSENT", "LATE", "EXCUSED", "PARTIAL"}
    OBVIOUS
  <2> QED
    BY <2>2, <2>3
<1>4. IsFiniteSet(RecordStatus)
  BY <1>3, StandingAssumption, FS_Subset
<1> QED
  BY <1>2, <1>4, RegistersAssumption, StandingAssumption

\* The tables, and how often a lecture's endpoint may have added a row.
StandingTyped ==
    /\ RegistersTypeOK
    /\ records \in [Pupil \X Slots -> RecordStatus \cup {"none"}]
    /\ mapped \in [Pupil \X Slots \X RecordStatus -> Nat]
    /\ scores \in [Pupil \X Exam -> Percent \cup {Missed, NoScore}]
    /\ changes \in 0 .. MaxChanges /\ stale \in BOOLEAN
    /\ \A x \in Pupil \X Slots \X RecordStatus : mapped[x] <= changes

Untouched ==
    /\ \A p \in Pupil : summaries[p] = NoSummary
    /\ \A g \in Group : overview[g] = NoSummary /\ teaching[g] = NoSummary
Refreshed ==
    /\ \A p \in Pupil \ gone : summaries[p] = StudentSummary(p)
    /\ \A g \in Group : overview[g] = GroupSummary(g) /\ teaching[g] = TeacherSummary(g)

\* Until something changes, the summaries are those of a refresh.
StandingInv == StandingTyped /\ (stale \/ Untouched \/ Refreshed)

\* So it is before anything happened.
LEMMA StandingStart == StandingInit => StandingInv
<1> SUFFICES ASSUME StandingInit PROVE StandingInv
  OBVIOUS
<1>1. RegistersTypeOK
  BY DEF StandingInit, RegistersInit, RegistersTypeOK, SlotStatus
<1>2. mapped \in [Pupil \X Slots \X RecordStatus -> Nat]
      /\ \A x \in Pupil \X Slots \X RecordStatus : mapped[x] <= changes
  BY DEF StandingInit
<1>3. scores \in [Pupil \X Exam -> Percent \cup {Missed, NoScore}]
  BY DEF StandingInit
<1>4. StandingTyped
  <2>1. changes \in 0 .. MaxChanges
    BY StandingAssumption DEF StandingInit
  <2>3. stale \in BOOLEAN
    BY Zenon DEF StandingInit
  <2>2. records \in [Pupil \X Slots -> RecordStatus \cup {"none"}]
    BY DEF StandingInit
  <2> QED
    BY <1>1, <1>2, <1>3, <2>1, <2>2, <2>3 DEF StandingTyped
<1>5. Untouched
  BY DEF StandingInit, Untouched
<1> QED
  BY <1>4, <1>5 DEF StandingInv

\* Every change makes what is stored stale, and a refresh computes it anew.
LEMMA StandingStep == StandingInv /\ [StandingNext]_standingVars => StandingInv'
<1> SUFFICES ASSUME StandingInv, [StandingNext]_standingVars PROVE StandingInv'
  OBVIOUS
<1>0. StandingTyped /\ RegistersTypeOK
  BY DEF StandingInv, StandingTyped
<1>1. Changed => /\ changes' \in 0 .. MaxChanges /\ stale' = TRUE /\ changes' = changes + 1
                 /\ \A n \in Nat : n <= changes => n <= changes' /\ n + 1 <= changes'
  BY <1>0, StandingAssumption DEF Changed, StandingTyped
<1>2. ASSUME NEW p \in Pupil, NEW s \in Slots, NEW status \in RecordStatus, Record(p, s, status)
      PROVE  StandingInv'
  <2>1. UNCHANGED registersVars /\ UNCHANGED <<mapped, scores>> /\ Changed
        /\ records' = [records EXCEPT ![<<p, s>>] = status]
    BY <1>2 DEF Record
  <2>2. RegistersTypeOK'
    BY <1>0, <2>1 DEF RegistersTypeOK, registersVars
  <2>3. \A x \in Pupil \X Slots \X RecordStatus : mapped'[x] <= changes'
    BY <1>0, <1>1, <2>1 DEF StandingTyped
  <2>4. records' \in [Pupil \X Slots -> RecordStatus \cup {"none"}]
    BY <1>0, <2>1 DEF StandingTyped
  <2> QED
    BY <1>0, <1>1, <2>1, <2>2, <2>3, <2>4 DEF StandingInv, StandingTyped
<1>3. ASSUME NEW p \in Pupil, NEW s \in Slots, NEW status \in RecordStatus, MarkLecture(p, s, status)
      PROVE  StandingInv'
  <2> PICK n : n = mapped[<<p, s, status>>]
    OBVIOUS
  <2>1. UNCHANGED registersVars /\ UNCHANGED <<records, scores>> /\ Changed
        /\ mapped' = [mapped EXCEPT ![<<p, s, status>>] = n + 1]
    BY <1>3 DEF MarkLecture
  <2>2. RegistersTypeOK'
    BY <1>0, <2>1 DEF RegistersTypeOK, registersVars
  <2>3. n \in Nat /\ n <= changes /\ <<p, s, status>> \in Pupil \X Slots \X RecordStatus
    BY <1>0 DEF StandingTyped
  <2>4. mapped' \in [Pupil \X Slots \X RecordStatus -> Nat]
    BY <1>0, <2>1, <2>3 DEF StandingTyped
  <2>5. \A x \in Pupil \X Slots \X RecordStatus : mapped'[x] <= changes'
    BY <1>0, <1>1, <2>1, <2>3 DEF StandingTyped
  <2> QED
    BY <1>0, <1>1, <2>1, <2>2, <2>4, <2>5 DEF StandingInv, StandingTyped
<1>4. ASSUME NEW p \in Pupil, NEW e \in Exam, NEW v \in Percent \cup {Missed}, Score(p, e, v)
      PROVE  StandingInv'
  <2>1. UNCHANGED registersVars /\ UNCHANGED <<records, mapped>> /\ Changed
        /\ scores' = [scores EXCEPT ![<<p, e>>] = v]
    BY <1>4 DEF Score
  <2>2. RegistersTypeOK'
    BY <1>0, <2>1 DEF RegistersTypeOK, registersVars
  <2>3. \A x \in Pupil \X Slots \X RecordStatus : mapped'[x] <= changes'
    BY <1>0, <1>1, <2>1 DEF StandingTyped
  <2>4. scores' \in [Pupil \X Exam -> Percent \cup {Missed, NoScore}]
    BY <1>0, <2>1 DEF StandingTyped
  <2> QED
    BY <1>0, <1>1, <2>1, <2>2, <2>3, <2>4 DEF StandingInv, StandingTyped
<1>5. ASSUME Around PROVE StandingInv'
  <2>1. Changed /\ UNCHANGED standingTables
    BY <1>5 DEF Around
  <2>2. RegistersTypeOK'
    <3>1. RegistersNext
      BY <1>5 DEF Around, RegistersNext
    <3> QED
      BY <1>0, <3>1, RegistersStep
  <2>3. \A x \in Pupil \X Slots \X RecordStatus : mapped'[x] <= changes'
    BY <1>0, <1>1, <2>1 DEF StandingTyped, standingTables
  <2> QED
    BY <1>0, <1>1, <2>1, <2>2, <2>3 DEF StandingInv, StandingTyped, standingTables
<1>6. ASSUME Refresh PROVE StandingInv'
  <2>1. UNCHANGED registersVars /\ UNCHANGED <<records, mapped, scores, changes>> /\ stale' = FALSE
    BY <1>6 DEF Refresh
  <2>2. UNCHANGED <<roll, gone, lecture, dayRow>>
    BY <2>1 DEF registersVars
  <2>3. RegistersTypeOK'
    BY <1>0, <2>2 DEF RegistersTypeOK
  <2>4. /\ \A p : StudentSummary(p)' = StudentSummary(p)
        /\ \A g : GroupSummary(g)' = GroupSummary(g) /\ TeacherSummary(g)' = TeacherSummary(g)
    BY <2>1, <2>2 DEF StudentSummary, GroupSummary, TeacherSummary, RecordsOf, Scored, MeanScore, Planned
  <2>5. Refreshed'
    BY <1>6, <2>2, <2>4 DEF Refresh, Refreshed
  <2> QED
    BY <1>0, <2>1, <2>3, <2>5 DEF StandingInv, StandingTyped
<1>7. ASSUME UNCHANGED standingVars PROVE StandingInv'
  <2>1. UNCHANGED <<roll, gone, lecture, dayRow>> /\ UNCHANGED <<records, mapped, scores, changes, stale>>
        /\ UNCHANGED <<summaries, overview, teaching>>
    BY <1>7 DEF standingVars, standingTables, registersVars
  <2>2. RegistersTypeOK'
    BY <1>0, <2>1 DEF RegistersTypeOK
  <2>3. /\ \A p : StudentSummary(p)' = StudentSummary(p)
        /\ \A g : GroupSummary(g)' = GroupSummary(g) /\ TeacherSummary(g)' = TeacherSummary(g)
    BY <2>1 DEF StudentSummary, GroupSummary, TeacherSummary, RecordsOf, Scored, MeanScore, Planned
  <2>4. (stale \/ Untouched \/ Refreshed)'
    BY <2>1, <2>3 DEF StandingInv, Untouched, Refreshed
  <2> QED
    BY <1>0, <2>1, <2>2, <2>4 DEF StandingInv, StandingTyped
<1> QED
  BY <1>2, <1>3, <1>4, <1>5, <1>6, <1>7 DEF StandingNext

\* The records of a student by what they say.
LEMMA RecordsAre ==
    ASSUME StandingTyped
    PROVE  /\ "none" \notin AllStatuses
           /\ \A p, statuses : RecordsOf(p, statuses) \in SUBSET Slots /\ IsFiniteSet(RecordsOf(p, statuses))
                               /\ Cardinality(RecordsOf(p, statuses)) \in Nat
           /\ \A x \in Pupil \X Slots : records[x] \in AllStatuses <=> records[x] # "none"
<1>1. "none" \notin AllStatuses
  BY StandingAssumption DEF AllStatuses
<1>2. ASSUME NEW p, NEW statuses
      PROVE  RecordsOf(p, statuses) \in SUBSET Slots /\ IsFiniteSet(RecordsOf(p, statuses))
             /\ Cardinality(RecordsOf(p, statuses)) \in Nat
  <2>1. RecordsOf(p, statuses) \in SUBSET Slots /\ IsFiniteSet(Slots)
    BY PlacesFinite DEF RecordsOf
  <2> QED
    BY ONLY <2>1, FS_Subset, FS_CardinalityType
<1>3. \A x \in Pupil \X Slots : records[x] \in AllStatuses <=> records[x] # "none"
  BY <1>1 DEF StandingTyped, AllStatuses
<1> QED
  BY <1>1, <1>2, <1>3

\* A batch and its teacher are given one attendance where their records are the same.
LEMMA TeachersDoAgree == StandingInv => TeachersAgree
<1> SUFFICES ASSUME StandingInv, ~ stale, NEW g \in Group, teaching[g] # NoSummary
             PROVE  LET of(p, s) == <<p, g>> \in roll /\ s[1] = g /\ Planned(s)
                        taken == {x \in Pupil \X Slots : records[x] # "none"
                                                           /\ (<<x[1], g>> \in roll \/ x[2][1] = g)}
                    IN  /\ (\A x \in taken : of(x[1], x[2]))
                              => teaching[g].attendance = overview[g].attendance
                        /\ teaching[g].completed = teaching[g].total
                              => \A d \in SchoolDays : d \in Scheduled(g) => <<g, d>> \in DOMAIN Turnout
                                                          \/ overview[g].total = 0
  BY DEF TeachersAgree
<1>1. StandingTyped /\ Refreshed
  BY DEF StandingInv, Untouched
<1>2. overview[g] = GroupSummary(g) /\ teaching[g] = TeacherSummary(g)
  BY <1>1 DEF Refreshed
<1> PICK members : members = {p \in Pupil : <<p, g>> \in roll}
  OBVIOUS
<1> PICK planned : planned = {s \in Slots : s[1] = g /\ Planned(s)}
  OBVIOUS
<1> PICK taken : taken = {x \in Pupil \X Slots : records[x] # "none" /\ (<<x[1], g>> \in roll \/ x[2][1] = g)}
  OBVIOUS
<1> PICK present, all : /\ present = {x \in members \X Slots : records[x] \in {"PRESENT"}}
                        /\ all = {x \in members \X Slots : records[x] \in AllStatuses}
  OBVIOUS
<1> PICK here, every : /\ here = {x \in Pupil \X planned : records[x] \in {"PRESENT"}}
                       /\ every = {x \in Pupil \X planned : records[x] \in AllStatuses}
  OBVIOUS
<1>3. /\ overview[g].attendance = Ratio(Cardinality(present), Cardinality(all))
      /\ overview[g].total = Cardinality(members)
  BY <1>2 DEF GroupSummary
<1>4. /\ teaching[g].attendance = Ratio(Cardinality(here), Cardinality(every))
      /\ teaching[g].total = Cardinality(planned)
      /\ teaching[g].completed = Cardinality({s \in planned : lecture[s] = "completed"})
  BY <1>2 DEF TeacherSummary
<1>5. ASSUME \A x \in taken : <<x[1], g>> \in roll /\ x[2][1] = g /\ Planned(x[2])
      PROVE  teaching[g].attendance = overview[g].attendance
  <2>1. ASSUME NEW x \in Pupil \X Slots, records[x] \in AllStatuses
        PROVE  x \in members \X Slots <=> x \in Pupil \X planned
    <3>1. records[x] # "none" /\ x = <<x[1], x[2]>> /\ x[1] \in Pupil /\ x[2] \in Slots
      BY <1>1, <2>1, RecordsAre
    <3>2. x \in taken => x[1] \in members /\ x[2] \in planned
      BY <1>5, <3>1
    <3>3. x[1] \in members \/ x[2] \in planned => x \in taken
      BY <3>1
    <3> QED
      BY <3>1, <3>2, <3>3
  <2>2. members \X Slots \subseteq Pupil \X Slots /\ Pupil \X planned \subseteq Pupil \X Slots
    OBVIOUS
  <2>3. \A x \in Pupil \X Slots : records[x] = "PRESENT" => records[x] \in AllStatuses
    BY DEF AllStatuses
  <2>4. all = every /\ present = here
    BY <2>1, <2>2, <2>3
  <2> QED
    BY <1>3, <1>4, <2>4
<1>6. ASSUME teaching[g].completed = teaching[g].total, NEW d \in SchoolDays, d \in Scheduled(g),
             overview[g].total # 0
      PROVE  <<g, d>> \in DOMAIN Turnout
  <2> PICK done : done = {s \in planned : lecture[s] = "completed"}
    OBVIOUS
  <2>1. done \in SUBSET planned /\ IsFiniteSet(planned) /\ Cardinality(planned) = Cardinality(done)
    <3>1. planned \in SUBSET Slots
      OBVIOUS
    <3> QED
      BY <1>4, <1>6, <3>1, PlacesFinite, FS_Subset
  <2>2. planned = done
    BY ONLY <2>1, FS_Subset
  <2>3. <<g, d>> \in planned
    BY <1>6 DEF Scheduled
  <2>4. lecture[<<g, d>>] = "completed" /\ <<g, d>> \in Slots
    BY <2>2, <2>3
  <2>5. members # {}
    <3>1. Cardinality(members) # 0
      BY <1>3, <1>6
    <3> QED
      BY <3>1, FS_EmptySet
  <2> QED
    BY <2>4, <2>5 DEF Turnout
<1> QED
  BY <1>5, <1>6

\* A summary says what its student's records say, none of them twice.
LEMMA SummaryIs ==
    ASSUME StandingTyped, NEW p \in Pupil
    PROVE  /\ StudentSummary(p) # NoSummary
           /\ StudentSummary(p).total = Cardinality(RecordsOf(p, AllStatuses))
           /\ StudentSummary(p).present = Cardinality(RecordsOf(p, {"PRESENT"}))
           /\ StudentSummary(p).tests = Cardinality(Scored(p))
           /\ StudentSummary(p).absent + StudentSummary(p).late + StudentSummary(p).present
                  <= StudentSummary(p).total
<1> PICK all, present, absent, late :
        /\ all = RecordsOf(p, AllStatuses) /\ present = RecordsOf(p, {"PRESENT"})
        /\ absent = RecordsOf(p, {"ABSENT"}) /\ late = RecordsOf(p, {"LATE"})
  OBVIOUS
<1>1. /\ StudentSummary(p).total = Cardinality(all)
      /\ StudentSummary(p).present = Cardinality(present)
      /\ StudentSummary(p).absent = Cardinality(absent)
      /\ StudentSummary(p).late = Cardinality(late)
      /\ StudentSummary(p).tests = Cardinality(Scored(p))
  BY DEF StudentSummary
<1>2. /\ IsFiniteSet(all) /\ IsFiniteSet(present) /\ IsFiniteSet(absent) /\ IsFiniteSet(late)
      /\ Cardinality(all) \in Nat /\ Cardinality(present) \in Nat
      /\ Cardinality(absent) \in Nat /\ Cardinality(late) \in Nat
  BY RecordsAre
<1>3. absent \cap late = {} /\ (absent \cup late) \cap present = {}
  BY DEF RecordsOf
<1>4. Cardinality(absent \cup late) = Cardinality(absent) + Cardinality(late) /\ IsFiniteSet(absent \cup late)
  BY ONLY <1>2, <1>3, BothApart
<1>5. Cardinality((absent \cup late) \cup present) = Cardinality(absent) + Cardinality(late) + Cardinality(present)
      /\ IsFiniteSet((absent \cup late) \cup present)
  BY ONLY <1>2, <1>3, <1>4, BothApart
<1>6. (absent \cup late) \cup present \in SUBSET all
  <2>1. ASSUME NEW s \in (absent \cup late) \cup present PROVE s \in all
    <3>1. s \in Slots /\ records[<<p, s>>] \in {"ABSENT", "LATE", "PRESENT"}
      BY DEF RecordsOf
    <3>2. records[<<p, s>>] \in AllStatuses
      BY <3>1, RecordsAre
    <3> QED
      BY <3>1, <3>2 DEF RecordsOf
  <2> QED
    BY <2>1
<1>7. Cardinality((absent \cup late) \cup present) <= Cardinality(all)
  BY ONLY <1>2, <1>6, FS_Subset
<1>8. Cardinality(absent) + Cardinality(late) + Cardinality(present) <= Cardinality(all)
  BY <1>5, <1>7
<1>9. StudentSummary(p) # NoSummary
  BY <1>1, <1>2 DEF NoSummary
<1> QED
  BY <1>1, <1>8, <1>9

\* The records of a batch are those of its members.
LEMMA RecordsOfMany ==
    ASSUME StandingTyped, NEW members \in SUBSET Pupil, NEW statuses,
           NEW f, \A p \in members : f[p] = Cardinality(RecordsOf(p, statuses))
    PROVE  /\ Total(f, members) = Cardinality({x \in members \X Slots : records[x] \in statuses})
           /\ IsFiniteSet(members)
<1> PICK R : R = {x \in members \X Slots : records[x] \in statuses}
  OBVIOUS
<1> PICK h : h = [s \in Slots |-> Cardinality(OfColumn(R, members, s))]
  OBVIOUS
<1>1. IsFiniteSet(members) /\ IsFiniteSet(Slots)
  BY PlacesFinite, FS_Subset
<1>2. R \in SUBSET (members \X Slots)
  OBVIOUS
<1>3. \A p \in members : OfRow(R, Slots, p) = RecordsOf(p, statuses)
  BY DEF OfRow, RecordsOf
<1>4. \A p \in members : f[p] = Cardinality(OfRow(R, Slots, p))
  BY <1>3
<1>5. \A s \in Slots : h[s] = Cardinality(OfColumn(R, members, s))
  OBVIOUS
<1>6. Total(f, members) = Cardinality(R)
  BY ONLY <1>1, <1>2, <1>4, <1>5, CountedTwice
<1> QED
  BY <1>1, <1>6

\* A mark that counts is a percentage.
LEMMA ScoresAre ==
    ASSUME StandingTyped
    PROVE  /\ \A x \in Pupil \X Exam : scores[x] \in Int /\ (scores[x] >= 0 => scores[x] \in 0 .. 100)
           /\ \A p : Scored(p) \in SUBSET Exam /\ IsFiniteSet(Scored(p))
                     /\ Cardinality(Scored(p)) \in Nat /\ (Scored(p) # {} => Cardinality(Scored(p)) # 0)
<1>1. \A x \in Pupil \X Exam : scores[x] \in Int /\ (scores[x] >= 0 => scores[x] \in 0 .. 100)
  <2>1. scores \in [Pupil \X Exam -> Percent \cup {Missed, NoScore}]
    BY DEF StandingTyped
  <2>2. \A v \in Percent \cup {Missed, NoScore} : v \in Int /\ (v >= 0 => v \in 0 .. 100)
    BY StandingAssumption DEF Missed, NoScore
  <2> QED
    BY ONLY <2>1, <2>2
<1>2. ASSUME NEW p PROVE /\ Scored(p) \in SUBSET Exam /\ IsFiniteSet(Scored(p))
                          /\ Cardinality(Scored(p)) \in Nat /\ (Scored(p) # {} => Cardinality(Scored(p)) # 0)
  <2>1. Scored(p) \in SUBSET Exam /\ IsFiniteSet(Exam)
    BY PlacesFinite DEF Scored
  <2> QED
    BY ONLY <2>1, FS_Subset, FS_CardinalityType, FS_EmptySet
<1> QED
  BY <1>1, <1>2

\* The marks of a student add up to a number, and their mean is one.
LEMMA MeanScoreIs ==
    ASSUME StandingTyped, NEW p \in Pupil, NEW f, f = [e \in Scored(p) |-> scores[<<p, e>>]]
    PROVE  /\ \A e \in Scored(p) : f[e] \in Nat
           /\ Total(f, Scored(p)) \in Nat
           /\ MeanScore(p) \in Nat
           /\ Scored(p) # {} => MeanScore(p) = Total(f, Scored(p)) \div Cardinality(Scored(p))
<1> PICK S : S = Scored(p)
  OBVIOUS
<1>1. \A e \in S : f[e] \in Nat
  BY ScoresAre DEF Scored
<1>2. IsFiniteSet(S) /\ Cardinality(S) \in Nat /\ (S # {} => Cardinality(S) # 0)
  BY ScoresAre
<1>3. Total(f, S) \in Nat
  BY ONLY <1>1, <1>2, TotalIsNat
<1>4. DOMAIN f = S
  OBVIOUS
<1>5. Mean(f) = IF S = {} THEN 0 ELSE Total(f, S) \div Cardinality(S)
  BY ONLY <1>4, MeanIs
<1>6. MeanScore(p) = Mean(f)
  BY DEF MeanScore
<1>7. ASSUME S # {} PROVE Total(f, S) \div Cardinality(S) \in Nat
  <2> PICK a, b : a = Total(f, S) /\ b = Cardinality(S)
    OBVIOUS
  <2>1. a \in Nat /\ b \in Nat \ {0}
    BY <1>2, <1>3, <1>7
  <2>2. a \div b \in Nat
    BY ONLY <2>1, DivIs
  <2> QED
    BY <2>2
<1> QED
  BY <1>1, <1>3, <1>5, <1>6, <1>7

\* The mean of all marks of a batch lies between the means of two of its members.
LEMMA BatchMeanIs ==
    ASSUME StandingTyped, NEW members \in SUBSET Pupil,
           NEW scorers, scorers = {p \in members : Scored(p) # {}}, scorers # {},
           NEW marked, marked = {x \in members \X Exam : scores[x] >= 0},
           NEW f, f = [x \in marked |-> scores[x]]
    PROVE  \E p, q \in scorers : MeanScore(p) <= Mean(f) /\ Mean(f) <= MeanScore(q)
<1> PICK D : D = [p \in scorers |-> Scored(p)]
  OBVIOUS
<1> PICK one : one = [x \in marked |-> 1]
  OBVIOUS
<1> PICK s, n : /\ s = [p \in scorers |-> Total([e \in Scored(p) |-> scores[<<p, e>>]], Scored(p))]
                /\ n = [p \in scorers |-> Cardinality(Scored(p))]
  OBVIOUS
<1>1. scorers \in SUBSET Pupil /\ IsFiniteSet(scorers)
  <2>1. scorers \in SUBSET Pupil
    OBVIOUS
  <2> QED
    BY <2>1, PlacesFinite, FS_Subset
<1>2. \A p \in scorers : \A e \in D[p] : <<p, e>> \in marked /\ e \in Scored(p)
  BY ScoresAre DEF Scored
<1>3. marked = Pairs(scorers, D)
  <2>1. ASSUME NEW x \in marked PROVE x \in Pairs(scorers, D)
    <3> PICK p \in members, e \in Exam : x = <<p, e>>
      OBVIOUS
    <3>1. e \in Scored(p)
      BY DEF Scored
    <3>2. p \in scorers /\ e \in D[p]
      BY <3>1
    <3> QED
      BY <3>2 DEF Pairs
  <2>2. ASSUME NEW x \in Pairs(scorers, D) PROVE x \in marked
    <3> PICK p \in scorers : x \in {p} \X D[p]
      BY DEF Pairs
    <3> PICK e \in D[p] : x = <<p, e>>
      OBVIOUS
    <3> QED
      BY <1>2
  <2> QED
    BY <2>1, <2>2
<1>4. \A p \in scorers : IsFiniteSet(D[p])
  BY ScoresAre
<1>5. \A p \in scorers : \A e \in D[p] : f[<<p, e>>] \in Int /\ f[<<p, e>>] = scores[<<p, e>>]
                                        /\ one[<<p, e>>] \in Int /\ one[<<p, e>>] = 1
  <2> SUFFICES ASSUME NEW p \in scorers, NEW e \in D[p]
               PROVE  f[<<p, e>>] \in Int /\ f[<<p, e>>] = scores[<<p, e>>]
                      /\ one[<<p, e>>] \in Int /\ one[<<p, e>>] = 1
    OBVIOUS
  <2>1. <<p, e>> \in marked /\ <<p, e>> \in Pupil \X Exam
    BY <1>1, <1>2
  <2>2. scores[<<p, e>>] \in Int
    BY <2>1, ScoresAre
  <2> QED
    BY ONLY <2>1, <2>2, f = [x \in marked |-> scores[x]], one = [x \in marked |-> 1]
<1>6. /\ IsFiniteSet(Pairs(scorers, D))
      /\ Total(f, Pairs(scorers, D))
           = Total([p \in scorers |-> Total([e \in D[p] |-> f[<<p, e>>]], D[p])], scorers)
  <2>1. \A p \in scorers : \A e \in D[p] : f[<<p, e>>] \in Int
    BY <1>5
  <2> QED
    BY ONLY <1>1, <1>4, <2>1, TotalPairs
<1>7. Total(one, Pairs(scorers, D))
           = Total([p \in scorers |-> Total([e \in D[p] |-> one[<<p, e>>]], D[p])], scorers)
  <2>1. \A p \in scorers : \A e \in D[p] : one[<<p, e>>] \in Int
    BY <1>5
  <2> QED
    BY ONLY <1>1, <1>4, <2>1, TotalPairs
<1>8. [p \in scorers |-> Total([e \in D[p] |-> f[<<p, e>>]], D[p])] = s
  <2>1. ASSUME NEW p \in scorers
        PROVE  Total([e \in D[p] |-> f[<<p, e>>]], D[p])
                 = Total([e \in Scored(p) |-> scores[<<p, e>>]], Scored(p))
    <3>1. D[p] = Scored(p)
      OBVIOUS
    <3>2. [e \in D[p] |-> f[<<p, e>>]] = [e \in Scored(p) |-> scores[<<p, e>>]]
      BY <1>5, <3>1
    <3> QED
      BY <3>1, <3>2
  <2> QED
    BY <2>1
<1>9. [p \in scorers |-> Total([e \in D[p] |-> one[<<p, e>>]], D[p])] = n
  <2>1. ASSUME NEW p \in scorers
        PROVE  Total([e \in D[p] |-> one[<<p, e>>]], D[p]) = Cardinality(Scored(p))
    <3> PICK g : g = [e \in D[p] |-> one[<<p, e>>]]
      OBVIOUS
    <3>1. \A e \in D[p] : g[e] = 1
      BY <1>5
    <3>2. IsFiniteSet(D[p])
      BY <1>4
    <3>3. Total(g, D[p]) = Cardinality(D[p])
      BY ONLY <3>1, <3>2, TotalOfOnes
    <3> QED
      BY <3>3
  <2> QED
    BY <2>1
<1>10. Total(f, marked) = Total(s, scorers) /\ Total(one, marked) = Total(n, scorers)
  BY <1>3, <1>6, <1>7, <1>8, <1>9
<1>11. Total(one, marked) = Cardinality(marked)
  <2>1. \A x \in marked : one[x] = 1
    OBVIOUS
  <2>2. IsFiniteSet(marked)
    BY <1>3, <1>6
  <2> QED
    BY ONLY <2>1, <2>2, TotalOfOnes
<1>12. marked # {}
  <2> PICK p : p \in scorers
    OBVIOUS
  <2> PICK e : e \in Scored(p)
    OBVIOUS
  <2> QED
    BY <1>2
<1>13. Mean(f) = Total(s, scorers) \div Total(n, scorers)
  <2>1. DOMAIN f = marked
    OBVIOUS
  <2>2. Mean(f) = IF marked = {} THEN 0 ELSE Total(f, marked) \div Cardinality(marked)
    BY ONLY <2>1, MeanIs
  <2> QED
    BY <1>10, <1>11, <1>12, <2>2
<1>14. \A p \in scorers : /\ s[p] \in Nat /\ n[p] \in Nat \ {0}
                          /\ MeanScore(p) \in Nat /\ MeanScore(p) = s[p] \div n[p]
  <2> SUFFICES ASSUME NEW p \in scorers
               PROVE  /\ s[p] \in Nat /\ n[p] \in Nat \ {0}
                      /\ MeanScore(p) \in Nat /\ MeanScore(p) = s[p] \div n[p]
    OBVIOUS
  <2> PICK h : h = [e \in Scored(p) |-> scores[<<p, e>>]]
    OBVIOUS
  <2>1. s[p] = Total(h, Scored(p)) /\ n[p] = Cardinality(Scored(p)) /\ Scored(p) # {} /\ p \in Pupil
    BY <1>1
  <2>2. n[p] \in Nat /\ n[p] # 0
    BY <2>1, ScoresAre
  <2>3. /\ Total(h, Scored(p)) \in Nat /\ MeanScore(p) \in Nat
        /\ MeanScore(p) = Total(h, Scored(p)) \div Cardinality(Scored(p))
    BY <2>1, MeanScoreIs
  <2> QED
    BY <2>1, <2>2, <2>3
<1> PICK means : means = [p \in scorers |-> MeanScore(p)]
  OBVIOUS
<1> PICK all : all = {means[p] : p \in scorers}
  OBVIOUS
<1>15. all \in SUBSET Nat /\ all # {} /\ IsFiniteSet(all)
  <2>1. all \in SUBSET Nat /\ all # {}
    BY <1>14
  <2>2. IsFiniteSet({means[p] : p \in scorers})
    BY ONLY <1>1, ImageFinite
  <2> QED
    BY <2>1, <2>2
<1> PICK lo, hi : lo = Min(all) /\ hi = Max(all)
  OBVIOUS
<1>16. lo \in all /\ (\A y \in all : lo <= y) /\ hi \in all /\ (\A y \in all : hi >= y)
  BY <1>15, LeastIs, GreatestIs
<1> PICK p \in scorers : lo = MeanScore(p)
  BY <1>16
<1> PICK q \in scorers : hi = MeanScore(q)
  BY <1>16
<1>17. lo \in Nat /\ hi \in Nat /\ \A r \in scorers : lo <= s[r] \div n[r] /\ s[r] \div n[r] <= hi
  <2>1. lo \in Nat /\ hi \in Nat
    BY <1>15, <1>16
  <2>2. ASSUME NEW r \in scorers PROVE lo <= s[r] \div n[r] /\ s[r] \div n[r] <= hi
    <3>1. MeanScore(r) \in all /\ MeanScore(r) \in Nat /\ MeanScore(r) = s[r] \div n[r]
      BY <1>14
    <3>2. lo <= MeanScore(r) /\ MeanScore(r) <= hi
      BY <1>16, <2>1, <3>1
    <3> QED
      BY <3>1, <3>2
  <2> QED
    BY <2>1, <2>2
<1>18. \A r \in scorers : s[r] \in Nat /\ n[r] \in Nat \ {0}
  BY <1>14
<1>19. lo <= Total(s, scorers) \div Total(n, scorers) /\ Total(s, scorers) \div Total(n, scorers) <= hi
  <2>1. scorers # {} /\ IsFiniteSet(scorers)
    BY <1>1
  <2> QED
    BY ONLY <1>17, <1>18, <2>1, MeanBetween
<1> QED
  BY <1>13, <1>19

\* What is stored for a batch is of its students' records and of their marks.
LEMMA SummariesDoAgree == StandingInv => SummariesAgree
<1> SUFFICES ASSUME StandingInv, ~ stale, NEW g \in Group, overview[g] # NoSummary
             PROVE  LET members == {p \in Pupil : <<p, g>> \in roll}
                        sum(c) == Summed([p \in members |-> IF summaries[p] = NoSummary THEN 0
                                                           ELSE summaries[p][c]])
                        scorers == {p \in members : summaries[p] # NoSummary /\ summaries[p].tests > 0}
                    IN  /\ \A p \in members \ gone :
                              /\ summaries[p].absent + summaries[p].late + summaries[p].present
                                     <= summaries[p].total
                              /\ p \in RiskStudents <=> StudentSummary(p).risk >= 100 * RiskThreshold
                        /\ members \cap gone = {} =>
                              /\ overview[g].attendance = Ratio(sum("present"), sum("total"))
                              /\ scorers # {} => \E p, q \in scorers :
                                    MeanScore(p) <= overview[g].score /\ overview[g].score <= MeanScore(q)
  BY DEF SummariesAgree
<1>1. StandingTyped /\ Refreshed
  BY DEF StandingInv, Untouched
<1>2. overview[g] = GroupSummary(g) /\ \A p \in Pupil \ gone : summaries[p] = StudentSummary(p)
  BY <1>1 DEF Refreshed
<1> PICK members : members = {p \in Pupil : <<p, g>> \in roll}
  OBVIOUS
<1> PICK scorers : scorers = {p \in members : summaries[p] # NoSummary /\ summaries[p].tests > 0}
  OBVIOUS
<1> PICK present, total : /\ present = [p \in members |-> IF summaries[p] = NoSummary THEN 0
                                                         ELSE summaries[p]["present"]]
                          /\ total = [p \in members |-> IF summaries[p] = NoSummary THEN 0
                                                         ELSE summaries[p]["total"]]
  OBVIOUS
<1>3. ASSUME NEW p \in members \ gone
      PROVE  /\ summaries[p].absent + summaries[p].late + summaries[p].present <= summaries[p].total
             /\ p \in RiskStudents <=> StudentSummary(p).risk >= 100 * RiskThreshold
  <2>1. p \in Pupil /\ summaries[p] = StudentSummary(p)
    BY <1>2
  <2>2. StudentSummary(p) # NoSummary
        /\ StudentSummary(p).absent + StudentSummary(p).late + StudentSummary(p).present
              <= StudentSummary(p).total
    BY <1>1, <2>1, SummaryIs
  <2>3. p \in RiskStudents <=> StudentSummary(p).risk >= 100 * RiskThreshold
    BY <2>1, <2>2 DEF RiskStudents
  <2> QED
    BY <2>1, <2>2, <2>3
<1>4. ASSUME members \cap gone = {}
      PROVE  /\ overview[g].attendance = Ratio(Summed(present), Summed(total))
             /\ scorers # {} => \E p, q \in scorers :
                   MeanScore(p) <= overview[g].score /\ overview[g].score <= MeanScore(q)
  <2>1. \A p \in members : /\ p \in Pupil /\ summaries[p] # NoSummary
                           /\ present[p] = Cardinality(RecordsOf(p, {"PRESENT"}))
                           /\ total[p] = Cardinality(RecordsOf(p, AllStatuses))
                           /\ summaries[p].tests = Cardinality(Scored(p))
    <3> SUFFICES ASSUME NEW p \in members
                 PROVE  /\ p \in Pupil /\ summaries[p] # NoSummary
                        /\ present[p] = Cardinality(RecordsOf(p, {"PRESENT"}))
                        /\ total[p] = Cardinality(RecordsOf(p, AllStatuses))
                        /\ summaries[p].tests = Cardinality(Scored(p))
      OBVIOUS
    <3>1. p \in Pupil /\ summaries[p] = StudentSummary(p)
      BY <1>2, <1>4
    <3>2. /\ StudentSummary(p) # NoSummary
          /\ StudentSummary(p).total = Cardinality(RecordsOf(p, AllStatuses))
          /\ StudentSummary(p).present = Cardinality(RecordsOf(p, {"PRESENT"}))
          /\ StudentSummary(p).tests = Cardinality(Scored(p))
      BY <1>1, <3>1, SummaryIs
    <3> QED
      BY <3>1, <3>2
  <2>2. members \in SUBSET Pupil
    OBVIOUS
  <2>3. Total(present, members) = Cardinality({x \in members \X Slots : records[x] \in {"PRESENT"}})
    <3>1. \A p \in members : present[p] = Cardinality(RecordsOf(p, {"PRESENT"}))
      BY <2>1
    <3> QED
      BY ONLY <1>1, <2>2, <3>1, RecordsOfMany
  <2>4. Total(total, members) = Cardinality({x \in members \X Slots : records[x] \in AllStatuses})
    <3>1. \A p \in members : total[p] = Cardinality(RecordsOf(p, AllStatuses))
      BY <2>1
    <3> QED
      BY ONLY <1>1, <2>2, <3>1, RecordsOfMany
  <2>5. Summed(present) = Total(present, members) /\ Summed(total) = Total(total, members)
    <3>1. DOMAIN present = members /\ DOMAIN total = members
      OBVIOUS
    <3> QED
      BY <3>1, SummedIs
  <2> PICK marked : marked = {x \in members \X Exam : scores[x] >= 0}
    OBVIOUS
  <2> PICK f : f = [x \in marked |-> scores[x]]
    OBVIOUS
  <2>6. /\ overview[g].attendance
              = Ratio(Cardinality({x \in members \X Slots : records[x] \in {"PRESENT"}}),
                      Cardinality({x \in members \X Slots : records[x] \in AllStatuses}))
        /\ overview[g].score = Mean(f)
    BY <1>2 DEF GroupSummary
  <2>7. overview[g].attendance = Ratio(Summed(present), Summed(total))
    BY <2>3, <2>4, <2>5, <2>6
  <2>8. scorers = {p \in members : Scored(p) # {}}
    <3>1. ASSUME NEW p \in members PROVE summaries[p].tests > 0 <=> Scored(p) # {}
      <4>1. summaries[p].tests = Cardinality(Scored(p))
        BY <2>1
      <4>2. Cardinality(Scored(p)) \in Nat /\ (Scored(p) # {} => Cardinality(Scored(p)) # 0)
        BY <1>1, ScoresAre
      <4>3. Scored(p) = {} => Cardinality(Scored(p)) = 0
        BY FS_EmptySet
      <4> QED
        BY <4>1, <4>2, <4>3
    <3> QED
      BY <2>1, <3>1
  <2>9. ASSUME scorers # {}
        PROVE  \E p, q \in scorers : MeanScore(p) <= Mean(f) /\ Mean(f) <= MeanScore(q)
    <3>1. /\ marked = {x \in members \X Exam : scores[x] >= 0} /\ f = [x \in marked |-> scores[x]]
          /\ scorers # {}
      BY <2>9
    <3> QED
      BY ONLY <1>1, <2>2, <2>8, <3>1, BatchMeanIs
  <2> QED
    BY <2>6, <2>7, <2>9
<1> QED
  BY <1>3, <1>4

\* The keys of a student's rows for the lectures of a status, by what they say.
RowKeys(p, slotStatus, said) ==
    {y \in DOMAIN mapped : y[1] = p /\ lecture[y[2]] \in slotStatus /\ y[3] \in said}

\* How many rows a student has is the sum over their keys.
LEMMA RowsAre ==
    ASSUME StandingTyped, NEW p, NEW slotStatus, NEW said
    PROVE  /\ RowsOf(p, slotStatus, said) = Total(mapped, RowKeys(p, slotStatus, said))
           /\ IsFiniteSet(RowKeys(p, slotStatus, said))
           /\ \A y \in RowKeys(p, slotStatus, said) : mapped[y] \in Nat /\ mapped[y] \in Int
           /\ RowsOf(p, slotStatus, said) \in Nat
<1> PICK K : K = RowKeys(p, slotStatus, said)
  OBVIOUS
<1>1. mapped \in [Pupil \X Slots \X RecordStatus -> Nat]
  BY DEF StandingTyped
<1>2. IsFiniteSet(Pupil \X Slots \X RecordStatus)
  <2> PICK S : S = (Pupil \X Slots) \X RecordStatus
    OBVIOUS
  <2> PICK f : f = [x \in S |-> <<x[1][1], x[1][2], x[2]>>]
    OBVIOUS
  <2>1. IsFiniteSet(S)
    BY PlacesFinite, FS_Product
  <2>2. IsFiniteSet({f[x] : x \in S})
    BY ONLY <2>1, ImageFinite
  <2>3. Pupil \X Slots \X RecordStatus \in SUBSET {f[x] : x \in S}
    <3>1. ASSUME NEW a \in Pupil, NEW b \in Slots, NEW c \in RecordStatus
          PROVE  <<a, b, c>> \in {f[x] : x \in S}
      <4>1. <<<<a, b>>, c>> \in S
        OBVIOUS
      <4>2. f[<<<<a, b>>, c>>] = <<a, b, c>>
        BY <4>1
      <4> QED
        BY <4>1, <4>2
    <3> QED
      BY <3>1
  <2> QED
    BY <2>2, <2>3, FS_Subset
<1>3. K \in SUBSET (Pupil \X Slots \X RecordStatus) /\ K \in SUBSET DOMAIN mapped
  BY <1>1 DEF RowKeys
<1>4. IsFiniteSet(K)
  BY <1>2, <1>3, FS_Subset
<1>5. \A y \in K : mapped[y] \in Nat /\ mapped[y] \in Int
  BY <1>1, <1>3
<1> PICK f : f = [x \in K |-> mapped[x]]
  OBVIOUS
<1>6. RowsOf(p, slotStatus, said) = Summed(f)
  BY DEF RowsOf, RowKeys
<1>7. Summed(f) = Total(f, K)
  <2>1. DOMAIN f = K
    OBVIOUS
  <2> QED
    BY <2>1, SummedIs
<1>8. Total(f, K) = Total(mapped, K)
  <2>1. \A x \in K : f[x] = mapped[x]
    OBVIOUS
  <2> QED
    BY ONLY <1>4, <2>1, TotalSame
<1>9. Total(mapped, K) \in Nat
  <2>1. \A y \in K : mapped[y] \in Nat
    BY <1>5
  <2> QED
    BY ONLY <1>4, <2>1, TotalIsNat
<1> QED
  BY <1>4, <1>5, <1>6, <1>7, <1>8, <1>9

\* Rows that say one thing and rows that say another add up.
LEMMA RowsApart ==
    ASSUME StandingTyped, NEW p, NEW slotStatus, NEW one, NEW other, one \cap other = {}
    PROVE  RowsOf(p, slotStatus, one \cup other)
             = RowsOf(p, slotStatus, one) + RowsOf(p, slotStatus, other)
<1> PICK A, B : A = RowKeys(p, slotStatus, one) /\ B = RowKeys(p, slotStatus, other)
  OBVIOUS
<1>1. RowKeys(p, slotStatus, one \cup other) = A \cup B /\ A \cap B = {}
  BY DEF RowKeys
<1>2. /\ IsFiniteSet(A) /\ IsFiniteSet(B)
      /\ \A y \in A : mapped[y] \in Int
      /\ \A y \in B : mapped[y] \in Int
      /\ RowsOf(p, slotStatus, one) = Total(mapped, A)
      /\ RowsOf(p, slotStatus, other) = Total(mapped, B)
  BY RowsAre
<1>3. \A y \in A \cup B : mapped[y] \in Int
  BY <1>2
<1>4. Total(mapped, A \cup B) = Total(mapped, A) + Total(mapped, B)
  BY ONLY <1>1, <1>2, <1>3, TotalApart
<1>5. RowsOf(p, slotStatus, one \cup other) = Total(mapped, A \cup B)
  BY <1>1, RowsAre
<1> QED
  BY <1>2, <1>4, <1>5

\* What the rows of a student say, of the lectures of a status.
LEMMA RowsSplit ==
    ASSUME StandingTyped, NEW p, NEW slotStatus
    PROVE  /\ RowsOf(p, slotStatus, RecordStatus)
                = RowsOf(p, slotStatus, {"PRESENT"})
                    + RowsOf(p, slotStatus, {"ABSENT", "EXCUSED"} \cap RecordStatus)
                    + RowsOf(p, slotStatus, {"LATE", "PARTIAL"})
           /\ RowsOf(p, slotStatus, {"PRESENT"}) \in Nat
           /\ RowsOf(p, slotStatus, RecordStatus) \in Nat
           /\ RowsOf(p, slotStatus, {"PRESENT"}) <= RowsOf(p, slotStatus, RecordStatus)
<1> PICK a, b, c : /\ a = {"PRESENT"} /\ b = {"ABSENT", "EXCUSED"} \cap RecordStatus
                   /\ c = {"LATE", "PARTIAL"}
  OBVIOUS
<1>1. a \cap b = {} /\ (a \cup b) \cap c = {}
  OBVIOUS
<1>2. RowsOf(p, slotStatus, a \cup b) = RowsOf(p, slotStatus, a) + RowsOf(p, slotStatus, b)
  BY <1>1, RowsApart
<1>3. RowsOf(p, slotStatus, (a \cup b) \cup c)
        = RowsOf(p, slotStatus, a \cup b) + RowsOf(p, slotStatus, c)
  BY <1>1, RowsApart
<1>4. RowKeys(p, slotStatus, (a \cup b) \cup c) = RowKeys(p, slotStatus, RecordStatus)
  <2>1. DOMAIN mapped = Pupil \X Slots \X RecordStatus
    BY DEF StandingTyped
  <2>2. \A v \in RecordStatus : v \in (a \cup b) \cup c
    BY StandingAssumption
  <2>3. \A y \in DOMAIN mapped : y[3] \in RecordStatus
    BY <2>1
  <2>4. \A y \in DOMAIN mapped : y[3] \in (a \cup b) \cup c <=> y[3] \in RecordStatus
    BY <2>2, <2>3
  <2> QED
    BY <2>4 DEF RowKeys
<1>5. RowsOf(p, slotStatus, (a \cup b) \cup c) = RowsOf(p, slotStatus, RecordStatus)
  BY <1>4, RowsAre
<1>6. /\ RowsOf(p, slotStatus, a) \in Nat /\ RowsOf(p, slotStatus, b) \in Nat
      /\ RowsOf(p, slotStatus, c) \in Nat /\ RowsOf(p, slotStatus, RecordStatus) \in Nat
  BY RowsAre
<1> PICK x, y, z, t : /\ x = RowsOf(p, slotStatus, a) /\ y = RowsOf(p, slotStatus, b)
                      /\ z = RowsOf(p, slotStatus, c) /\ t = RowsOf(p, slotStatus, RecordStatus)
  OBVIOUS
<1>7. t = x + y + z /\ x \in Nat /\ y \in Nat /\ z \in Nat /\ t \in Nat
  BY <1>2, <1>3, <1>5, <1>6
<1>8. x <= t
  BY ONLY <1>7
<1> QED
  BY <1>7, <1>8

\* The pairs of the insights: a percentage each.
LEMMA PairsAre ==
    ASSUME StandingTyped
    PROVE  /\ DOMAIN OutcomePairs \in SUBSET Pupil /\ IsFiniteSet(DOMAIN OutcomePairs)
           /\ \A p \in DOMAIN OutcomePairs :
                 /\ OutcomePairs[p].attendance = Ratio(RowsOf(p, {"completed"}, {"PRESENT"}),
                                                       RowsOf(p, {"completed"}, RecordStatus))
                 /\ OutcomePairs[p].attendance \in 0 .. 100
<1>1. DOMAIN OutcomePairs \in SUBSET Pupil
      /\ \A p \in DOMAIN OutcomePairs :
            OutcomePairs[p].attendance = Ratio(RowsOf(p, {"completed"}, {"PRESENT"}),
                                               RowsOf(p, {"completed"}, RecordStatus))
  BY DEF OutcomePairs
<1>2. IsFiniteSet(DOMAIN OutcomePairs)
  BY <1>1, PlacesFinite, FS_Subset
<1>3. ASSUME NEW p \in DOMAIN OutcomePairs PROVE OutcomePairs[p].attendance \in 0 .. 100
  <2> PICK a, b : a = RowsOf(p, {"completed"}, {"PRESENT"}) /\ b = RowsOf(p, {"completed"}, RecordStatus)
    OBVIOUS
  <2>1. a \in Nat /\ b \in Nat /\ a <= b
    BY RowsSplit
  <2>2. Ratio(a, b) \in 0 .. 100
    BY ONLY <2>1, RatioIs
  <2> QED
    BY <1>1, <2>2
<1> QED
  BY <1>1, <1>2, <1>3

\* The three buckets share the pairs out.
LEMMA BucketsShareOut ==
    ASSUME StandingTyped
    PROVE  Cardinality(Bucket(80, 101)) + Cardinality(Bucket(50, 80)) + Cardinality(Bucket(0, 50))
             = Cardinality(DOMAIN OutcomePairs)
<1> PICK a, b, c, S : /\ a = Bucket(80, 101) /\ b = Bucket(50, 80) /\ c = Bucket(0, 50)
                      /\ S = DOMAIN OutcomePairs
  OBVIOUS
<1>1. /\ a = {p \in S : OutcomePairs[p].attendance >= 80 /\ OutcomePairs[p].attendance < 101}
      /\ b = {p \in S : OutcomePairs[p].attendance >= 50 /\ OutcomePairs[p].attendance < 80}
      /\ c = {p \in S : OutcomePairs[p].attendance >= 0 /\ OutcomePairs[p].attendance < 50}
  BY DEF Bucket
<1>2. IsFiniteSet(S) /\ \A p \in S : OutcomePairs[p].attendance \in 0 .. 100
  BY PairsAre
<1>3. a \cap b = {} /\ (a \cup b) \cap c = {} /\ (a \cup b) \cup c = S
  BY ONLY <1>1, <1>2
<1>4. a \in SUBSET S /\ b \in SUBSET S /\ c \in SUBSET S
  BY <1>1
<1>5. /\ IsFiniteSet(a) /\ IsFiniteSet(b) /\ IsFiniteSet(c)
      /\ Cardinality(a) \in Nat /\ Cardinality(b) \in Nat /\ Cardinality(c) \in Nat
  BY ONLY <1>2, <1>4, FS_Subset, FS_CardinalityType
<1>6. Cardinality(a \cup b) = Cardinality(a) + Cardinality(b) /\ IsFiniteSet(a \cup b)
  BY ONLY <1>3, <1>5, BothApart
<1>7. Cardinality((a \cup b) \cup c) = Cardinality(a \cup b) + Cardinality(c)
  BY ONLY <1>3, <1>5, <1>6, BothApart
<1> QED
  BY <1>3, <1>5, <1>6, <1>7

\* Who is listed in an order has one place in it.
LEMMA PlaceIs ==
    ASSUME NEW S, IsFiniteSet(S), NEW order \in [1 .. Cardinality(S) -> S], IsInjective(order), NEW p \in S
    PROVE  Place(order, p) \in 1 .. Cardinality(S) /\ order[Place(order, p)] = p
<1> PICK k : k = Cardinality(S)
  OBVIOUS
<1>1. k \in Nat /\ IsFiniteSet(1 .. k) /\ Cardinality(1 .. k) = k
  <2>1. k \in Nat
    BY FS_CardinalityType
  <2>2. 1 \in Int /\ k \in Int
    BY <2>1
  <2>3. IsFiniteSet(1 .. k) /\ Cardinality(1 .. k) = IF 1 > k THEN 0 ELSE k - 1 + 1
    BY ONLY <2>2, FS_Interval
  <2> QED
    BY ONLY <2>1, <2>3
<1>2. order \in Injection(1 .. k, S)
  BY DEF Injection
<1>3. order \in Surjection(1 .. k, S)
  BY <1>1, <1>2, FS_Injection
<1>4. \E i \in 1 .. k : order[i] = p
  BY <1>3 DEF Surjection
<1>5. DOMAIN order = 1 .. k
  OBVIOUS
<1> QED
  BY <1>4, <1>5 DEF Place

\* No place in a batch is behind the place in the institute.
LEMMA BatchRankIs ==
    ASSUME StandingTyped, NEW e \in Exam, NEW order \in TestListings(e), NEW p \in Takers(e), NEW g
    PROVE  BatchRank(order, p, g) <= InstituteRank(order, p)
<1> PICK S : S = Takers(e)
  OBVIOUS
<1>1. S \in SUBSET Pupil /\ IsFiniteSet(Pupil)
  BY PlacesFinite DEF Takers
<1>2. IsFiniteSet(S)
  BY <1>1, FS_Subset
<1>3. order \in [1 .. Cardinality(S) -> S] /\ IsInjective(order)
  BY DEF TestListings, Listings
<1> PICK i : i = Place(order, p)
  OBVIOUS
<1>4. i \in 1 .. Cardinality(S)
  BY <1>2, <1>3, PlaceIs
<1>5. Cardinality(S) \in Nat
  BY <1>2, FS_CardinalityType
<1>6. i \in Nat /\ i >= 1
  BY <1>4, <1>5
<1>7. IsFiniteSet(1 .. i) /\ Cardinality(1 .. i) = i
  <2>1. IsFiniteSet(1 .. i) /\ Cardinality(1 .. i) = IF 1 > i THEN 0 ELSE i - 1 + 1
    BY <1>6, FS_Interval
  <2> QED
    BY <1>6, <2>1
<1> PICK among : among = {j \in 1 .. i : <<order[j], g>> \in roll}
  OBVIOUS
<1>8. among \in SUBSET (1 .. i)
  OBVIOUS
<1>9. Cardinality(among) <= i
  BY <1>7, <1>8, FS_Subset
<1> QED
  BY <1>9 DEF BatchRank, InstituteRank

\* The mean of one mark is the mark.
LEMMA OnlyScore ==
    ASSUME StandingTyped, NEW e, Exam = {e}, NEW p \in Takers(e)
    PROVE  MeanScore(p) = scores[<<p, e>>] /\ scores[<<p, e>>] \in Int
<1>1. p \in Pupil /\ Scored(p) = {e}
  BY DEF Takers, Scored
<1> PICK f : f = [x \in Scored(p) |-> scores[<<p, x>>]]
  OBVIOUS
<1>2. \A x \in Scored(p) : f[x] \in Nat
  BY <1>1, MeanScoreIs
<1>3. f[e] = scores[<<p, e>>] /\ f[e] \in Int /\ f[e] \in Nat
  BY <1>1, <1>2
<1>4. Total(f, {e}) = f[e]
  BY <1>3, TotalOfOne
<1>5. Cardinality({e}) = 1
  BY FS_Singleton
<1>6. MeanScore(p) = Total(f, Scored(p)) \div Cardinality(Scored(p))
  BY <1>1, MeanScoreIs
<1>7. MeanScore(p) = f[e] \div 1
  BY <1>1, <1>4, <1>5, <1>6
<1>8. \A n \in Nat : n \div 1 = n
  OBVIOUS
<1> QED
  BY <1>3, <1>7, <1>8

\* Who has the better mark of the only test comes first on the roster.
LEMMA RosterKeeps ==
    ASSUME StandingTyped, NEW e, Exam = {e}, NEW g, NEW roster \in RosterRanks(g),
           NEW p \in Takers(e) \cap Members(g), NEW q \in Takers(e) \cap Members(g),
           scores[<<q, e>>] < scores[<<p, e>>]
    PROVE  Place(roster, p) < Place(roster, q)
<1> PICK S : S = Members(g)
  OBVIOUS
<1>1. IsFiniteSet(S) /\ RegistersTypeOK
  <2>1. RegistersTypeOK
    BY DEF StandingTyped
  <2> QED
    BY <2>1, SetsAre
<1>2. /\ roster \in [1 .. Cardinality(S) -> S] /\ IsInjective(roster)
      /\ \A i, j \in DOMAIN roster : i < j => MeanScore(roster[i]) >= MeanScore(roster[j])
  BY DEF RosterRanks, Listings
<1> PICK i, j : i = Place(roster, p) /\ j = Place(roster, q)
  OBVIOUS
<1>3. i \in 1 .. Cardinality(S) /\ roster[i] = p /\ j \in 1 .. Cardinality(S) /\ roster[j] = q
  <2>1. p \in S /\ q \in S
    OBVIOUS
  <2>2. roster \in [1 .. Cardinality(S) -> S] /\ IsInjective(roster) /\ IsFiniteSet(S)
    BY <1>1, <1>2
  <2>3. Place(roster, p) \in 1 .. Cardinality(S) /\ roster[Place(roster, p)] = p
    BY ONLY <2>1, <2>2, PlaceIs
  <2>4. Place(roster, q) \in 1 .. Cardinality(S) /\ roster[Place(roster, q)] = q
    BY ONLY <2>1, <2>2, PlaceIs
  <2> QED
    BY ONLY <2>3, <2>4, i = Place(roster, p) /\ j = Place(roster, q)
<1>4. Cardinality(S) \in Nat
  BY <1>1, FS_CardinalityType
<1>5. /\ MeanScore(p) = scores[<<p, e>>] /\ scores[<<p, e>>] \in Int
      /\ MeanScore(q) = scores[<<q, e>>] /\ scores[<<q, e>>] \in Int
  BY OnlyScore
<1>6. ~ (MeanScore(q) >= MeanScore(p))
  BY <1>5
<1>7. i # j
  BY <1>3, <1>5
<1>8. ~ (j < i)
  BY <1>2, <1>3, <1>6
<1>9. i \in Int /\ j \in Int
  BY <1>3, <1>4
<1>10. i < j
  BY ONLY <1>7, <1>8, <1>9
<1> QED
  BY <1>10

\* What the pages compute on demand agrees.
LEMMA StudentPagesDoAgree == StandingTyped => StudentPagesAgree
<1> SUFFICES ASSUME StandingTyped PROVE StudentPagesAgree
  OBVIOUS
<1>1. ASSUME NEW p \in Pupil
      PROVE  /\ AttendanceReport(p).held = AttendanceReport(p).present + TopicsMissed(p)
                                             + RowsOf(p, HeldStatus, {"LATE", "PARTIAL"})
             /\ (p \in DOMAIN OutcomePairs /\ \A s \in Slots : lecture[s] # "struck")
                   => OutcomePairs[p].attendance
                        = Ratio(AttendanceReport(p).present, AttendanceReport(p).held)
  <2>1. /\ AttendanceReport(p).held = RowsOf(p, HeldStatus, RecordStatus)
        /\ AttendanceReport(p).present = RowsOf(p, HeldStatus, {"PRESENT"})
        /\ TopicsMissed(p) = RowsOf(p, HeldStatus, {"ABSENT", "EXCUSED"} \cap RecordStatus)
    BY DEF AttendanceReport, TopicsMissed
  <2>2. ASSUME p \in DOMAIN OutcomePairs, \A s \in Slots : lecture[s] # "struck"
        PROVE  OutcomePairs[p].attendance
                 = Ratio(AttendanceReport(p).present, AttendanceReport(p).held)
    <3>1. ASSUME NEW said PROVE RowsOf(p, {"completed"}, said) = RowsOf(p, HeldStatus, said)
      <4>1. \A y \in DOMAIN mapped : y[2] \in Slots
        BY DEF StandingTyped
      <4>2. \A y \in DOMAIN mapped : lecture[y[2]] \in {"completed"} <=> lecture[y[2]] \in HeldStatus
        BY <2>2, <4>1 DEF HeldStatus
      <4>3. RowKeys(p, {"completed"}, said) = RowKeys(p, HeldStatus, said)
        BY <4>2 DEF RowKeys
      <4> QED
        BY <4>3, RowsAre
    <3>2. OutcomePairs[p].attendance = Ratio(RowsOf(p, {"completed"}, {"PRESENT"}),
                                             RowsOf(p, {"completed"}, RecordStatus))
      BY <2>2, PairsAre
    <3> QED
      BY <2>1, <3>1, <3>2
  <2>3. RowsOf(p, HeldStatus, RecordStatus)
           = RowsOf(p, HeldStatus, {"PRESENT"})
               + RowsOf(p, HeldStatus, {"ABSENT", "EXCUSED"} \cap RecordStatus)
               + RowsOf(p, HeldStatus, {"LATE", "PARTIAL"})
    BY RowsSplit
  <2> QED
    BY <2>1, <2>2, <2>3
<1>2. ASSUME NEW e \in Exam, NEW order \in TestListings(e), NEW p \in Takers(e), NEW g \in GroupsOf(p)
      PROVE  /\ BatchRank(order, p, g) <= InstituteRank(order, p)
             /\ \A roster \in RosterRanks(g) : \A q \in Takers(e) \cap Members(g) :
                   (Exam = {e} /\ p \in Members(g) /\ scores[<<q, e>>] < scores[<<p, e>>])
                      => Place(roster, p) < Place(roster, q)
  <2>1. BatchRank(order, p, g) <= InstituteRank(order, p)
    BY BatchRankIs
  <2>2. ASSUME NEW roster \in RosterRanks(g), NEW q \in Takers(e) \cap Members(g),
               Exam = {e}, p \in Members(g), scores[<<q, e>>] < scores[<<p, e>>]
        PROVE  Place(roster, p) < Place(roster, q)
    <3>1. p \in Takers(e) \cap Members(g)
      BY <2>2
    <3> QED
      BY <2>2, <3>1, RosterKeeps
  <2> QED
    BY <2>1, <2>2
<1> QED
  BY <1>1, <1>2, BucketsShareOut DEF StudentPagesAgree

\* However records, marks and rolls change and whenever the summaries are
\* refreshed: what is stored for students, batches and teachers is of the records
\* of the last refresh until something changes, and the pages that are computed
\* on demand agree with one another at every moment.
THEOREM StandingIsSound ==
    StandingInit /\ [][StandingNext]_standingVars
        => [](StandingTypeOK /\ RegistersAgree /\ StandingAgrees)
<1>1. StandingInv => StandingTypeOK
  <2> SUFFICES ASSUME StandingInv PROVE StandingTypeOK
    OBVIOUS
  <2>1. StandingTyped
    BY DEF StandingInv
  <2>2. \A x \in DOMAIN mapped : mapped[x] \in 0 .. MaxChanges
    <3>1. DOMAIN mapped = Pupil \X Slots \X RecordStatus
      BY <2>1 DEF StandingTyped
    <3>2. \A x \in DOMAIN mapped : mapped[x] \in Nat /\ mapped[x] <= changes
      BY <2>1, <3>1 DEF StandingTyped
    <3>3. changes \in 0 .. MaxChanges /\ MaxChanges \in Nat
      BY <2>1, StandingAssumption DEF StandingTyped
    <3> QED
      BY ONLY <3>2, <3>3
  <2> QED
    BY <2>1, <2>2 DEF StandingTyped, StandingTypeOK
<1>2. StandingInv => RegistersAgree
  <2>1. StandingInv => RegistersTypeOK
    BY DEF StandingInv, StandingTyped
  <2> QED
    BY <2>1, MatrixDoesAgree, BoardDoesAgree, TurnoutDoesAgree, DocumentsDoAgree DEF RegistersAgree
<1>3. StandingInv => StandingAgrees
  <2>1. StandingInv => StandingTyped
    BY DEF StandingInv
  <2> QED
    BY <2>1, SummariesDoAgree, TeachersDoAgree, StudentPagesDoAgree DEF StandingAgrees
<1> QED
  BY <1>1, <1>2, <1>3, StandingStart, StandingStep, PTL
===============================================================================
