--------------------------- MODULE School_proofs ---------------------------
(***************************************************************************)
(* The payroll and the marks of the test portal.  However the calls of any *)
(* number of sessions overlap, a member of staff has one active request    *)
(* for a month and every balance is in its range; while calls do not       *)
(* overlap, what is deferred is made up and requests move on as they       *)
(* should; whatever the staff, months, dates, the cap and the bounds are.  *)
(* For any students, subjects, questions, sheets and examiners, what the   *)
(* portal shows of a test is sound.                                        *)
(***************************************************************************)
EXTENDS Payroll, Tests, Sums_proofs, FiniteSetTheorems, SequenceTheorems, TLAPS

-----------------------------------------------------------------------------
(* Requests for extra days.                                                 *)

\* A session that is raising a request carries a well-formed one.
Raising ==
    /\ DOMAIN call = Session
    /\ \A x \in Session : call[x].kind = "raise" => call[x].rq \in Request

OneClaim(rqs) ==
    \A i, j \in DOMAIN rqs :
        (/\ rqs[i].status \in Active /\ rqs[j].status \in Active
         /\ rqs[i].staff = rqs[j].staff /\ rqs[i].source = rqs[j].source) => i = j

\* The inductive invariant.
ClaimsInv == requests \in Seq(Request) /\ Raising /\ OneClaim(requests)

-----------------------------------------------------------------------------
LEMMA AtMostOne ==
    ASSUME NEW S, \A a, b \in S : a = b
    PROVE  Cardinality(S) <= 1
<1>1. CASE S = {}
  BY <1>1, FS_EmptySet
<1>2. CASE S # {}
  <2>1. PICK a \in S : TRUE
    BY <1>2
  <2>2. S = {a}
    BY <2>1
  <2> QED BY <2>2, FS_Singleton
<1> QED BY <1>1, <1>2

LEMMA ClaimsImplyOneActive == ClaimsInv => OneActiveRequest
<1> SUFFICES ASSUME ClaimsInv, NEW s \in Staff, NEW m \in Months
             PROVE  Cardinality({i \in IndicesOf(requests, s, m) :
                                   requests[i].status \in Active}) <= 1
  BY DEF OneActiveRequest
<1> DEFINE S == {i \in IndicesOf(requests, s, m) : requests[i].status \in Active}
<1>1. \A a, b \in S : a = b
  BY DEF ClaimsInv, OneClaim, IndicesOf
<1> QED BY <1>1, AtMostOne

LEMMA SequenceOf ==
    ASSUME NEW S, NEW n \in Nat, NEW f, f = [j \in 1 .. n |-> f[j]],
           \A j \in 1 .. n : f[j] \in S
    PROVE  f \in Seq(S)
<1>1. f \in [1 .. n -> S]
  OBVIOUS
<1> QED BY <1>1

\* A request that is refused or expires makes room and takes none.
LEMMA StatusSet ==
    ASSUME NEW rqs \in Seq(Request), OneClaim(rqs), NEW i, NEW status \in Statuses,
           status \in Active => \A j \in DOMAIN rqs :
               (i \in DOMAIN rqs /\ rqs[j].status \in Active
                  /\ rqs[j].staff = rqs[i].staff /\ rqs[j].source = rqs[i].source) => j = i
    PROVE  /\ [rqs EXCEPT ![i].status = status] \in Seq(Request)
           /\ OneClaim([rqs EXCEPT ![i].status = status])
<1> DEFINE new == [rqs EXCEPT ![i].status = status]
<1>1. DOMAIN new = DOMAIN rqs
  OBVIOUS
<1>2. \A j \in DOMAIN rqs : rqs[j] \in Request
  OBVIOUS
<1>3. \A j \in DOMAIN rqs :
          /\ new[j] \in Request
          /\ new[j].staff = rqs[j].staff /\ new[j].source = rqs[j].source
          /\ new[j].status = IF j = i THEN status ELSE rqs[j].status
  BY <1>2 DEF Request
<1>4. new \in Seq(Request)
  <2>1. DOMAIN rqs = 1 .. Len(rqs) /\ Len(rqs) \in Nat
    OBVIOUS
  <2>2. new = [j \in 1 .. Len(rqs) |-> new[j]]
    BY <2>1
  <2> HIDE DEF new
  <2> QED BY <1>3, <2>1, <2>2, SequenceOf
<1> HIDE DEF new
<1>5. OneClaim(new)
  BY <1>1, <1>3 DEF OneClaim
<1> QED BY <1>4, <1>5 DEF new

LEMMA ExpiryKeeps ==
    ASSUME NEW rqs \in Seq(Request), OneClaim(rqs), NEW snapshots, NEW sources
    PROVE  /\ Expired(rqs, snapshots, sources) \in Seq(Request)
           /\ OneClaim(Expired(rqs, snapshots, sources))
<1> DEFINE new == Expired(rqs, snapshots, sources)
<1>1. DOMAIN new = DOMAIN rqs
  BY DEF Expired
<1>2. \A j \in DOMAIN rqs : rqs[j] \in Request
  OBVIOUS
<1>3. \A j \in DOMAIN rqs :
          new[j] = rqs[j] \/ new[j] = [rqs[j] EXCEPT !.status = "EXPIRED"]
  BY DEF Expired
<1>4. \A j \in DOMAIN rqs :
          /\ new[j] \in Request
          /\ new[j].staff = rqs[j].staff /\ new[j].source = rqs[j].source
          /\ new[j].status \in Active => rqs[j].status \in Active
  BY <1>2, <1>3 DEF Request, Statuses, Active
<1>5. new \in Seq(Request)
  <2>1. DOMAIN rqs = 1 .. Len(rqs) /\ Len(rqs) \in Nat
    OBVIOUS
  <2>2. new = [j \in 1 .. Len(rqs) |-> new[j]]
    BY <2>1 DEF Expired
  <2> HIDE DEF new
  <2> QED BY <1>4, <2>1, <2>2, SequenceOf
<1> HIDE DEF new
<1>6. OneClaim(new)
  BY <1>1, <1>4 DEF OneClaim
<1> QED BY <1>5, <1>6 DEF new

\* A new request is let in when no other claims its month.
LEMMA Raised ==
    ASSUME NEW rqs \in Seq(Request), OneClaim(rqs), NEW rq \in Request,
           ActiveIn(rqs, rq.staff, rq.source) = {}
    PROVE  Append(rqs, rq) \in Seq(Request) /\ OneClaim(Append(rqs, rq))
<1> DEFINE new == Append(rqs, rq)
<1>1. /\ new \in Seq(Request)
      /\ DOMAIN new = 1 .. Len(rqs) + 1
      /\ DOMAIN rqs = 1 .. Len(rqs) /\ Len(rqs) \in Nat
      /\ \A j \in 1 .. Len(rqs) : new[j] = rqs[j]
      /\ new[Len(rqs) + 1] = rq
  OBVIOUS
<1>2. \A j \in DOMAIN rqs :
          ~ (rqs[j].status \in Active /\ rqs[j].staff = rq.staff /\ rqs[j].source = rq.source)
  BY DEF ActiveIn, IndicesOf
<1> HIDE DEF new
<1>3. OneClaim(new)
  <2> SUFFICES ASSUME NEW i \in DOMAIN new, NEW j \in DOMAIN new,
                      new[i].status \in Active, new[j].status \in Active,
                      new[i].staff = new[j].staff, new[i].source = new[j].source
               PROVE  i = j
    BY DEF OneClaim
  <2>1. CASE i = Len(rqs) + 1 \/ j = Len(rqs) + 1
    BY <1>1, <1>2, <2>1
  <2>2. CASE i \in DOMAIN rqs /\ j \in DOMAIN rqs
    BY <1>1, <2>2 DEF OneClaim
  <2> QED BY <1>1, <2>1, <2>2
<1> QED BY <1>1, <1>3 DEF new

-----------------------------------------------------------------------------
LEMMA InitClaims == Init => ClaimsInv
<1> SUFFICES ASSUME Init
             PROVE  ClaimsInv
  OBVIOUS
<1>1. requests = <<>> /\ <<>> \in Seq(Request) /\ DOMAIN <<>> = {}
  BY DEF Init
<1>2. Raising
  BY DEF Init, Raising, Idle
<1> QED BY <1>1, <1>2 DEF ClaimsInv, OneClaim

\* A call begins: no request changes, and one that raises a request raises a
\* pending one.
LEMMA BeginKeeps ==
    ASSUME ClaimsInv, NEW x \in Session, NEW c, Begin(x, c),
           c.kind = "raise" => c.rq \in Request
    PROVE  ClaimsInv'
<1>1. requests' = requests
  BY DEF Begin, books
<1>2. Raising'
  BY DEF ClaimsInv, Raising, Begin
<1> QED BY <1>1, <1>2 DEF ClaimsInv

\* A handler ends: its session raises nothing any more.
LEMMA CommitKeepsRaising ==
    ASSUME Raising, NEW x \in Session, NEW kind, Commit(x, kind)
    PROVE  Raising'
BY DEF Raising, Commit, Idle

LEMMA RecomputeKeeps ==
    ASSUME requests \in Seq(Request), OneClaim(requests),
           NEW b, b.requests = requests, NEW m, RecomputeAndExpire(b, m)
    PROVE  requests' \in Seq(Request) /\ OneClaim(requests')
<1>1. requests' = Expired(requests, snap',
                          {k \in m .. LastMonth : b.lifecycle[k] \in Finalised})
  BY DEF RecomputeAndExpire
<1> QED BY <1>1, ExpiryKeeps

\* Refusing or cancelling makes no request active.
LEMMA RefusalKeeps ==
    ASSUME ClaimsInv, NEW x \in Session, NEW kind, NEW status \in Statuses \ Active,
           CommitRefusal(x, kind, status)
    PROVE  ClaimsInv'
<1>1. Raising'
  BY CommitKeepsRaising DEF ClaimsInv, CommitRefusal
<1>2. requests' = [requests EXCEPT ![call[x].index].status = status]
  BY DEF CommitRefusal, WithStatus
<1>3. requests \in Seq(Request) /\ OneClaim(requests)
  BY DEF ClaimsInv
<1>4. requests' \in Seq(Request) /\ OneClaim(requests')
  BY <1>2, <1>3, StatusSet
<1> QED BY <1>1, <1>4 DEF ClaimsInv

LEMMA EditKeeps ==
    ASSUME ClaimsInv, NEW x \in Session, CommitEdit(x)
    PROVE  ClaimsInv'
<1>1. Raising'
  BY CommitKeepsRaising DEF ClaimsInv, CommitEdit
<1>2. \/ requests' = requests
      \/ RecomputeAndExpire([Books EXCEPT !.required = required'], call[x].month)
  BY DEF CommitEdit, Rollback, books
<1>3. [Books EXCEPT !.required = required'].requests = requests
  BY DEF Books
<1>4. requests' \in Seq(Request) /\ OneClaim(requests')
  BY <1>2, <1>3, RecomputeKeeps DEF ClaimsInv
<1> QED BY <1>1, <1>4 DEF ClaimsInv

LEMMA HolidaysKeep ==
    ASSUME ClaimsInv, NEW x, NEW m, NEW dates, SetHolidays(x, m, dates)
    PROVE  ClaimsInv'
<1>1. Raising'
  BY DEF ClaimsInv, Raising, SetHolidays
<1>2. \/ requests' = requests
      \/ RecomputeAndExpire([Books EXCEPT !.holidays = holidays'], m)
  BY DEF SetHolidays
<1>3. [Books EXCEPT !.holidays = holidays'].requests = requests
  BY DEF Books
<1>4. requests' \in Seq(Request) /\ OneClaim(requests')
  BY <1>2, <1>3, RecomputeKeeps DEF ClaimsInv
<1> QED BY <1>1, <1>4 DEF ClaimsInv

LEMMA CloseKeeps ==
    ASSUME ClaimsInv, NEW x \in Session, CommitClose(x)
    PROVE  ClaimsInv'
<1>1. Raising'
  BY CommitKeepsRaising DEF ClaimsInv, CommitClose
<1>2. requests' = Expired(requests, snap', {call[x].month})
  BY DEF CommitClose
<1>3. requests' \in Seq(Request) /\ OneClaim(requests')
  BY <1>2, ExpiryKeeps DEF ClaimsInv
<1> QED BY <1>1, <1>3 DEF ClaimsInv

LEMMA ReopenKeeps ==
    ASSUME ClaimsInv, NEW x \in Session, CommitReopen(x)
    PROVE  ClaimsInv'
<1>1. Raising'
  BY CommitKeepsRaising DEF ClaimsInv, CommitReopen
<1>2. RecomputeAndExpire([Books EXCEPT !.lifecycle = lifecycle'], call[x].month)
  BY DEF CommitReopen
<1>3. [Books EXCEPT !.lifecycle = lifecycle'].requests = requests
  BY DEF Books
<1>4. requests' \in Seq(Request) /\ OneClaim(requests')
  BY <1>2, <1>3, RecomputeKeeps DEF ClaimsInv
<1> QED BY <1>1, <1>4 DEF ClaimsInv

\* The unique index decides again when the insert is committed.
LEMMA RaiseKeeps ==
    ASSUME ClaimsInv, NEW x \in Session, CommitRaise(x)
    PROVE  ClaimsInv'
<1>1. Raising'
  BY CommitKeepsRaising DEF ClaimsInv, CommitRaise
<1>2. call[x].rq \in Request
  BY DEF ClaimsInv, Raising, CommitRaise, Commit
<1>3. \/ requests' = requests
      \/ /\ ActiveIn(requests, call[x].rq.staff, call[x].rq.source) = {}
         /\ requests' = Append(requests, call[x].rq)
  BY DEF CommitRaise, Rollback, books
<1>4. requests' \in Seq(Request) /\ OneClaim(requests')
  BY <1>2, <1>3, Raised DEF ClaimsInv
<1> QED BY <1>1, <1>4 DEF ClaimsInv

\* An approval that comes after a rejection revives the request: the index
\* lets it when no other request has taken its place.
LEMMA ApproveKeeps ==
    ASSUME ClaimsInv, NEW x \in Session, CommitApprove(x)
    PROVE  ClaimsInv'
<1> DEFINE i == call[x].index
<1>1. Raising'
  BY CommitKeepsRaising DEF ClaimsInv, CommitApprove
<1>2. \/ requests' = requests
      \/ /\ ActiveIn(requests, requests[i].staff, requests[i].source) \subseteq {i}
         /\ requests' = [requests EXCEPT ![i].status = "APPROVED"]
  BY DEF CommitApprove, WithStatus, Rollback, books
<1>3. requests \in Seq(Request) /\ OneClaim(requests) /\ "APPROVED" \in Statuses
  BY DEF ClaimsInv, Statuses, Active
<1>4. ASSUME ActiveIn(requests, requests[i].staff, requests[i].source) \subseteq {i}
      PROVE  \A j \in DOMAIN requests :
                 (i \in DOMAIN requests /\ requests[j].status \in Active
                    /\ requests[j].staff = requests[i].staff
                    /\ requests[j].source = requests[i].source) => j = i
  BY <1>4 DEF ActiveIn, IndicesOf
<1> HIDE DEF i
<1>5. requests' \in Seq(Request) /\ OneClaim(requests')
  BY <1>2, <1>3, <1>4, StatusSet
<1> QED BY <1>1, <1>5 DEF ClaimsInv

LEMMA ClaimsStep == ClaimsInv /\ [Next]_vars => ClaimsInv'
<1> SUFFICES ASSUME ClaimsInv, [Next]_vars
             PROVE  ClaimsInv'
  OBVIOUS
<1>1. ASSUME NEW x \in Session, NEW m \in Months, NEW r, BeginEdit(x, m, r)
      PROVE  ClaimsInv'
  BY <1>1, BeginKeeps DEF BeginEdit
<1>2. ASSUME NEW x \in Session, NEW m \in Months, NEW d,
             AddHoliday(x, m, d) \/ RemoveHoliday(x, m, d)
      PROVE  ClaimsInv'
  BY <1>2, HolidaysKeep DEF AddHoliday, RemoveHoliday
<1>3. ASSUME NEW x \in Session, NEW m \in Months, NEW verb \in Verbs,
             BeginVerb(x, m, verb)
      PROVE  ClaimsInv'
  BY <1>3, BeginKeeps DEF BeginVerb, Verbs
<1>4. ASSUME NEW x \in Session, NEW m \in Months, NEW s \in Staff,
             NEW n \in 1 .. Cardinality(Dates) + 1, NEW u \in Users, BeginRaise(x, s, m, n, u)
      PROVE  ClaimsInv'
  <2> DEFINE rq == [staff |-> s, source |-> m, days |-> n,
                    status |-> "PENDING", by |-> u]
  <2>0. n \in Nat \ {0}
    BY FS_CardinalityType, PayrollAssumption
  <2>1. rq \in Request
    BY <2>0 DEF Request, Statuses, Active
  <2>2. Begin(x, [kind |-> "raise", rq |-> rq])
    BY <1>4 DEF BeginRaise
  <2> HIDE DEF rq
  <2> QED BY <2>1, <2>2, BeginKeeps
<1>5. ASSUME NEW x \in Session, NEW i, NEW u, NEW to \in {"approve", "reject"},
             BeginDecide(x, i, to, u)
      PROVE  ClaimsInv'
  BY <1>5, BeginKeeps DEF BeginDecide
<1>6. ASSUME NEW x \in Session, NEW i, NEW u, BeginCancel(x, i, u)
      PROVE  ClaimsInv'
  BY <1>6, BeginKeeps DEF BeginCancel
<1>7. ASSUME NEW x \in Session, CommitLock(x)
      PROVE  ClaimsInv'
  BY <1>7, CommitKeepsRaising DEF ClaimsInv, CommitLock
<1>8. ASSUME NEW x \in Session, CommitReject(x) \/ CommitCancel(x)
      PROVE  ClaimsInv'
  BY <1>8, RefusalKeeps DEF CommitReject, CommitCancel, Statuses, Active
<1>9. ASSUME NEW s, NEW m, NEW d, CorrectAttendance(s, m, d)
      PROVE  ClaimsInv'
  BY <1>9 DEF CorrectAttendance, books, ClaimsInv, Raising
<1>10. CASE UNCHANGED vars
  BY <1>10 DEF vars, ClaimsInv, Raising
<1> QED
  BY <1>1, <1>2, <1>3, <1>4, <1>5, <1>6, <1>7, <1>8, <1>9, <1>10,
     EditKeeps, CloseKeeps, ReopenKeeps, RaiseKeeps, ApproveKeeps DEF Next

(* One live claim per staff member and source month (OneActiveRequest), for *)
(* any number of staff, months, sessions and calls and however the calls    *)
(* overlap: the select of raise_request and _decide does not look again,    *)
(* the unique index on active requests does.                                *)
THEOREM ClaimsAreSingle == Spec => []OneActiveRequest
<1>1. Init => ClaimsInv
  BY InitClaims
<1>2. ClaimsInv /\ [Next]_vars => ClaimsInv'
  BY ClaimsStep
<1>3. ClaimsInv => OneActiveRequest
  BY ClaimsImplyOneActive
<1> QED BY <1>1, <1>2, <1>3, PTL DEF Spec

-----------------------------------------------------------------------------
(* The days that approved requests move.                                    *)

Approved(rqs, s, m) == {i \in IndicesOf(rqs, s, m - 1) : rqs[i].status = "APPROVED"}
Days(rqs) == [i \in DOMAIN rqs |-> rqs[i].days]

LEMMA RequestsAre ==
    ASSUME NEW rqs \in Seq(Request)
    PROVE  /\ IsFiniteSet(DOMAIN rqs)
           /\ \A i \in DOMAIN rqs : rqs[i] \in Request /\ Days(rqs)[i] = rqs[i].days /\ Days(rqs)[i] \in Nat
<1>1. DOMAIN rqs = 1 .. Len(rqs) /\ Len(rqs) \in Nat
  OBVIOUS
<1>2. IsFiniteSet(1 .. Len(rqs))
  BY <1>1, FS_Interval
<1>3. ASSUME NEW i \in DOMAIN rqs
      PROVE  rqs[i] \in Request /\ Days(rqs)[i] = rqs[i].days /\ Days(rqs)[i] \in Nat
  <2>1. rqs[i] \in Request
    BY <1>1, ElementOfSeq
  <2> QED
    BY <2>1 DEF Days, Request
<1> QED
  BY <1>1, <1>2, <1>3

LEMMA MakeupIs ==
    ASSUME NEW rqs \in Seq(Request), NEW s, NEW m
    PROVE  /\ IsFiniteSet(Approved(rqs, s, m)) /\ Approved(rqs, s, m) \subseteq DOMAIN rqs
           /\ Makeup(rqs, s, m) = Total(Days(rqs), Approved(rqs, s, m)) /\ Makeup(rqs, s, m) \in Nat
<1> PICK A : A = Approved(rqs, s, m)
  OBVIOUS
<1> PICK f : f = [i \in A |-> rqs[i].days]
  OBVIOUS
<1>1. A \subseteq DOMAIN rqs /\ IsFiniteSet(A)
  <2>1. A \subseteq DOMAIN rqs
    BY DEF Approved, IndicesOf
  <2> QED
    BY <2>1, RequestsAre, FS_Subset
<1>2. Makeup(rqs, s, m) = SumFunction(f)
  BY DEF Makeup, Approved
<1>3. SumFunction(f) = Total(f, A)
  BY SumOfAll
<1>4. \A i \in A : f[i] = Days(rqs)[i] /\ Days(rqs)[i] \in Nat
  BY <1>1, RequestsAre
<1>5. Total(f, A) = Total(Days(rqs), A)
  BY <1>1, <1>4, TotalSame
<1>6. Total(Days(rqs), A) \in Nat
  BY <1>1, <1>4, TotalIsNat
<1> QED
  BY <1>1, <1>2, <1>3, <1>5, <1>6

\* Fewer approved requests move fewer days.
LEMMA MakeupShrinks ==
    ASSUME NEW rqs \in Seq(Request), NEW new \in Seq(Request), NEW s, NEW m,
           Approved(new, s, m) \subseteq Approved(rqs, s, m),
           \A i \in Approved(new, s, m) : new[i].days = rqs[i].days
    PROVE  Makeup(new, s, m) <= Makeup(rqs, s, m)
<1> PICK S, T : S = Approved(new, s, m) /\ T = Approved(rqs, s, m)
  OBVIOUS
<1> PICK f, g : f = Days(new) /\ g = Days(rqs)
  OBVIOUS
<1>1. S \subseteq DOMAIN new /\ T \subseteq DOMAIN rqs /\ IsFiniteSet(T) /\ S \in SUBSET T
  BY MakeupIs
<1>2. \A i \in T : g[i] \in Nat /\ g[i] = rqs[i].days
  BY <1>1, RequestsAre
<1>3. \A i \in S : f[i] \in Nat /\ f[i] = new[i].days
  BY <1>1, RequestsAre
<1>4. \A i \in S : f[i] \in Nat /\ f[i] <= g[i]
  BY <1>1, <1>2, <1>3
<1>5. Total(f, S) <= Total(g, T)
  BY <1>1, <1>2, <1>4, TotalGrows
<1> QED
  BY <1>5, MakeupIs

LEMMA MakeupSame ==
    ASSUME NEW rqs \in Seq(Request), NEW new \in Seq(Request), NEW s, NEW m,
           Approved(new, s, m) = Approved(rqs, s, m),
           \A i \in Approved(new, s, m) : new[i].days = rqs[i].days
    PROVE  Makeup(new, s, m) = Makeup(rqs, s, m)
<1>1. Makeup(new, s, m) <= Makeup(rqs, s, m)
  BY MakeupShrinks
<1>2. Makeup(rqs, s, m) <= Makeup(new, s, m)
  BY MakeupShrinks
<1> QED
  BY <1>1, <1>2, MakeupIs

\* One more approved request moves its days too.
LEMMA MakeupGrows ==
    ASSUME NEW rqs \in Seq(Request), NEW new \in Seq(Request), NEW s, NEW m, NEW i,
           i \notin Approved(rqs, s, m), Approved(new, s, m) = Approved(rqs, s, m) \cup {i},
           \A j \in Approved(new, s, m) : new[j].days = rqs[j].days
    PROVE  Makeup(new, s, m) = Makeup(rqs, s, m) + new[i].days
<1> PICK S, T : S = Approved(new, s, m) /\ T = Approved(rqs, s, m)
  OBVIOUS
<1> PICK f, g : f = Days(new) /\ g = Days(rqs)
  OBVIOUS
<1>1. S \subseteq DOMAIN new /\ T \subseteq DOMAIN rqs /\ IsFiniteSet(T) /\ S = T \cup {i} /\ i \notin T
  BY MakeupIs
<1>2. \A j \in T : g[j] \in Nat /\ g[j] = rqs[j].days
  BY <1>1, RequestsAre
<1>3. \A j \in S : f[j] \in Nat /\ f[j] \in Int /\ f[j] = new[j].days
  BY <1>1, RequestsAre
<1>4. \A j \in T : f[j] = g[j]
  BY <1>1, <1>2, <1>3
<1>5. Total(f, S) = Total(f, T) + f[i]
  BY <1>1, <1>3, TotalOneMore
<1>6. Total(f, T) = Total(g, T)
  BY <1>1, <1>4, TotalSame
<1> QED
  BY <1>1, <1>3, <1>5, <1>6, MakeupIs

\* What expiry leaves of a request.
LEMMA ExpiredIs ==
    ASSUME NEW rqs \in Seq(Request), NEW snapshots, NEW sources, NEW new, new = Expired(rqs, snapshots, sources)
    PROVE  /\ DOMAIN new = DOMAIN rqs /\ new \in Seq(Request)
           /\ \A i \in DOMAIN rqs :
                 /\ new[i].staff = rqs[i].staff /\ new[i].source = rqs[i].source /\ new[i].days = rqs[i].days
                 /\ IF rqs[i].source \in sources /\ rqs[i].status \in Active /\ Covered(snapshots, rqs[i])
                    THEN new[i].status = "EXPIRED" ELSE new[i].status = rqs[i].status
<1>1. DOMAIN new = DOMAIN rqs
  BY DEF Expired
<1>2. ASSUME NEW i \in DOMAIN rqs
      PROVE  /\ new[i] \in Request
             /\ new[i].staff = rqs[i].staff /\ new[i].source = rqs[i].source /\ new[i].days = rqs[i].days
             /\ IF rqs[i].source \in sources /\ rqs[i].status \in Active /\ Covered(snapshots, rqs[i])
                THEN new[i].status = "EXPIRED" ELSE new[i].status = rqs[i].status
  <2>1. rqs[i] \in Request
    BY RequestsAre
  <2>2. CASE rqs[i].source \in sources /\ rqs[i].status \in Active /\ Covered(snapshots, rqs[i])
    <3>1. new[i] = [rqs[i] EXCEPT !.status = "EXPIRED"]
      BY <2>2 DEF Expired
    <3> QED
      BY <2>1, <2>2, <3>1 DEF Request, Statuses
  <2>3. CASE ~ (rqs[i].source \in sources /\ rqs[i].status \in Active /\ Covered(snapshots, rqs[i]))
    <3>1. new[i] = rqs[i]
      BY <2>3 DEF Expired
    <3> QED
      BY <2>1, <2>3, <3>1
  <2> QED
    BY <2>2, <2>3
<1>3. new \in Seq(Request)
  <2>1. DOMAIN rqs = 1 .. Len(rqs) /\ Len(rqs) \in Nat
    OBVIOUS
  <2>2. new = [j \in 1 .. Len(rqs) |-> new[j]]
    BY <2>1 DEF Expired
  <2>3. \A j \in 1 .. Len(rqs) : new[j] \in Request
    BY <1>2, <2>1
  <2> QED
    BY ONLY <2>1, <2>2, <2>3, SequenceOf
<1> QED
  BY <1>1, <1>2, <1>3

LEMMA ExpiryMovesLess ==
    ASSUME NEW rqs \in Seq(Request), NEW snapshots, NEW sources, NEW s, NEW m
    PROVE  Makeup(Expired(rqs, snapshots, sources), s, m) <= Makeup(rqs, s, m)
<1> PICK new : new = Expired(rqs, snapshots, sources)
  OBVIOUS
<1>1. /\ DOMAIN new = DOMAIN rqs /\ new \in Seq(Request)
      /\ \A i \in DOMAIN rqs :
            /\ new[i].staff = rqs[i].staff /\ new[i].source = rqs[i].source /\ new[i].days = rqs[i].days
            /\ new[i].status = "APPROVED" => rqs[i].status = "APPROVED"
  BY ExpiredIs
<1>2. Approved(new, s, m) \subseteq Approved(rqs, s, m)
  BY <1>1 DEF Approved, IndicesOf
<1>3. \A i \in Approved(new, s, m) : new[i].days = rqs[i].days
  BY <1>1 DEF Approved, IndicesOf
<1> QED
  BY <1>1, <1>2, <1>3, MakeupShrinks

\* An approved request goes only when nothing of its month is deferred.
LEMMA ExpiryDefersNone ==
    ASSUME NEW rqs \in Seq(Request), NEW snapshots, NEW sources, NEW s, NEW m \in Months,
           m \in DOMAIN snapshots[s], snapshots[s][m].deferred \in Nat,
           snapshots[s][m].deferred <= Makeup(rqs, s, m + 1)
    PROVE  snapshots[s][m].deferred <= Makeup(Expired(rqs, snapshots, sources), s, m + 1)
<1> PICK new : new = Expired(rqs, snapshots, sources)
  OBVIOUS
<1> PICK d : d = snapshots[s][m].deferred
  OBVIOUS
<1> PICK k : k = m + 1
  OBVIOUS
<1>1. /\ DOMAIN new = DOMAIN rqs /\ new \in Seq(Request)
      /\ \A i \in DOMAIN rqs :
            /\ new[i].staff = rqs[i].staff /\ new[i].source = rqs[i].source /\ new[i].days = rqs[i].days
            /\ IF rqs[i].source \in sources /\ rqs[i].status \in Active /\ Covered(snapshots, rqs[i])
               THEN new[i].status = "EXPIRED" ELSE new[i].status = rqs[i].status
  BY ExpiredIs
<1>2. k - 1 = m
  BY DEF Months
<1>3. Makeup(new, s, k) \in Nat
  BY <1>1, MakeupIs
<1>4. CASE \E i \in Approved(rqs, s, k) : Covered(snapshots, rqs[i])
  <2> PICK i \in Approved(rqs, s, k) : Covered(snapshots, rqs[i])
    BY <1>4
  <2>1. rqs[i].staff = s /\ rqs[i].source = m
    BY <1>2 DEF Approved, IndicesOf
  <2>2. d <= 0
    BY <2>1 DEF Covered
  <2> QED
    BY <1>3, <2>2
<1>5. CASE ~ \E i \in Approved(rqs, s, k) : Covered(snapshots, rqs[i])
  <2>1. \A i \in Approved(rqs, s, k) : i \in DOMAIN rqs /\ new[i].status = "APPROVED"
    BY <1>1, <1>5 DEF Approved, IndicesOf
  <2>2. \A i \in DOMAIN rqs : new[i].status = "APPROVED" => rqs[i].status = "APPROVED"
    BY <1>1
  <2>3. Approved(new, s, k) = Approved(rqs, s, k)
    BY <1>1, <2>1, <2>2 DEF Approved, IndicesOf
  <2>4. \A i \in Approved(new, s, k) : new[i].days = rqs[i].days
    BY <1>1, <2>1, <2>3
  <2> QED
    BY <1>1, <2>3, <2>4, MakeupSame
<1> QED
  BY <1>4, <1>5

-----------------------------------------------------------------------------
(* Booking a month, and every later one.                                    *)

\* The balances there can be: any while they may be negative.
Balances == {n \in Int : AllowNegative \/ n \in 0 .. Cap}
LedgerRows == RowsOver(Months, Balances)
Snaps == UNION {[D -> Snapshot] : D \in SUBSET Months}
Sound(account) == account.rows \in Seq(LedgerRows) /\ account.snap \in Snaps
Lifecycles == Finalised \cup {"NONE", "OPEN"}

BooksOK(b) ==
    /\ b.lifecycle \in [Months -> Lifecycles]
    /\ b.required \in [Months -> Nat] /\ b.holidays \in [Months -> SUBSET Dates]
    /\ b.requests \in Seq(Request)

Attendance == attended \in [Staff -> [Months -> SUBSET Dates]]

LEMMA SnapIs ==
    ASSUME NEW f \in Snaps
    PROVE  /\ DOMAIN f \subseteq Months /\ \A k \in DOMAIN f : f[k] \in Snapshot
           /\ f = [k \in DOMAIN f |-> f[k]]
<1> PICK D \in SUBSET Months : f \in [D -> Snapshot]
  BY DEF Snaps
<1> QED
  OBVIOUS

LEMMA IsSnap ==
    ASSUME NEW D \in SUBSET Months, NEW f, f = [k \in D |-> f[k]], \A k \in D : f[k] \in Snapshot
    PROVE  f \in Snaps
<1>1. f \in [D -> Snapshot]
  OBVIOUS
<1> QED
  BY <1>1 DEF Snaps

LEMMA NetIs ==
    ASSUME Attendance, NEW b, BooksOK(b), NEW s \in Staff, NEW m \in Months
    PROVE  Net(b, s, m) \in Int /\ Makeup(b.requests, s, m) \in Nat /\ b.required[m] \in Nat
<1>1. Makeup(b.requests, s, m) \in Nat /\ b.required[m] \in Nat
  BY MakeupIs DEF BooksOK
<1>2. b.holidays[m] \subseteq Dates /\ attended[s][m] \subseteq Dates
  BY DEF BooksOK, Attendance
<1>3. \A S \in SUBSET Dates : IsFiniteSet(S) /\ Cardinality(S) \in Nat
  BY FS_Subset, FS_CardinalityType, PayrollAssumption
<1>4. Cardinality(b.holidays[m]) \in Nat
  BY <1>2, <1>3
<1>5. EffectiveRequired(b, s, m) \in Int
  BY <1>1, <1>4 DEF EffectiveRequired, Most
<1>6. Credited(b, s, m) \in Nat
  <2> PICK S : S = attended[s][m] \cup IF HolidayTreatment = "credited" THEN b.holidays[m] ELSE {}
    OBVIOUS
  <2>1. S \in SUBSET Dates
    BY <1>2
  <2>2. Credited(b, s, m) = Cardinality(S)
    BY DEF Credited
  <2> QED
    BY <1>3, <2>1, <2>2
<1> QED
  BY <1>1, <1>5, <1>6 DEF Net

LEMMA MovementLeaves ==
    ASSUME NEW net \in Int, NEW balance \in Int, NEW mv,
           mv = ApplyBalance(net, balance, Cap, AllowNegative)
    PROVE  mv.uncovered \in Nat /\ mv.out \in Int
<1>1. Cap \in Nat /\ AllowNegative \in BOOLEAN
  BY PayrollAssumption
<1>2. CASE net > 0
  BY <1>1, <1>2 DEF ApplyBalance, ExtraMovement, Unmoved, Least, Most
<1>3. CASE net < 0
  BY <1>1, <1>3 DEF ApplyBalance, ShortfallMovement, Unmoved, Least
<1>4. CASE net = 0
  BY <1>1, <1>4 DEF ApplyBalance, Unmoved
<1> QED
  BY <1>2, <1>3, <1>4

\* The rows a month appends keep the balances in range.
LEMMA RowsBooked ==
    ASSUME NEW m \in Months, NEW net \in Int, NEW rows \in Seq(LedgerRows), NEW reverse \in BOOLEAN,
           NEW in, in = BalanceBefore(rows, m), NEW mv, mv = ApplyBalance(net, in, Cap, AllowNegative)
    PROVE  /\ in \in Int
           /\ rows \o (IF reverse THEN ReverseTo(rows, m, in) ELSE <<>>) \o ApplyComputation(m, in, mv)
                  \in Seq(LedgerRows)
<1>1. Cap \in Nat /\ AllowNegative \in BOOLEAN /\ Balances \subseteq Int /\ 0 \in Balances
  BY PayrollAssumption DEF Balances
<1>2. in \in Balances
  BY <1>1, BalanceBeforeIn DEF LedgerRows
<1>3. mv.added \in Nat /\ mv.trimmed \in Nat /\ mv.used \in Int
  BY <1>1, <1>2, MovementType
<1>4. /\ mv.added > 0 \/ mv.trimmed > 0 => in + mv.added \in Balances
      /\ mv.used > 0 => in + mv.added - mv.used \in Balances
  <2>1. CASE AllowNegative
    <3>1. \A n \in Int : n \in Balances
      BY <2>1 DEF Balances
    <3>2. in \in Int
      BY <1>1, <1>2
    <3>3. in + mv.added \in Int /\ in + mv.added - mv.used \in Int
      BY ONLY <1>3, <3>2
    <3> QED
      BY ONLY <3>1, <3>3
  <2>2. CASE ~ AllowNegative
    <3>1. in \in Nat /\ in <= Cap
      BY <1>1, <1>2, <2>2 DEF Balances
    <3>2. /\ mv.added > 0 => in + mv.added <= Cap
          /\ mv.used > 0 => mv.added = 0 /\ mv.used <= in
      BY <1>1, <2>2, <3>1, MovementRange
    <3> QED
      BY <1>1, <1>3, <3>1, <3>2 DEF Balances
  <2> QED
    BY <2>1, <2>2
<1> PICK back : back = IF reverse THEN ReverseTo(rows, m, in) ELSE <<>>
  OBVIOUS
<1>5. back \in Seq(RowsOver({m}, Balances))
  <2>1. ReverseTo(rows, m, in) \in Seq(RowsOver({m}, Balances))
    BY <1>1, <1>2, ReverseToRows DEF LedgerRows
  <2>2. <<>> \in Seq(RowsOver({m}, Balances))
    OBVIOUS
  <2> QED
    BY <2>1, <2>2
<1>6. ApplyComputation(m, in, mv) \in Seq(RowsOver({m}, Balances))
  BY <1>1, <1>2, <1>3, <1>4, ApplyComputationRows
<1>7. rows \o back \in Seq(LedgerRows)
  BY <1>5, RowsWiden DEF LedgerRows
<1>8. rows \o back \o ApplyComputation(m, in, mv) \in Seq(LedgerRows)
  BY <1>6, <1>7, RowsWiden DEF LedgerRows
<1> QED
  BY <1>1, <1>2, <1>8

\* What booking month m makes of the snapshots.
Written(after, before, b, s, m) ==
    /\ DOMAIN after = DOMAIN before \cup {m}
    /\ \A k \in DOMAIN before \ {m} : after[k] = before[k]
    /\ after[m].required = b.required[m] /\ after[m].makeup = Makeup(b.requests, s, m)
    /\ after[m].deferred = IF m \in DOMAIN before THEN before[m].deferred ELSE 0

LEMMA BookMonthIs ==
    ASSUME Attendance, NEW b, BooksOK(b), NEW s \in Staff, NEW m \in Months, NEW account, Sound(account),
           NEW reverse \in BOOLEAN, NEW state \in Finalised,
           NEW new, new = BookMonth(b, s, m, account, reverse, state)
    PROVE  Sound(new) /\ Written(new.snap, account.snap, b, s, m)
<1> PICK in : in = BalanceBefore(account.rows, m)
  OBVIOUS
<1> PICK mv : mv = ApplyBalance(Net(b, s, m), in, Cap, AllowNegative)
  OBVIOUS
<1> PICK row : row = SnapshotFor(b, s, m, in, mv, state, account.snap)
  OBVIOUS
<1> PICK old : old = account.snap
  OBVIOUS
<1> PICK rows : rows = account.rows
  OBVIOUS
<1>1. /\ new.rows = rows \o (IF reverse THEN ReverseTo(rows, m, in) ELSE <<>>) \o ApplyComputation(m, in, mv)
      /\ new.snap = WithSnapshot(old, m, row)
  BY DEF BookMonth
<1>2. Net(b, s, m) \in Int /\ Makeup(b.requests, s, m) \in Nat /\ b.required[m] \in Nat
  BY NetIs
<1>3. rows \in Seq(LedgerRows) /\ old \in Snaps
  BY DEF Sound
<1>4. in \in Int /\ new.rows \in Seq(LedgerRows)
  BY <1>1, <1>2, <1>3, RowsBooked
<1>5. mv.uncovered \in Nat /\ mv.out \in Int
  BY <1>2, <1>4, MovementLeaves
<1>6. /\ row.required = b.required[m] /\ row.makeup = Makeup(b.requests, s, m) /\ row.lifecycle = state
      /\ row.in = in /\ row.out = mv.out /\ row.uncovered = mv.uncovered
      /\ row.shortfall = Most(0, -Net(b, s, m))
      /\ row.deferred = IF m \in DOMAIN old THEN old[m].deferred ELSE 0
      /\ row = [required |-> row.required, makeup |-> row.makeup, in |-> row.in, out |-> row.out,
                shortfall |-> row.shortfall, uncovered |-> row.uncovered, deferred |-> row.deferred,
                lifecycle |-> row.lifecycle]
  BY DEF SnapshotFor
<1>7. DOMAIN old \subseteq Months /\ \A k \in DOMAIN old : old[k] \in Snapshot
  BY <1>3, SnapIs
<1>8. row \in Snapshot
  <2>1. Most(0, -Net(b, s, m)) \in Nat
    BY <1>2 DEF Most
  <2>2. row.deferred \in Nat
    BY <1>6, <1>7 DEF Snapshot
  <2> QED
    BY ONLY <1>2, <1>4, <1>5, <1>6, <2>1, <2>2, state \in Finalised DEF Snapshot
<1> PICK after : after = WithSnapshot(old, m, row)
  OBVIOUS
<1>9. /\ DOMAIN after = DOMAIN old \cup {m} /\ after[m] = row
      /\ \A k \in DOMAIN old \ {m} : after[k] = old[k]
      /\ after = [k \in DOMAIN after |-> after[k]]
  BY DEF WithSnapshot
<1>10. after \in Snaps
  <2>1. DOMAIN after \in SUBSET Months /\ \A k \in DOMAIN after : after[k] \in Snapshot
    BY <1>7, <1>8, <1>9
  <2> QED
    BY ONLY <1>9, <2>1, IsSnap
<1>11. Written(after, old, b, s, m)
  BY <1>6, <1>9 DEF Written
<1> QED
  BY <1>1, <1>4, <1>10, <1>11 DEF Sound

\* Month k of the loop of recompute_from, from what the months before left.
MonthOf(b, s, m, account, g, k) ==
    IF k < m THEN account
    ELSE IF b.lifecycle[k] \in Finalised
      THEN BookMonth(b, s, k, g[k - 1], TRUE, b.lifecycle[k])
      ELSE g[k - 1]

After(b, s, m, account) ==
    CHOOSE g : g = [k \in (m - 1) .. LastMonth |-> MonthOf(b, s, m, account, g, k)]

\* The loop has a result: a recursive function over the months exists.
LEMMA AfterIs ==
    ASSUME NEW b, NEW s, NEW m \in Months, NEW account
    PROVE  After(b, s, m, account)
             = [k \in (m - 1) .. LastMonth |-> MonthOf(b, s, m, account, After(b, s, m, account), k)]
<1> DEFINE D == (m - 1) .. LastMonth
           F(g, k) == MonthOf(b, s, m, account, g, k)
           Good(g, n) == \A k \in D : k <= n => g[k] = F(g, k)
           N == {n \in Nat : \E g : Good(g, n)}
<1>0. LastMonth \in Nat /\ m \in Nat /\ m >= 1
  BY PayrollAssumption DEF Months
<1>1. 0 \in N
  <2> PICK g : g = [k \in D |-> account]
    OBVIOUS
  <2>1. ASSUME NEW k \in D, k <= 0 PROVE g[k] = F(g, k)
    <3>1. k < m /\ g[k] = account
      BY <1>0, <2>1
    <3> QED
      BY <3>1 DEF MonthOf
  <2> HIDE DEF F, D
  <2> QED
    BY <2>1
<1>2. ASSUME NEW g, NEW h, NEW k \in D, k >= m => g[k - 1] = h[k - 1]
      PROVE  F(g, k) = F(h, k)
  <2> PICK p : p = k - 1
    OBVIOUS
  <2>1. CASE k < m
    BY <2>1 DEF MonthOf
  <2>2. CASE ~ (k < m)
    <3>1. g[p] = h[p]
      BY <1>0, <1>2, <2>2
    <3> QED
      BY <2>2, <3>1 DEF MonthOf
  <2> QED
    BY <2>1, <2>2
<1>3. ASSUME NEW n \in Nat, NEW g, Good(g, n)
      PROVE  Good([k \in D |-> F(g, k)], n + 1)
  <2> PICK h : h = [k \in D |-> F(g, k)]
    OBVIOUS
  <2>1. ASSUME NEW k \in D, k <= n + 1 PROVE h[k] = F(h, k)
    <3>1. h[k] = F(g, k)
      OBVIOUS
    <3>2. ASSUME k >= m PROVE g[k - 1] = h[k - 1]
      <4>1. k - 1 \in D /\ k - 1 <= n
        BY <1>0, <2>1, <3>2
      <4> HIDE DEF D, F
      <4>2. h[k - 1] = F(g, k - 1)
        BY <4>1
      <4>3. g[k - 1] = F(g, k - 1)
        BY <1>3, <4>1
      <4> QED
        BY <4>2, <4>3
    <3> HIDE DEF F, D
    <3>3. F(g, k) = F(h, k)
      BY <1>2, <3>2
    <3> QED
      BY <3>1, <3>3
  <2> HIDE DEF F, D
  <2> QED
    BY <2>1
<1>4. LastMonth \in N
  <2>1. ASSUME NEW n \in N PROVE n + 1 \in N
    <3>1. PICK g : Good(g, n)
      OBVIOUS
    <3>2. Good([k \in D |-> F(g, k)], n + 1)
      BY <1>3, <3>1
    <3> HIDE DEF Good
    <3> QED
      BY <3>2
  <2> HIDE DEF N
  <2>2. N \in SUBSET Nat
    BY DEF N
  <2> QED
    BY <1>0, <1>1, <2>1, <2>2, AllNumbers
<1>5. PICK g : Good(g, LastMonth)
  BY <1>4
<1>6. \A k \in D : g[k] = F(g, k)
  BY <1>0, <1>5
<1> PICK h : h = [k \in D |-> F(g, k)]
  OBVIOUS
<1>7. \A k \in D : h[k] = g[k]
  <2> HIDE DEF F, D
  <2> QED
    BY <1>6
<1>8. \A k \in D : F(h, k) = F(g, k)
  <2>1. ASSUME NEW k \in D PROVE F(h, k) = F(g, k)
    <3>1. ASSUME k >= m PROVE h[k - 1] = g[k - 1]
      <4>1. k - 1 \in D
        BY <1>0, <3>1
      <4> HIDE DEF D
      <4> QED
        BY <4>1, <1>7
    <3> HIDE DEF F, D
    <3> QED
      BY <1>2, <3>1
  <2> HIDE DEF F, D
  <2> QED
    BY <2>1
<1>9. h = [k \in D |-> F(h, k)]
  <2> HIDE DEF F
  <2> QED
    BY <1>8
<1> QED
  BY <1>9, Zenon DEF After

LEMMA RecomputedAtLast ==
    ASSUME NEW b, NEW s, NEW m \in Months, NEW account
    PROVE  RecomputedFrom(b, s, m, account) = After(b, s, m, account)[LastMonth]
BY DEF RecomputedFrom, After, MonthOf

\* What the months m to k of a recompute make of the snapshots.
Threaded(after, before, b, s, m, k) ==
    /\ DOMAIN after = DOMAIN before \cup {j \in m .. k : b.lifecycle[j] \in Finalised}
    /\ \A j \in DOMAIN after : after[j].deferred = IF j \in DOMAIN before THEN before[j].deferred ELSE 0
    /\ \A j \in m .. k : b.lifecycle[j] \in Finalised =>
          after[j].required = b.required[j] /\ after[j].makeup = Makeup(b.requests, s, j)
    /\ \A j \in DOMAIN before : j \notin m .. k \/ b.lifecycle[j] \notin Finalised => after[j] = before[j]

LEMMA ThreadedFurther ==
    ASSUME NEW b, NEW s, NEW m \in Months, NEW k \in Months, m <= k, NEW p, p = k - 1,
           NEW before \in Snaps, NEW mid \in Snaps, NEW after,
           Threaded(mid, before, b, s, m, p),
           IF b.lifecycle[k] \in Finalised THEN Written(after, mid, b, s, k) ELSE after = mid
    PROVE  Threaded(after, before, b, s, m, k)
<1>0. m \in Nat /\ k \in Nat /\ p \in Nat /\ k = p + 1 /\ LastMonth \in Nat
  BY PayrollAssumption DEF Months
<1>1. m .. k = (m .. p) \cup {k} /\ k \notin m .. p
  BY <1>0
<1>2. DOMAIN before \subseteq Months /\ DOMAIN mid \subseteq Months
  BY SnapIs
<1>3. CASE b.lifecycle[k] \in Finalised
  <2>1. Written(after, mid, b, s, k)
    BY <1>3
  <2>2. {j \in m .. k : b.lifecycle[j] \in Finalised} = {j \in m .. p : b.lifecycle[j] \in Finalised} \cup {k}
    BY <1>1, <1>3
  <2>3. DOMAIN after = DOMAIN before \cup {j \in m .. k : b.lifecycle[j] \in Finalised}
    BY <2>1, <2>2 DEF Written, Threaded
  <2>4. \A j \in DOMAIN after : after[j].deferred = IF j \in DOMAIN before THEN before[j].deferred ELSE 0
    <3>1. ASSUME NEW j \in DOMAIN after, j # k
          PROVE  after[j].deferred = IF j \in DOMAIN before THEN before[j].deferred ELSE 0
      BY <2>1, <3>1 DEF Written, Threaded
    <3>2. after[k].deferred = IF k \in DOMAIN before THEN before[k].deferred ELSE 0
      <4>1. CASE k \in DOMAIN before
        BY <2>1, <4>1 DEF Written, Threaded
      <4>2. CASE k \notin DOMAIN before
        <5>1. k \notin DOMAIN mid
          BY <1>1, <4>2 DEF Threaded
        <5> QED
          BY <2>1, <4>2, <5>1 DEF Written
      <4> QED
        BY <4>1, <4>2
    <3> QED
      BY <3>1, <3>2
  <2>5. ASSUME NEW j \in m .. k, b.lifecycle[j] \in Finalised
        PROVE  after[j].required = b.required[j] /\ after[j].makeup = Makeup(b.requests, s, j)
    <3>1. CASE j = k
      BY <2>1, <3>1 DEF Written
    <3>2. CASE j # k
      <4>1. j \in m .. p
        BY <1>1, <3>2
      <4>2. j \in DOMAIN mid /\ mid[j].required = b.required[j] /\ mid[j].makeup = Makeup(b.requests, s, j)
        BY <2>5, <4>1 DEF Threaded
      <4> QED
        BY <2>1, <3>2, <4>2 DEF Written
    <3> QED
      BY <3>1, <3>2
  <2>6. ASSUME NEW j \in DOMAIN before, j \notin m .. k \/ b.lifecycle[j] \notin Finalised
        PROVE  after[j] = before[j]
    <3>1. j # k /\ (j \notin m .. p \/ b.lifecycle[j] \notin Finalised)
      BY <1>0, <1>1, <1>3, <2>6
    <3>2. j \in DOMAIN mid /\ mid[j] = before[j]
      BY <3>1 DEF Threaded
    <3> QED
      BY <2>1, <3>1, <3>2 DEF Written
  <2> QED
    BY <2>3, <2>4, <2>5, <2>6 DEF Threaded
<1>4. CASE b.lifecycle[k] \notin Finalised
  <2>1. {j \in m .. k : b.lifecycle[j] \in Finalised} = {j \in m .. p : b.lifecycle[j] \in Finalised}
    BY <1>1, <1>4
  <2>2. after = mid
    BY <1>4
  <2>3. \A j \in m .. k : b.lifecycle[j] \in Finalised => j \in m .. p
    BY <1>1, <1>4
  <2>4. \A j : j \notin m .. k => j \notin m .. p
    BY <1>1
  <2> QED
    BY <2>1, <2>2, <2>3, <2>4 DEF Threaded
<1> QED
  BY <1>3, <1>4

LEMMA RecomputedIs ==
    ASSUME Attendance, NEW b, BooksOK(b), NEW s \in Staff, NEW m \in Months, NEW account, Sound(account),
           NEW new, new = RecomputedFrom(b, s, m, account)
    PROVE  Sound(new) /\ Threaded(new.snap, account.snap, b, s, m, LastMonth)
<1> PICK g : g = After(b, s, m, account)
  OBVIOUS
<1> DEFINE Good(k) == Sound(g[k]) /\ Threaded(g[k].snap, account.snap, b, s, m, k)
           N == {n \in Nat : \A k \in (m - 1) .. LastMonth : k <= n => Good(k)}
<1>0. LastMonth \in Nat /\ m \in Nat /\ m >= 1
  BY PayrollAssumption DEF Months
<1>1. \A k \in (m - 1) .. LastMonth : g[k] = MonthOf(b, s, m, account, g, k)
  <2>1. g = [k \in (m - 1) .. LastMonth |-> MonthOf(b, s, m, account, g, k)]
    BY AfterIs
  <2> QED
    BY <2>1
<1>2. account.snap \in Snaps
  BY DEF Sound
<1>3. ASSUME NEW k \in (m - 1) .. LastMonth, k < m PROVE Good(k)
  <2>1. g[k] = account
    BY <1>1, <1>3 DEF MonthOf
  <2>2. m .. k = {}
    BY <1>0, <1>3
  <2>3. Threaded(account.snap, account.snap, b, s, m, k)
    BY <2>2 DEF Threaded
  <2> QED
    BY <2>1, <2>3
<1>4. ASSUME NEW k \in m .. LastMonth, NEW p, p = k - 1, Good(p) PROVE Good(k)
  <2>0. k \in Months /\ m <= k /\ p \in (m - 1) .. LastMonth
    BY <1>0, <1>4 DEF Months
  <2> PICK mid : mid = g[p]
    OBVIOUS
  <2>1. Sound(mid) /\ Threaded(mid.snap, account.snap, b, s, m, p) /\ mid.snap \in Snaps
    BY <1>4 DEF Sound
  <2>2. g[k] = IF b.lifecycle[k] \in Finalised THEN BookMonth(b, s, k, mid, TRUE, b.lifecycle[k]) ELSE mid
    <3>1. k \in (m - 1) .. LastMonth /\ ~ (k < m)
      BY <1>0
    <3> QED
      BY <1>1, <1>4, <3>1 DEF MonthOf
  <2> PICK new1 : new1 = g[k]
    OBVIOUS
  <2>3. CASE b.lifecycle[k] \in Finalised
    <3> PICK state : state = b.lifecycle[k]
      OBVIOUS
    <3>1. new1 = BookMonth(b, s, k, mid, TRUE, state) /\ state \in Finalised
      BY <2>2, <2>3
    <3>2. Sound(new1) /\ Written(new1.snap, mid.snap, b, s, k)
      BY <2>0, <2>1, <3>1, BookMonthIs
    <3>3. Threaded(new1.snap, account.snap, b, s, m, k)
      BY <1>2, <1>4, <2>0, <2>1, <2>3, <3>2, ThreadedFurther
    <3> QED
      BY <3>2, <3>3
  <2>4. CASE b.lifecycle[k] \notin Finalised
    <3>1. new1 = mid
      BY <2>2, <2>4
    <3>2. Threaded(new1.snap, account.snap, b, s, m, k)
      BY <1>2, <1>4, <2>0, <2>1, <2>4, <3>1, ThreadedFurther
    <3> QED
      BY <2>1, <3>1, <3>2
  <2> QED
    BY <2>3, <2>4
<1>5. 0 \in N
  <2> HIDE DEF Good
  <2> QED
    BY <1>0, <1>3
<1>6. ASSUME NEW n \in N PROVE n + 1 \in N
  <2>1. ASSUME NEW k \in (m - 1) .. LastMonth, k <= n + 1 PROVE Good(k)
    <3>1. CASE k < m
      BY <1>3, <3>1
    <3>2. CASE ~ (k < m)
      <4> PICK p : p = k - 1
        OBVIOUS
      <4>1. k \in m .. LastMonth /\ p \in (m - 1) .. LastMonth /\ p <= n
        BY <1>0, <2>1, <3>2
      <4> HIDE DEF Good
      <4>2. Good(p)
        BY <4>1
      <4> QED
        BY <4>1, <4>2, <1>4
    <3> QED
      BY <3>1, <3>2
  <2> HIDE DEF Good
  <2> QED
    BY <2>1
<1>7. \A n \in Nat : n \in N
  <2>1. N \in SUBSET Nat
    OBVIOUS
  <2> HIDE DEF N
  <2> QED
    BY <1>5, <1>6, <2>1, AllNumbers
<1>8. Good(LastMonth)
  <2>1. LastMonth \in N /\ LastMonth \in (m - 1) .. LastMonth /\ LastMonth <= LastMonth
    BY <1>0, <1>7 DEF Months
  <2> HIDE DEF Good
  <2> QED
    BY <2>1
<1>9. new = g[LastMonth]
  BY RecomputedAtLast
<1> QED
  BY <1>8, <1>9

-----------------------------------------------------------------------------
(* What the books say of the snapshots.                                     *)
Closed(b) == {m \in Months : b.lifecycle[m] \in Finalised}

\* Before month n, finalised months have absorbed what was approved.
Absorbed(b, snaps, n) ==
    \A s \in Staff : \A j \in Closed(b) : j < n =>
        /\ snaps[s][j].required = b.required[j]
        /\ snaps[s][j].makeup >= Makeup(b.requests, s, j)

MadeUp(b, snaps) ==
    \A s \in Staff : \A j \in DOMAIN snaps[s] :
        snaps[s][j].deferred <= Makeup(b.requests, s, j + 1)

Kept(b, snaps) == Absorbed(b, snaps, LastMonth + 1) /\ MadeUp(b, snaps)

LEMMA SnapshotsAre ==
    ASSUME NEW snaps \in [Staff -> Snaps], NEW s \in Staff
    PROVE  /\ snaps[s] \in Snaps /\ DOMAIN snaps[s] \subseteq Months
           /\ \A j \in DOMAIN snaps[s] : /\ snaps[s][j] \in Snapshot /\ snaps[s][j].deferred \in Nat
                                         /\ snaps[s][j].makeup \in Nat /\ snaps[s][j].required \in Nat
                                         /\ snaps[s][j].uncovered \in Nat
<1>1. snaps[s] \in Snaps
  OBVIOUS
<1>2. DOMAIN snaps[s] \subseteq Months /\ \A j \in DOMAIN snaps[s] : snaps[s][j] \in Snapshot
  BY <1>1, SnapIs
<1> QED
  BY <1>1, <1>2 DEF Snapshot

\* The recomputes of all staff.
LEMMA AllRecomputed ==
    ASSUME Attendance, NEW b, BooksOK(b), NEW m \in Months,
           NEW snaps \in [Staff -> Snaps], NEW rows \in [Staff -> Seq(LedgerRows)],
           NEW accounts,
           \A s \in Staff :
               accounts[s] = RecomputedFrom(b, s, m, [rows |-> rows[s], snap |-> snaps[s]])
    PROVE  \A s \in Staff :
              /\ accounts[s].snap \in Snaps /\ accounts[s].rows \in Seq(LedgerRows)
              /\ Threaded(accounts[s].snap, snaps[s], b, s, m, LastMonth)
<1>1. ASSUME NEW s \in Staff
      PROVE  /\ accounts[s].snap \in Snaps /\ accounts[s].rows \in Seq(LedgerRows)
             /\ Threaded(accounts[s].snap, snaps[s], b, s, m, LastMonth)
  <2> PICK account : account = [rows |-> rows[s], snap |-> snaps[s]]
    OBVIOUS
  <2> PICK new : new = RecomputedFrom(b, s, m, account)
    OBVIOUS
  <2>1. Sound(account) /\ account.snap = snaps[s]
    BY DEF Sound
  <2>2. Sound(new) /\ Threaded(new.snap, account.snap, b, s, m, LastMonth)
    BY <2>1, RecomputedIs
  <2>3. accounts[s] = new
    OBVIOUS
  <2> QED
    BY <2>1, <2>2, <2>3 DEF Sound
<1> QED
  BY <1>1

\* A recompute from month m leaves every later month right.
LEMMA ThreadedKeeps ==
    ASSUME NEW b, BooksOK(b), NEW m \in Months, NEW snaps \in [Staff -> Snaps], NEW after \in [Staff -> Snaps],
           \A s \in Staff : Threaded(after[s], snaps[s], b, s, m, LastMonth),
           \A s \in Staff : Closed(b) \subseteq DOMAIN snaps[s],
           Absorbed(b, snaps, m), MadeUp(b, snaps)
    PROVE  Kept(b, after)
<1>0. LastMonth \in Nat /\ m \in Nat /\ m >= 1
  BY PayrollAssumption DEF Months
<1>1. ASSUME NEW s \in Staff, NEW j \in Closed(b)
      PROVE  /\ after[s][j].required = b.required[j] /\ after[s][j].makeup >= Makeup(b.requests, s, j)
  <2>0. j \in Months /\ j \in Nat /\ b.lifecycle[j] \in Finalised /\ Makeup(b.requests, s, j) \in Nat
    BY MakeupIs DEF Closed, Months, BooksOK
  <2>1. CASE j < m
    <3>1. j \in DOMAIN snaps[s] /\ j \notin m .. LastMonth
      BY <2>1, <1>0
    <3>2. after[s][j] = snaps[s][j]
      BY <3>1 DEF Threaded
    <3> QED
      BY <2>1, <3>2 DEF Absorbed
  <2>2. CASE ~ (j < m)
    <3>1. j \in m .. LastMonth
      BY <2>0, <2>2, <1>0 DEF Months
    <3>2. after[s][j].required = b.required[j] /\ after[s][j].makeup = Makeup(b.requests, s, j)
      BY <2>0, <3>1 DEF Threaded
    <3> QED
      BY <2>0, <3>2
  <2> QED
    BY <2>1, <2>2
<1>2. ASSUME NEW s \in Staff, NEW j \in DOMAIN after[s]
      PROVE  after[s][j].deferred <= Makeup(b.requests, s, j + 1)
  <2>1. after[s][j].deferred = IF j \in DOMAIN snaps[s] THEN snaps[s][j].deferred ELSE 0
    BY DEF Threaded
  <2>2. Makeup(b.requests, s, j + 1) \in Nat
    BY MakeupIs DEF BooksOK
  <2>3. CASE j \in DOMAIN snaps[s]
    BY <2>1, <2>3 DEF MadeUp
  <2>4. CASE j \notin DOMAIN snaps[s]
    BY <2>1, <2>2, <2>4
  <2> QED
    BY <2>3, <2>4
<1> QED
  BY <1>1, <1>2 DEF Kept, Absorbed, MadeUp

\* What expires leaves the books right, and what stays pending is not covered.
LEMMA ExpiryKeepsBooks ==
    ASSUME NEW b, BooksOK(b), NEW snaps \in [Staff -> Snaps],
           \A s \in Staff : Closed(b) \subseteq DOMAIN snaps[s],
           NEW sources, Kept(b, snaps),
           NEW c, c.lifecycle = b.lifecycle, c.required = b.required,
           c.requests = Expired(b.requests, snaps, sources)
    PROVE  Kept(c, snaps)
<1> PICK rqs : rqs = b.requests
  OBVIOUS
<1>0. rqs \in Seq(Request) /\ c.requests = Expired(rqs, snaps, sources) /\ Closed(c) = Closed(b)
  BY DEF BooksOK, Closed
<1>1. ASSUME NEW s \in Staff, NEW j \in Closed(b), j < LastMonth + 1
      PROVE  snaps[s][j].required = c.required[j] /\ snaps[s][j].makeup >= Makeup(c.requests, s, j)
  <2>1. snaps[s][j].required = b.required[j] /\ snaps[s][j].makeup >= Makeup(rqs, s, j)
    BY <1>1 DEF Kept, Absorbed
  <2>2. Makeup(c.requests, s, j) <= Makeup(rqs, s, j)
    BY <1>0, ExpiryMovesLess
  <2>3. c.requests \in Seq(Request)
    BY <1>0, ExpiredIs
  <2>4. Makeup(c.requests, s, j) \in Nat /\ Makeup(rqs, s, j) \in Nat
    BY <1>0, <2>3, MakeupIs
  <2>5. snaps[s][j].makeup \in Nat
    BY SnapshotsAre
  <2> QED
    BY <2>1, <2>2, <2>4, <2>5
<1>2. ASSUME NEW s \in Staff, NEW j \in DOMAIN snaps[s]
      PROVE  snaps[s][j].deferred <= Makeup(c.requests, s, j + 1)
  <2>1. j \in Months /\ snaps[s][j].deferred \in Nat
    BY SnapshotsAre
  <2>2. snaps[s][j].deferred <= Makeup(rqs, s, j + 1)
    BY DEF Kept, MadeUp
  <2> QED
    BY <1>0, <2>1, <2>2, ExpiryDefersNone
<1> QED
  BY <1>0, <1>1, <1>2 DEF Kept, Absorbed, MadeUp

LEMMA PendingIsUncovered ==
    ASSUME NEW b, BooksOK(b), OneClaim(b.requests), NEW snaps \in [Staff -> Snaps],
           NEW sources, MadeUp(b, snaps),
           NEW new, new = Expired(b.requests, snaps, sources), NEW i \in DOMAIN new,
           new[i].source \in sources, new[i].source \in DOMAIN snaps[new[i].staff],
           snaps[new[i].staff][new[i].source].uncovered = 0
    PROVE  new[i].status # "PENDING"
<1> SUFFICES ASSUME new[i].status = "PENDING" PROVE FALSE
  OBVIOUS
<1> PICK rqs, rq : rqs = b.requests /\ rq = rqs[i]
  OBVIOUS
<1> PICK s, m, k : s = rq.staff /\ m = rq.source /\ k = m + 1
  OBVIOUS
<1>0. rqs \in Seq(Request)
  BY DEF BooksOK
<1>1. /\ i \in DOMAIN rqs /\ new[i].staff = s /\ new[i].source = m
      /\ IF m \in sources /\ rq.status \in Active /\ Covered(snaps, rq)
         THEN new[i].status = "EXPIRED" ELSE new[i].status = rq.status
  BY <1>0, ExpiredIs
<1>2. rq.status = "PENDING" /\ ~ Covered(snaps, rq)
  BY <1>1 DEF Active
<1>3. s \in Staff /\ m \in Months
  <2>1. rqs[i] \in Request
    BY <1>0, <1>1, RequestsAre
  <2> QED
    BY <2>1 DEF Request
<1>4. m \in DOMAIN snaps[s] /\ snaps[s][m].uncovered = 0 /\ snaps[s][m].deferred \in Nat
  BY <1>1, <1>3, SnapshotsAre
<1>5. snaps[s][m].deferred > 0
  BY <1>2, <1>4 DEF Covered
<1>6. snaps[s][m].deferred <= Makeup(rqs, s, k)
  BY <1>3, <1>4 DEF MadeUp
<1>7. Approved(rqs, s, k) # {}
  <2> SUFFICES ASSUME Approved(rqs, s, k) = {} PROVE FALSE
    OBVIOUS
  <2>0. Makeup(rqs, s, k) = Total(Days(rqs), Approved(rqs, s, k))
    BY <1>0, MakeupIs
  <2>1. Makeup(rqs, s, k) = Total(Days(rqs), {})
    BY <2>0
  <2>2. Total(Days(rqs), {}) = 0
    BY TotalOfNone
  <2> QED
    BY <1>4, <1>5, <1>6, <2>1, <2>2
<1> PICK j \in Approved(rqs, s, k) : TRUE
  BY <1>7
<1>8. k - 1 = m
  BY <1>3 DEF Months
<1>9. j \in DOMAIN rqs /\ rqs[j].staff = s /\ rqs[j].source = m /\ rqs[j].status = "APPROVED"
  BY <1>8 DEF Approved, IndicesOf
<1>10. i = j
  BY <1>1, <1>2, <1>9 DEF OneClaim, Active
<1> QED
  BY <1>2, <1>9, <1>10

-----------------------------------------------------------------------------
(* The inductive invariant.                                                 *)

\* What a call carries is well formed, and the rows it names stay.
CallOK(c, snaps, rqs) ==
    /\ c.kind = "edit" => c.month \in Months /\ c.required \in Nat /\ c.seen \in Lifecycles
    /\ c.kind \in Verbs => c.month \in Months
    /\ c.kind = "lock" => \A s \in Staff : c.month \in DOMAIN snaps[s]
    /\ c.kind = "raise" => c.rq \in Request /\ c.rq.status = "PENDING"
    /\ c.kind \in {"approve", "reject", "cancel"} => c.index \in DOMAIN rqs

PayTyped ==
    /\ BooksOK(Books) /\ Attendance
    /\ snap \in [Staff -> Snaps] /\ ledger \in [Staff -> Seq(LedgerRows)]
    /\ \A s \in Staff : Closed(Books) \subseteq DOMAIN snap[s]
    /\ DOMAIN call = Session
    /\ \A x \in Session : CallOK(call[x], snap, requests)
    /\ overlapped \in BOOLEAN

\* What a call read of the row it writes is still so.
StillSeen(c, states, rqs) ==
    /\ c.kind = "edit" => c.seen = states[c.month]
    /\ c.kind = "lock" => states[c.month] \in Finalised
    /\ c.kind \in {"approve", "reject", "cancel"} => rqs[c.index].status = "PENDING"

PayCalm ==
    overlapped \/
        /\ \A x, y \in Session : call[x] # Idle /\ call[y] # Idle => x = y
        /\ \A x \in Session : StillSeen(call[x], lifecycle, requests)
        /\ Kept(Books, snap)

PayInv == PayTyped /\ PayCalm /\ ClaimsInv

LEMMA BooksAre ==
    /\ Books.lifecycle = lifecycle /\ Books.required = required /\ Books.holidays = holidays
    /\ Books.requests = requests
BY DEF Books

LEMMA ClosedIs == Closed(Books) = ClosedMonths
BY BooksAre DEF Closed, ClosedMonths

LEMMA PayInvHolds == PayInv => TypeOK /\ DeferralsKept
<1> SUFFICES ASSUME PayInv PROVE TypeOK /\ DeferralsKept
  OBVIOUS
<1>1. TypeOK
  <2>1. \A s \in Staff : /\ ClosedMonths \subseteq DOMAIN snap[s]
                         /\ \A m \in DOMAIN snap[s] : snap[s][m] \in Snapshot
    BY ClosedIs, SnapshotsAre DEF PayInv, PayTyped
  <2>2. BooksOK(Books)
    BY DEF PayInv, PayTyped
  <2> QED
    BY <2>1, <2>2, BooksAre DEF TypeOK, BooksOK, Lifecycles
<1>2. CASE overlapped
  BY <1>1, <1>2 DEF DeferralsKept, ApprovedAbsorbed, DeferredIsMadeUp
<1>3. CASE ~ overlapped
  <2>1. Kept(Books, snap)
    BY <1>3 DEF PayInv, PayCalm
  <2>2. \A m \in ClosedMonths : m < LastMonth + 1
    BY PayrollAssumption DEF ClosedMonths, Months
  <2>3. ApprovedAbsorbed
    BY <2>1, <2>2, ClosedIs, BooksAre DEF Kept, Absorbed, ApprovedAbsorbed
  <2>4. DeferredIsMadeUp
    BY <2>1, BooksAre DEF Kept, MadeUp, DeferredIsMadeUp
  <2> QED
    BY <1>1, <2>3, <2>4 DEF DeferralsKept
<1> QED
  BY <1>1, <1>2, <1>3

LEMMA PayStart == Init => PayInv
<1> SUFFICES ASSUME Init PROVE PayInv
  OBVIOUS
<1>1. ClaimsInv
  BY InitClaims
<1>2. BooksOK(Books)
  <2>1. lifecycle \in [Months -> Lifecycles]
    BY DEF Init, Lifecycles
  <2>3. required \in [Months -> Nat]
    <3>1. RequiredDays \cup {0} \subseteq Nat /\ required \in [Months -> RequiredDays \cup {0}]
      BY PayrollAssumption DEF Init
    <3> QED
      BY ONLY <3>1
  <2>4. holidays \in [Months -> SUBSET Dates]
    BY DEF Init
  <2>2. requests \in Seq(Request)
    BY <1>1 DEF ClaimsInv
  <2> QED
    BY <2>1, <2>2, <2>3, <2>4, BooksAre DEF BooksOK
<1>3. Closed(Books) = {}
  BY BooksAre DEF Init, Closed, Finalised
<1>4. snap \in [Staff -> Snaps] /\ \A s \in Staff : DOMAIN snap[s] = {}
  <2>1. <<>> \in [{} -> Snapshot] /\ DOMAIN <<>> = {}
    OBVIOUS
  <2>2. <<>> \in Snaps
    BY <2>1 DEF Snaps
  <2>3. snap = [s \in Staff |-> <<>>]
    BY DEF Init
  <2> QED
    BY <2>1, <2>2, <2>3
<1>5. ledger \in [Staff -> Seq(LedgerRows)]
  <2>1. <<>> \in Seq(LedgerRows) /\ ledger = [s \in Staff |-> <<>>]
    BY DEF Init
  <2> QED
    BY <2>1
<1>6. DOMAIN call = Session /\ \A x \in Session : call[x] = Idle
  BY DEF Init
<1>7. CallOK(Idle, snap, requests) /\ StillSeen(Idle, lifecycle, requests)
  BY DEF CallOK, StillSeen, Idle, Verbs
<1>8. Attendance /\ overlapped \in BOOLEAN
  BY DEF Init, Attendance
<1>9. PayTyped
  BY <1>2, <1>3, <1>4, <1>5, <1>6, <1>7, <1>8 DEF PayTyped
<1>10. Kept(Books, snap)
  BY <1>3, <1>4 DEF Kept, Absorbed, MadeUp
<1>11. PayCalm
  BY <1>6, <1>7, <1>10 DEF PayCalm
<1> QED
  BY <1>1, <1>9, <1>11 DEF PayInv

\* The rows a call names are still there, and so it is well formed still.
LEMMA CallStays ==
    ASSUME NEW c, NEW snaps, NEW after, NEW rqs, NEW new, CallOK(c, snaps, rqs),
           \A s \in Staff : DOMAIN snaps[s] \subseteq DOMAIN after[s], DOMAIN rqs \subseteq DOMAIN new
    PROVE  CallOK(c, after, new)
BY DEF CallOK

\* A call begins: it is the only one or there was another.
LEMMA BeginKeepsPay ==
    ASSUME PayInv, ClaimsInv', NEW x \in Session, NEW c, Begin(x, c), CallOK(c, snap, requests),
           StillSeen(c, lifecycle, requests)
    PROVE  PayInv'
<1>1. /\ lifecycle' = lifecycle /\ required' = required /\ holidays' = holidays /\ snap' = snap
      /\ ledger' = ledger /\ requests' = requests /\ attended' = attended
      /\ call' = [call EXCEPT ![x] = c]
      /\ overlapped' = (overlapped \/ \E y \in Session : call[y] # Idle)
  BY DEF Begin, Counted, books
<1>2. Books' = Books
  BY <1>1 DEF Books
<1>3. DOMAIN call = Session /\ \A y \in Session : CallOK(call[y], snap, requests)
  BY DEF PayInv, PayTyped
<1>4. DOMAIN call' = Session /\ \A y \in Session : CallOK(call'[y], snap, requests)
  BY <1>1, <1>3
<1>5. PayTyped'
  BY <1>1, <1>2, <1>4 DEF PayInv, PayTyped, Attendance
<1>6. ASSUME ~ overlapped' PROVE PayCalm'
  <2>1. \A y \in Session : call[y] = Idle
    BY <1>1, <1>6
  <2>2. /\ \A y \in Session : StillSeen(call[y], lifecycle, requests)
        /\ Kept(Books, snap)
    BY <1>1, <1>6 DEF PayInv, PayCalm
  <2>3. Idle = Idle /\ \A y \in Session : y # x => call'[y] = Idle
    BY <1>1, <1>3, <2>1
  <2>4. \A y \in Session : StillSeen(call'[y], lifecycle, requests)
    BY <1>1, <1>3, <2>2
  <2>5. \A y, z \in Session : call'[y] # Idle /\ call'[z] # Idle => y = z
    BY <2>3
  <2> QED
    BY <1>1, <1>2, <2>2, <2>4, <2>5 DEF PayCalm, Idle
<1>7. overlapped' => PayCalm'
  BY DEF PayCalm
<1> QED
  BY <1>5, <1>6, <1>7 DEF PayInv

\* A handler ends: what it wrote is well formed, and the books are right when
\* no two calls were under way at once.
LEMMA CommitKeepsPay ==
    ASSUME PayInv, ClaimsInv', NEW x \in Session, NEW kind, kind # "idle", Commit(x, kind),
           BooksOK(Books'), snap' \in [Staff -> Snaps], ledger' \in [Staff -> Seq(LedgerRows)],
           \A s \in Staff : Closed(Books') \subseteq DOMAIN snap'[s],
           \A s \in Staff : DOMAIN snap[s] \subseteq DOMAIN snap'[s],
           DOMAIN requests \subseteq DOMAIN requests',
           ~ overlapped => Kept(Books', snap')
    PROVE  PayInv'
<1>1. attended' = attended /\ overlapped' = overlapped /\ call' = [call EXCEPT ![x] = Idle] /\ call[x].kind = kind
  BY DEF Commit
<1>2. DOMAIN call = Session /\ \A y \in Session : CallOK(call[y], snap, requests)
  BY DEF PayInv, PayTyped
<1>3. \A snaps, rqs, states : CallOK(Idle, snaps, rqs) /\ StillSeen(Idle, states, rqs)
  BY DEF CallOK, StillSeen, Idle, Verbs
<1>4. DOMAIN call' = Session /\ \A y \in Session : CallOK(call'[y], snap', requests')
  <2>1. \A y \in Session : CallOK(call[y], snap', requests')
    BY <1>2, CallStays
  <2> QED
    BY <1>1, <1>2, <1>3, <2>1
<1>5. Attendance'
  BY <1>1 DEF PayInv, PayTyped, Attendance
<1>6. overlapped' \in BOOLEAN
  BY <1>1 DEF PayInv, PayTyped
<1>7. PayTyped'
  BY <1>4, <1>5, <1>6 DEF PayTyped
<1>8. ASSUME ~ overlapped' PROVE PayCalm'
  <2>1. call[x] # Idle
    BY <1>1 DEF Idle
  <2>2. \A y \in Session : y # x => call[y] = Idle
    BY <1>1, <1>8, <2>1 DEF PayInv, PayCalm
  <2>3. \A y \in Session : call'[y] = Idle
    BY <1>1, <1>2, <2>2
  <2>4. Kept(Books', snap')
    BY <1>1, <1>8
  <2> QED
    BY <1>3, <2>3, <2>4 DEF PayCalm
<1>9. overlapped' => PayCalm'
  BY DEF PayCalm
<1> QED
  BY <1>7, <1>8, <1>9 DEF PayInv

-----------------------------------------------------------------------------
(* The steps.                                                               *)

Progress == RequestStateMachine /\ PendingCoveredExpire

\* What is pending for a month of sources is not covered.
Settled(rqs, snaps, sources) ==
    \A i \in DOMAIN rqs :
        rqs[i].source \in sources /\ snaps[rqs[i].staff][rqs[i].source].uncovered = 0
            => rqs[i].status # "PENDING"

OnlyExpire(rqs, new) ==
    \A i \in DOMAIN rqs : new[i].status # rqs[i].status =>
        rqs[i].status \in Active /\ new[i].status = "EXPIRED"

\* The requests and books after an expiry.
LEMMA ExpiryLeaves ==
    ASSUME NEW b, BooksOK(b), OneClaim(b.requests), NEW snaps \in [Staff -> Snaps],
           NEW sources, \A s \in Staff : sources \subseteq DOMAIN snaps[s],
           \A s \in Staff : Closed(b) \subseteq DOMAIN snaps[s],
           NEW new, new = Expired(b.requests, snaps, sources),
           NEW c, c.lifecycle = b.lifecycle, c.required = b.required, c.requests = new
    PROVE  /\ new \in Seq(Request) /\ DOMAIN new = DOMAIN b.requests /\ OnlyExpire(b.requests, new)
           /\ Kept(b, snaps) => Kept(c, snaps) /\ Settled(new, snaps, sources)
<1>0. b.requests \in Seq(Request)
  BY DEF BooksOK
<1>1. new \in Seq(Request) /\ DOMAIN new = DOMAIN b.requests
  BY <1>0, ExpiredIs
<1>2. OnlyExpire(b.requests, new)
  <2> PICK rqs : rqs = b.requests
    OBVIOUS
  <2>1. \A i \in DOMAIN rqs :
          IF rqs[i].source \in sources /\ rqs[i].status \in Active /\ Covered(snaps, rqs[i])
          THEN new[i].status = "EXPIRED" ELSE new[i].status = rqs[i].status
    BY <1>0, ExpiredIs
  <2>2. OnlyExpire(rqs, new)
    BY <2>1 DEF OnlyExpire
  <2> QED
    BY <2>2
<1>3. ASSUME Kept(b, snaps) PROVE Kept(c, snaps) /\ Settled(new, snaps, sources)
  <2>1. Kept(c, snaps)
    BY <1>3, ExpiryKeepsBooks
  <2>2. MadeUp(b, snaps)
    BY <1>3 DEF Kept
  <2>3. ASSUME NEW i \in DOMAIN new, new[i].source \in sources,
               snaps[new[i].staff][new[i].source].uncovered = 0
        PROVE  new[i].status # "PENDING"
    <3>1. new[i] \in Request
      BY <1>1, RequestsAre
    <3>2. new[i].source \in DOMAIN snaps[new[i].staff]
      BY <2>3, <3>1 DEF Request
    <3>3. BooksOK(b) /\ OneClaim(b.requests) /\ new = Expired(b.requests, snaps, sources)
      OBVIOUS
    <3> QED
      BY ONLY <2>2, <2>3, <3>2, <3>3, snaps \in [Staff -> Snaps], i \in DOMAIN new, PendingIsUncovered
  <2>4. Settled(new, snaps, sources)
    BY <2>3 DEF Settled
  <2> QED
    BY <2>1, <2>4
<1> QED
  BY <1>1, <1>2, <1>3

LEMMA RecomputeLeaves ==
    ASSUME PayInv, NEW b, BooksOK(b), b.requests = requests, NEW m \in Months, RecomputeAndExpire(b, m),
           \A s \in Staff : Closed(b) \subseteq DOMAIN snap[s],
           ~ overlapped => Absorbed(b, snap, m),
           NEW sources, sources = {k \in m .. LastMonth : b.lifecycle[k] \in Finalised},
           NEW c, c.lifecycle = b.lifecycle, c.required = b.required, c.holidays = b.holidays,
           c.requests = requests'
    PROVE  /\ BooksOK(c) /\ snap' \in [Staff -> Snaps] /\ ledger' \in [Staff -> Seq(LedgerRows)]
           /\ \A s \in Staff : Closed(c) \subseteq DOMAIN snap'[s] /\ DOMAIN snap[s] \subseteq DOMAIN snap'[s]
           /\ DOMAIN requests' = DOMAIN requests /\ OnlyExpire(requests, requests')
           /\ ~ overlapped => Kept(c, snap') /\ Settled(requests', snap', sources)
<1> PICK accounts : accounts = [s \in Staff |-> RecomputedFrom(b, s, m, [rows |-> ledger[s], snap |-> snap[s]])]
  OBVIOUS
<1> PICK after : after = [s \in Staff |-> accounts[s].snap]
  OBVIOUS
<1>1. /\ ledger' = [s \in Staff |-> accounts[s].rows] /\ snap' = after
      /\ requests' = Expired(b.requests, after, sources)
  BY DEF RecomputeAndExpire, BookAll, Account
<1>2. Attendance /\ snap \in [Staff -> Snaps] /\ ledger \in [Staff -> Seq(LedgerRows)]
  BY DEF PayInv, PayTyped
<1>3. /\ after \in [Staff -> Snaps] /\ [s \in Staff |-> accounts[s].rows] \in [Staff -> Seq(LedgerRows)]
      /\ \A s \in Staff : Threaded(after[s], snap[s], b, s, m, LastMonth)
  <2>1. \A s \in Staff :
           accounts[s] = RecomputedFrom(b, s, m, [rows |-> ledger[s], snap |-> snap[s]])
    OBVIOUS
  <2>2. \A s \in Staff :
           /\ accounts[s].snap \in Snaps /\ accounts[s].rows \in Seq(LedgerRows)
           /\ Threaded(accounts[s].snap, snap[s], b, s, m, LastMonth)
    BY ONLY <1>2, <2>1, BooksOK(b), m \in Months, AllRecomputed
  <2>3. \A s \in Staff : after[s] = accounts[s].snap
    OBVIOUS
  <2> QED
    BY ONLY <2>2, <2>3, after = [s \in Staff |-> accounts[s].snap]
<1>4. \A s \in Staff : DOMAIN snap[s] \subseteq DOMAIN after[s]
  BY <1>3 DEF Threaded
<1>5. Closed(c) = Closed(b) /\ sources \subseteq Closed(b)
  BY PayrollAssumption DEF Closed, Months
<1>6. \A s \in Staff : sources \subseteq DOMAIN after[s] /\ Closed(b) \subseteq DOMAIN after[s]
  BY <1>4, <1>5
<1>7. OneClaim(b.requests)
  BY DEF PayInv, ClaimsInv
<1>8. /\ requests' \in Seq(Request) /\ DOMAIN requests' = DOMAIN requests /\ OnlyExpire(requests, requests')
      /\ Kept(b, after) => Kept(c, after) /\ Settled(requests', after, sources)
  <2> PICK new : new = requests'
    OBVIOUS
  <2>1. /\ BooksOK(b) /\ c.lifecycle = b.lifecycle /\ c.required = b.required /\ c.requests = new
        /\ new = Expired(b.requests, after, sources)
    BY <1>1
  <2>2. /\ new \in Seq(Request) /\ DOMAIN new = DOMAIN b.requests /\ OnlyExpire(b.requests, new)
        /\ Kept(b, after) => Kept(c, after) /\ Settled(new, after, sources)
    BY ONLY <1>3, <1>6, <1>7, <2>1, ExpiryLeaves
  <2> QED
    BY <2>2
<1>9. ~ overlapped => Kept(b, after)
  <2> SUFFICES ASSUME ~ overlapped PROVE Kept(b, after)
    OBVIOUS
  <2>1. MadeUp(b, snap)
    BY BooksAre DEF PayInv, PayCalm, Kept, MadeUp
  <2> QED
    BY <1>2, <1>3, <2>1, ThreadedKeeps
<1>10. BooksOK(c)
  BY <1>8 DEF BooksOK
<1> QED
  BY <1>1, <1>3, <1>4, <1>5, <1>6, <1>8, <1>9, <1>10

\* A step that recomputes nothing: no pending request is due to expire.
LEMMA QuietStep ==
    ASSUME holidays' = holidays,
           \A y \in Session : call[y] # Idle /\ call'[y] = Idle =>
               ~ (call[y].kind = "edit" /\ call[y].seen \in Finalised) /\ call[y].kind \notin {"close", "reopen"}
    PROVE  PendingCoveredExpire
<1>1. \A m \in Months : ~ Recomputes(m)
  BY DEF Recomputes
<1> QED
  BY <1>1 DEF PendingCoveredExpire

\* A recompute of month m.
LEMMA LoudStep ==
    ASSUME NEW m \in Months, \A k \in Months : Recomputes(k) => k = m,
           ~ overlapped' => Settled(requests', snap', Refreshed(m))
    PROVE  PendingCoveredExpire
<1> SUFFICES ASSUME NEW k \in Months, Recomputes(k), ~ overlapped', NEW i \in DOMAIN requests',
                    requests'[i].source \in Refreshed(k),
                    NothingToMakeUp(snap'[requests'[i].staff][requests'[i].source])
             PROVE  requests'[i].status # "PENDING"
  BY DEF PendingCoveredExpire
<1>1. k = m /\ Settled(requests', snap', Refreshed(m))
  OBVIOUS
<1>2. snap'[requests'[i].staff][requests'[i].source].uncovered = 0
  BY DEF NothingToMakeUp
<1> QED
  BY <1>1, <1>2 DEF Settled

LEMMA ExpiryProgresses ==
    ASSUME OnlyExpire(requests, requests')
    PROVE  RequestStateMachine
BY DEF OnlyExpire, RequestStateMachine, Active

LEMMA BeginProgresses ==
    ASSUME PayInv, NEW x \in Session, NEW c, Begin(x, c)
    PROVE  Progress
<1>1. /\ requests' = requests /\ holidays' = holidays /\ call[x] = Idle /\ call' = [call EXCEPT ![x] = c]
      /\ DOMAIN call = Session
  BY DEF Begin, Counted, books, PayInv, PayTyped
<1>2. RequestStateMachine
  BY <1>1 DEF RequestStateMachine
<1>3. \A y \in Session : call[y] # Idle => call'[y] = call[y]
  BY <1>1
<1>4. PendingCoveredExpire
  BY <1>1, <1>3, QuietStep
<1> QED
  BY <1>2, <1>4 DEF Progress

\* A handler that recomputes nothing ends.
LEMMA CommitQuiet ==
    ASSUME PayInv, NEW x \in Session, NEW kind, Commit(x, kind), holidays' = holidays,
           kind \notin {"close", "reopen"}, kind = "edit" => call[x].seen \notin Finalised
    PROVE  PendingCoveredExpire
<1>1. call' = [call EXCEPT ![x] = Idle] /\ call[x].kind = kind /\ DOMAIN call = Session
  BY DEF Commit, PayInv, PayTyped
<1>2. \A y \in Session : call[y] # Idle /\ call'[y] = Idle => y = x
  BY <1>1
<1> QED
  BY <1>1, <1>2, QuietStep

\* One that recomputes, and what it refreshes.
LEMMA CommitLoud ==
    ASSUME PayInv, NEW x \in Session, NEW kind, kind # "idle", Commit(x, kind), holidays' = holidays,
           kind \in {"edit", "close", "reopen"}, call[x].month \in Months,
           NEW sources,
           sources = IF kind = "close" THEN {call[x].month}
                     ELSE {k \in call[x].month .. LastMonth : lifecycle'[k] \in Finalised},
           ~ overlapped => Settled(requests', snap', sources)
    PROVE  PendingCoveredExpire
<1> PICK m : m = call[x].month
  OBVIOUS
<1>1. call' = [call EXCEPT ![x] = Idle] /\ call[x].kind = kind /\ DOMAIN call = Session /\ overlapped' = overlapped
  BY DEF Commit, PayInv, PayTyped
<1>2. \A y \in Session : call[y] # Idle /\ call'[y] = Idle => y = x
  BY <1>1
<1>3. \A k \in Months : Recomputes(k) => k = m
  BY <1>2 DEF Recomputes
<1>4. (\E y \in Session : call[y].kind = "close" /\ call'[y] = Idle) <=> kind = "close"
  BY <1>1, <1>2 DEF Idle
<1>5. {k \in ClosedMonths' : k >= m} = {k \in m .. LastMonth : lifecycle'[k] \in Finalised}
  BY PayrollAssumption DEF ClosedMonths, Months
<1>6. Refreshed(m) = sources
  BY <1>4, <1>5 DEF Refreshed
<1> QED
  BY <1>1, <1>3, <1>6, LoudStep

LEMMA BooksWillBe ==
    /\ Books'.lifecycle = lifecycle' /\ Books'.required = required' /\ Books'.holidays = holidays'
    /\ Books'.requests = requests'
BY DEF Books

\* The books of fewer finalised months, with the same requests moving days.
LEMMA KeptStill ==
    ASSUME NEW b, NEW c, NEW snaps, Kept(b, snaps), Closed(c) \subseteq Closed(b),
           \A j \in Closed(c) : c.required[j] = b.required[j],
           \A s, j : Makeup(c.requests, s, j) = Makeup(b.requests, s, j)
    PROVE  Kept(c, snaps)
BY DEF Kept, Absorbed, MadeUp

\* What an invariant says, in the words of the variables.
LEMMA PayFacts ==
    ASSUME PayInv
    PROVE  /\ lifecycle \in [Months -> Lifecycles] /\ required \in [Months -> Nat]
           /\ holidays \in [Months -> SUBSET Dates] /\ requests \in Seq(Request) /\ OneClaim(requests)
           /\ snap \in [Staff -> Snaps] /\ ledger \in [Staff -> Seq(LedgerRows)]
           /\ \A s \in Staff : Closed(Books) \subseteq DOMAIN snap[s]
           /\ \A x \in Session : CallOK(call[x], snap, requests)
           /\ ~ overlapped => Kept(Books, snap) /\ \A x \in Session : StillSeen(call[x], lifecycle, requests)
BY BooksAre DEF PayInv, PayTyped, PayCalm, ClaimsInv, BooksOK

\* A handler that leaves ledgers and snapshots alone.
LEMMA CommitLight ==
    ASSUME PayInv, ClaimsInv', NEW x \in Session, NEW kind, kind # "idle", Commit(x, kind),
           lifecycle' \in [Months -> Lifecycles], required' \in [Months -> Nat],
           holidays' = holidays, snap' = snap, ledger' = ledger,
           \A s \in Staff : Closed(Books') \subseteq DOMAIN snap[s],
           DOMAIN requests \subseteq DOMAIN requests',
           ~ overlapped => Kept(Books', snap)
    PROVE  PayInv'
<1>1. requests' \in Seq(Request)
  BY DEF ClaimsInv
<1>2. BooksOK(Books')
  BY <1>1, PayFacts, BooksWillBe DEF BooksOK
<1>3. snap' \in [Staff -> Snaps] /\ ledger' \in [Staff -> Seq(LedgerRows)]
  BY PayFacts
<1> QED
  BY <1>2, <1>3, CommitKeepsPay

\* A handler that recomputes from its month.
LEMMA CommitHeavy ==
    ASSUME PayInv, ClaimsInv', NEW x \in Session, NEW kind \in {"edit", "reopen"}, Commit(x, kind),
           NEW b, BooksOK(b), b.requests = requests,
           b.lifecycle = lifecycle', b.required = required', b.holidays = holidays', holidays' = holidays,
           NEW m \in Months, m = call[x].month, RecomputeAndExpire(b, m),
           \A s \in Staff : Closed(b) \subseteq DOMAIN snap[s],
           ~ overlapped => Absorbed(b, snap, m)
    PROVE  PayInv' /\ Progress
<1> PICK sources : sources = {k \in m .. LastMonth : b.lifecycle[k] \in Finalised}
  OBVIOUS
<1> PICK c : c = Books'
  OBVIOUS
<1>1. c.lifecycle = b.lifecycle /\ c.required = b.required /\ c.holidays = b.holidays /\ c.requests = requests'
  BY BooksWillBe
<1>2. /\ BooksOK(c) /\ snap' \in [Staff -> Snaps] /\ ledger' \in [Staff -> Seq(LedgerRows)]
      /\ \A s \in Staff : Closed(c) \subseteq DOMAIN snap'[s] /\ DOMAIN snap[s] \subseteq DOMAIN snap'[s]
      /\ DOMAIN requests' = DOMAIN requests /\ OnlyExpire(requests, requests')
      /\ ~ overlapped => Kept(c, snap') /\ Settled(requests', snap', sources)
  BY <1>1, RecomputeLeaves
<1>3. PayInv'
  BY <1>2, CommitKeepsPay
<1>4. RequestStateMachine
  BY <1>2, ExpiryProgresses
<1>5. PendingCoveredExpire
  BY <1>2, CommitLoud
<1> QED
  BY <1>3, <1>4, <1>5 DEF Progress

LEMMA EditPays ==
    ASSUME PayInv, ClaimsInv', NEW x \in Session, CommitEdit(x)
    PROVE  PayInv' /\ Progress
<1> PICK m, r : m = call[x].month /\ r = call[x].required
  OBVIOUS
<1>0. Commit(x, "edit") /\ call[x].kind = "edit"
  BY DEF CommitEdit, Commit
<1>1. m \in Months /\ r \in Nat /\ call[x].seen \in Lifecycles /\ (~ overlapped => call[x].seen = lifecycle[m])
  BY <1>0, PayFacts DEF CallOK, StillSeen
<1>2. CASE /\ call[x].seen \in {"NONE", "OPEN"}
           /\ snap' = snap /\ ledger' = ledger /\ requests' = requests /\ holidays' = holidays
           /\ lifecycle' \in {lifecycle, [lifecycle EXCEPT ![m] = "OPEN"]}
           /\ required' \in {required, [required EXCEPT ![m] = r]}
  <2>1. lifecycle' \in [Months -> Lifecycles] /\ required' \in [Months -> Nat]
    BY <1>1, <1>2, PayFacts DEF Lifecycles
  <2>2. Closed(Books') \subseteq Closed(Books) /\ (lifecycle[m] \notin Finalised => m \notin Closed(Books'))
    BY <1>1, <1>2, PayFacts, BooksAre, BooksWillBe DEF Closed, Finalised
  <2>3. ASSUME ~ overlapped PROVE Kept(Books', snap)
    <3>1. lifecycle[m] \notin Finalised
      BY <1>1, <1>2, <2>3 DEF Finalised
    <3>2. \A j \in Closed(Books') : required'[j] = required[j]
      <4> TAKE j \in Closed(Books')
      <4>1. j \in Months /\ j # m
        BY <2>2, <3>1 DEF Closed
      <4>2. required \in [Months -> Nat]
        BY PayFacts
      <4> QED
        BY <1>2, <4>1, <4>2
    <3>3. Kept(Books, snap)
      BY <2>3, PayFacts
    <3>4. \A s, j : Makeup(Books'.requests, s, j) = Makeup(Books.requests, s, j)
      BY <1>2, BooksAre, BooksWillBe
    <3> QED
      BY <2>2, <3>2, <3>3, <3>4, KeptStill, BooksAre, BooksWillBe
  <2>4. \A s \in Staff : Closed(Books') \subseteq DOMAIN snap[s]
    BY <2>2, PayFacts
  <2>5. PayInv'
    BY <1>0, <1>2, <2>1, <2>3, <2>4, CommitLight
  <2>6. PendingCoveredExpire
    BY <1>0, <1>2, CommitQuiet DEF Finalised
  <2>7. RequestStateMachine
    BY <1>2 DEF RequestStateMachine
  <2> QED
    BY <2>5, <2>6, <2>7 DEF Progress
<1>3. CASE /\ required' = [required EXCEPT ![m] = r]
           /\ RecomputeAndExpire([Books EXCEPT !.required = required'], m)
           /\ lifecycle' = lifecycle /\ holidays' = holidays
  <2> PICK b : b = [Books EXCEPT !.required = required']
    OBVIOUS
  <2>1. b.lifecycle = lifecycle /\ b.required = required' /\ b.holidays = holidays /\ b.requests = requests
    BY DEF Books
  <2>2. BooksOK(b)
    BY <1>1, <1>3, <2>1, PayFacts DEF BooksOK
  <2>3. Closed(b) = Closed(Books)
    BY <2>1, BooksAre DEF Closed
  <2>4. ASSUME ~ overlapped PROVE Absorbed(b, snap, m)
    <3>1. Absorbed(Books, snap, LastMonth + 1)
      BY <2>4, PayFacts DEF Kept
    <3>2. \A j \in Closed(b) : j < m => j < LastMonth + 1 /\ b.required[j] = required[j]
      BY <1>1, <1>3, <2>1, PayFacts, PayrollAssumption DEF Closed, Months
    <3> QED
      BY <2>1, <2>3, <3>1, <3>2, BooksAre DEF Absorbed
  <2>5. \A s \in Staff : Closed(b) \subseteq DOMAIN snap[s]
    BY <2>3, PayFacts
  <2>6. RecomputeAndExpire(b, m)
    BY <1>3
  <2> QED
    BY <1>0, <1>1, <1>3, <2>1, <2>2, <2>4, <2>5, <2>6, CommitHeavy
<1> QED
  BY <1>2, <1>3 DEF CommitEdit, Rollback, books

LEMMA ReopenPays ==
    ASSUME PayInv, ClaimsInv', NEW x \in Session, CommitReopen(x)
    PROVE  PayInv' /\ Progress
<1> PICK m : m = call[x].month
  OBVIOUS
<1>0. /\ Commit(x, "reopen") /\ call[x].kind = "reopen" /\ lifecycle' = [lifecycle EXCEPT ![m] = "OPEN"]
      /\ required' = required /\ holidays' = holidays
      /\ RecomputeAndExpire([Books EXCEPT !.lifecycle = lifecycle'], m)
  BY DEF CommitReopen, Commit
<1>1. m \in Months
  BY <1>0, PayFacts DEF CallOK, Verbs
<1> PICK b : b = [Books EXCEPT !.lifecycle = lifecycle']
  OBVIOUS
<1>2. b.lifecycle = lifecycle' /\ b.required = required /\ b.holidays = holidays /\ b.requests = requests
  BY DEF Books
<1>3. lifecycle' \in [Months -> Lifecycles]
  BY <1>0, PayFacts DEF Lifecycles
<1>4. BooksOK(b)
  BY <1>2, <1>3, PayFacts DEF BooksOK
<1>5. Closed(b) \subseteq Closed(Books)
  BY <1>0, <1>1, <1>2, PayFacts, BooksAre DEF Closed, Finalised
<1>6. ASSUME ~ overlapped PROVE Absorbed(b, snap, m)
  <2>1. Absorbed(Books, snap, LastMonth + 1)
    BY <1>6, PayFacts DEF Kept
  <2>2. \A j \in Closed(b) : j < m => j < LastMonth + 1
    BY <1>1, PayrollAssumption DEF Closed, Months
  <2> QED
    BY <1>2, <1>5, <2>1, <2>2, BooksAre DEF Absorbed
<1>7. \A s \in Staff : Closed(b) \subseteq DOMAIN snap[s]
  BY <1>5, PayFacts
<1>8. RecomputeAndExpire(b, m)
  BY <1>0
<1> QED
  BY <1>0, <1>1, <1>2, <1>4, <1>6, <1>7, <1>8, CommitHeavy

LEMMA LockPays ==
    ASSUME PayInv, ClaimsInv', NEW x \in Session, CommitLock(x)
    PROVE  PayInv' /\ Progress
<1> PICK m : m = call[x].month
  OBVIOUS
<1>0. /\ Commit(x, "lock") /\ call[x].kind = "lock" /\ lifecycle' = [lifecycle EXCEPT ![m] = "LOCKED"]
      /\ required' = required /\ holidays' = holidays /\ snap' = snap /\ ledger' = ledger /\ requests' = requests
  BY DEF CommitLock, Commit
<1>1. m \in Months /\ (\A s \in Staff : m \in DOMAIN snap[s]) /\ (~ overlapped => lifecycle[m] \in Finalised)
  BY <1>0, PayFacts DEF CallOK, StillSeen, Verbs
<1>2. Closed(Books') = Closed(Books) \cup {m}
  BY <1>0, <1>1, PayFacts, BooksAre, BooksWillBe DEF Closed, Finalised
<1>3. ASSUME ~ overlapped PROVE Kept(Books', snap)
  <2>1. Closed(Books') = Closed(Books)
    BY <1>1, <1>2, <1>3, BooksAre DEF Closed
  <2> QED
    BY <1>0, <1>3, <2>1, PayFacts, KeptStill, BooksAre, BooksWillBe
<1>4. \A s \in Staff : Closed(Books') \subseteq DOMAIN snap[s]
  BY <1>1, <1>2, PayFacts
<1>5. lifecycle' \in [Months -> Lifecycles] /\ required' \in [Months -> Nat]
  BY <1>0, PayFacts DEF Lifecycles, Finalised
<1>6. PayInv'
  BY <1>0, <1>3, <1>4, <1>5, CommitLight
<1>7. PendingCoveredExpire
  BY <1>0, CommitQuiet
<1>8. RequestStateMachine
  BY <1>0 DEF RequestStateMachine
<1> QED
  BY <1>6, <1>7, <1>8 DEF Progress

LEMMA ClosePays ==
    ASSUME PayInv, ClaimsInv', NEW x \in Session, CommitClose(x)
    PROVE  PayInv' /\ Progress
<1> PICK m : m = call[x].month
  OBVIOUS
<1> PICK accounts : accounts = [s \in Staff |-> BookMonth(Books, s, m, Account(s), FALSE, "CLOSED")]
  OBVIOUS
<1> PICK after : after = [s \in Staff |-> accounts[s].snap]
  OBVIOUS
<1>0. /\ Commit(x, "close") /\ call[x].kind = "close" /\ lifecycle' = [lifecycle EXCEPT ![m] = "CLOSED"]
      /\ required' = required /\ holidays' = holidays
      /\ ledger' = [s \in Staff |-> accounts[s].rows] /\ snap' = after
      /\ requests' = Expired(requests, after, {m})
  BY DEF CommitClose, Commit, BookAll
<1>1. m \in Months
  BY <1>0, PayFacts DEF CallOK, Verbs
<1>2. ASSUME NEW s \in Staff
      PROVE  /\ accounts[s].snap \in Snaps /\ accounts[s].rows \in Seq(LedgerRows)
             /\ Written(accounts[s].snap, snap[s], Books, s, m)
  <2> PICK account, new : account = Account(s) /\ new = accounts[s]
    OBVIOUS
  <2>1. Sound(account) /\ account.snap = snap[s]
    BY PayFacts DEF Sound, Account
  <2>2. new = BookMonth(Books, s, m, account, FALSE, "CLOSED") /\ "CLOSED" \in Finalised
    BY DEF Finalised
  <2>3. Attendance /\ BooksOK(Books)
    BY DEF PayInv, PayTyped
  <2>4. Sound(new) /\ Written(new.snap, account.snap, Books, s, m)
    BY <1>1, <2>1, <2>2, <2>3, BookMonthIs
  <2> QED
    BY <2>1, <2>4 DEF Sound
<1>3. after \in [Staff -> Snaps] /\ ledger' \in [Staff -> Seq(LedgerRows)]
  BY <1>0, <1>2
<1>4. \A s \in Staff : Written(after[s], snap[s], Books, s, m)
  BY <1>2
<1> PICK b : b = [Books EXCEPT !.lifecycle = lifecycle']
  OBVIOUS
<1>5. b.lifecycle = lifecycle' /\ b.required = required /\ b.holidays = holidays /\ b.requests = requests
  BY DEF Books
<1>6. BooksOK(b) /\ OneClaim(b.requests)
  <2>1. lifecycle' \in [Months -> Lifecycles]
    BY <1>0, PayFacts DEF Lifecycles, Finalised
  <2> QED
    BY <1>5, <2>1, PayFacts DEF BooksOK
<1>7. Closed(b) = Closed(Books) \cup {m}
  BY <1>0, <1>1, <1>5, PayFacts, BooksAre DEF Closed, Finalised
<1>8. \A s \in Staff : /\ {m} \subseteq DOMAIN after[s] /\ Closed(b) \subseteq DOMAIN after[s]
                       /\ DOMAIN snap[s] \subseteq DOMAIN after[s]
  <2>1. ASSUME NEW s \in Staff
        PROVE  DOMAIN after[s] = DOMAIN snap[s] \cup {m} /\ Closed(Books) \subseteq DOMAIN snap[s]
    BY <1>4, PayFacts DEF Written
  <2> QED
    BY ONLY <1>7, <2>1
<1>9. ASSUME ~ overlapped PROVE Kept(b, after)
  <2>1. Kept(Books, snap)
    BY <1>9, PayFacts
  <2>2. ASSUME NEW s \in Staff, NEW j \in Closed(b), j < LastMonth + 1
        PROVE  after[s][j].required = b.required[j] /\ after[s][j].makeup >= Makeup(b.requests, s, j)
    <3>1. CASE j = m
      <4>1. after[s][j].required = b.required[j] /\ after[s][j].makeup = Makeup(b.requests, s, j)
        BY <1>4, <1>5, <3>1, BooksAre DEF Written
      <4>2. Makeup(b.requests, s, j) \in Nat
        BY <1>6, MakeupIs DEF BooksOK
      <4>3. \A y \in Nat : y >= y
        OBVIOUS
      <4> QED
        BY ONLY <4>1, <4>2, <4>3
    <3>2. CASE j # m
      <4>1. j \in Closed(Books) /\ j \in DOMAIN snap[s]
        BY <1>7, <3>2, PayFacts
      <4>2. after[s][j] = snap[s][j]
        BY <1>4, <3>2, <4>1 DEF Written
      <4>3. snap[s][j].required = required[j] /\ snap[s][j].makeup >= Makeup(requests, s, j)
        BY <2>1, <2>2, <4>1, BooksAre DEF Kept, Absorbed
      <4> QED
        BY ONLY <1>5, <4>2, <4>3
    <3> QED
      BY <3>1, <3>2
  <2>3. ASSUME NEW s \in Staff, NEW j \in DOMAIN after[s]
        PROVE  after[s][j].deferred <= Makeup(b.requests, s, j + 1)
    <3>1. Makeup(b.requests, s, j + 1) \in Nat
      BY <1>6, MakeupIs DEF BooksOK
    <3>2. CASE j \in DOMAIN snap[s]
      <4>1. after[s][j].deferred = snap[s][j].deferred
        BY <1>4, <3>2 DEF Written
      <4> QED
        BY <1>5, <2>1, <3>2, <4>1, BooksAre DEF Kept, MadeUp
    <3>3. CASE j \notin DOMAIN snap[s]
      <4>0. DOMAIN after[s] = DOMAIN snap[s] \cup {m}
        BY <1>4 DEF Written
      <4>1. j = m
        BY <3>3, <4>0
      <4>2. after[s][j].deferred = 0
        BY <1>4, <3>3, <4>1 DEF Written
      <4> QED
        BY ONLY <3>1, <4>2
    <3> QED
      BY <3>2, <3>3
  <2> QED
    BY <2>2, <2>3 DEF Kept, Absorbed, MadeUp
<1> PICK c : c = Books'
  OBVIOUS
<1>10. c.lifecycle = b.lifecycle /\ c.required = b.required /\ c.holidays = b.holidays /\ c.requests = requests'
  BY <1>0, <1>5, BooksWillBe
<1>11. /\ requests' \in Seq(Request) /\ DOMAIN requests' = DOMAIN requests /\ OnlyExpire(requests, requests')
       /\ Kept(b, after) => Kept(c, after) /\ Settled(requests', after, {m})
  <2> PICK new : new = requests'
    OBVIOUS
  <2>1. new = Expired(b.requests, after, {m}) /\ c.lifecycle = b.lifecycle /\ c.required = b.required /\ c.requests = new
    BY <1>0, <1>5, <1>10
  <2>2. /\ new \in Seq(Request) /\ DOMAIN new = DOMAIN b.requests /\ OnlyExpire(b.requests, new)
        /\ Kept(b, after) => Kept(c, after) /\ Settled(new, after, {m})
    BY ONLY <1>3, <1>6, <1>8, <2>1, ExpiryLeaves
  <2> QED
    BY <1>5, <2>2
<1>12. BooksOK(c) /\ Closed(c) = Closed(b)
  BY <1>6, <1>10, <1>11 DEF BooksOK, Closed
<1>13. PayInv'
  BY <1>0, <1>3, <1>8, <1>9, <1>11, <1>12, CommitKeepsPay
<1>14. RequestStateMachine
  BY <1>11, ExpiryProgresses
<1>15. PendingCoveredExpire
  <2> PICK kind : kind = "close"
    OBVIOUS
  <2>1. ~ overlapped => Settled(requests', snap', {m})
    BY <1>0, <1>9, <1>11
  <2>2. {m} = IF kind = "close" THEN {call[x].month}
              ELSE {k \in call[x].month .. LastMonth : lifecycle'[k] \in Finalised}
    OBVIOUS
  <2> QED
    BY <1>0, <1>1, <2>1, <2>2, CommitLoud
<1> QED
  BY <1>13, <1>14, <1>15 DEF Progress

LEMMA RaisePays ==
    ASSUME PayInv, ClaimsInv', NEW x \in Session, CommitRaise(x)
    PROVE  PayInv' /\ Progress
<1> PICK rq : rq = call[x].rq
  OBVIOUS
<1>0. /\ Commit(x, "raise") /\ call[x].kind = "raise"
      /\ lifecycle' = lifecycle /\ required' = required /\ holidays' = holidays
      /\ snap' = snap /\ ledger' = ledger /\ requests' \in {requests, Append(requests, rq)}
  BY DEF CommitRaise, Commit, Rollback, books
<1>1. rq \in Request /\ rq.status = "PENDING" /\ requests \in Seq(Request) /\ requests' \in Seq(Request)
  BY <1>0, PayFacts DEF CallOK, ClaimsInv
<1>2. \A i \in DOMAIN requests : i \in DOMAIN requests' /\ requests'[i] = requests[i]
  BY <1>0, <1>1
<1>3. \A i \in DOMAIN requests' : i \in DOMAIN requests \/ requests'[i].status = "PENDING"
  BY <1>0, <1>1
<1>4. ASSUME NEW s, NEW j PROVE Makeup(requests', s, j) = Makeup(requests, s, j)
  <2>1. Approved(requests', s, j) = Approved(requests, s, j)
    BY <1>2, <1>3 DEF Approved, IndicesOf
  <2>2. \A i \in Approved(requests', s, j) : requests'[i].days = requests[i].days
    BY <1>2, <2>1 DEF Approved, IndicesOf
  <2> QED
    BY <1>1, <2>1, <2>2, MakeupSame
<1>5. Closed(Books') = Closed(Books)
  BY <1>0, BooksAre, BooksWillBe DEF Closed
<1>6. ~ overlapped => Kept(Books', snap)
  BY <1>0, <1>4, <1>5, PayFacts, KeptStill, BooksAre, BooksWillBe
<1>7. PayInv'
  BY <1>0, <1>2, <1>5, <1>6, PayFacts, CommitLight
<1>8. PendingCoveredExpire
  BY <1>0, CommitQuiet
<1>9. RequestStateMachine
  BY <1>2 DEF RequestStateMachine
<1> QED
  BY <1>7, <1>8, <1>9 DEF Progress

\* A request that is refused was pending and moved nothing.
LEMMA RefusalPays ==
    ASSUME PayInv, ClaimsInv', NEW x \in Session, NEW kind \in {"reject", "cancel"},
           NEW status \in {"REJECTED", "CANCELLED"}, CommitRefusal(x, kind, status)
    PROVE  PayInv' /\ Progress
<1> PICK i : i = call[x].index
  OBVIOUS
<1>0. /\ Commit(x, kind) /\ call[x].kind = kind
      /\ lifecycle' = lifecycle /\ required' = required /\ holidays' = holidays
      /\ snap' = snap /\ ledger' = ledger /\ requests' = [requests EXCEPT ![i].status = status]
  BY DEF CommitRefusal, Commit, WithStatus
<1>1. /\ i \in DOMAIN requests /\ (~ overlapped => requests[i].status = "PENDING")
      /\ requests \in Seq(Request) /\ requests' \in Seq(Request)
  BY <1>0, PayFacts DEF CallOK, StillSeen, ClaimsInv
<1>2. DOMAIN requests' = DOMAIN requests
  BY <1>0
<1>3. \A j \in DOMAIN requests :
          /\ requests'[j].staff = requests[j].staff /\ requests'[j].source = requests[j].source
          /\ requests'[j].days = requests[j].days
          /\ requests'[j].status = IF j = i THEN status ELSE requests[j].status
  <2>1. \A j \in DOMAIN requests : requests[j] \in Request
    BY <1>1, RequestsAre
  <2> QED
    BY <1>0, <2>1 DEF Request
<1>4. ASSUME ~ overlapped, NEW s, NEW j PROVE Makeup(requests', s, j) = Makeup(requests, s, j)
  <2>1. Approved(requests', s, j) = Approved(requests, s, j)
    BY <1>1, <1>2, <1>3, <1>4 DEF Approved, IndicesOf
  <2>2. \A k \in Approved(requests', s, j) : requests'[k].days = requests[k].days
    BY <1>2, <1>3 DEF Approved, IndicesOf
  <2> QED
    BY <1>1, <2>1, <2>2, MakeupSame
<1>5. Closed(Books') = Closed(Books)
  BY <1>0, BooksAre, BooksWillBe DEF Closed
<1>6. ASSUME ~ overlapped PROVE Kept(Books', snap)
  <2>1. \A s, j : Makeup(Books'.requests, s, j) = Makeup(Books.requests, s, j)
    BY <1>4, <1>6, BooksAre, BooksWillBe
  <2>2. Kept(Books, snap)
    BY <1>6, PayFacts
  <2>3. \A j \in Closed(Books') : Books'.required[j] = Books.required[j]
    BY <1>0, BooksAre, BooksWillBe
  <2> QED
    BY <1>5, <2>1, <2>2, <2>3, KeptStill
<1>7. PayInv'
  BY <1>0, <1>2, <1>5, <1>6, PayFacts, CommitLight
<1>8. PendingCoveredExpire
  BY <1>0, CommitQuiet
<1>9. RequestStateMachine
  <2>1. overlapped' = overlapped
    BY <1>0 DEF Commit
  <2> QED
    BY <1>1, <1>3, <2>1 DEF RequestStateMachine
<1> QED
  BY <1>7, <1>8, <1>9 DEF Progress

\* Of these requests the one numbered i is decided, and nothing else.
Approval(new, rqs, i) ==
    /\ DOMAIN new = DOMAIN rqs
    /\ \A k \in DOMAIN rqs :
          /\ new[k].staff = rqs[k].staff /\ new[k].source = rqs[k].source /\ new[k].days = rqs[k].days
          /\ new[k].status = IF k = i THEN "APPROVED" ELSE rqs[k].status

LEMMA ApprovalMoves ==
    ASSUME NEW rqs \in Seq(Request), NEW i \in DOMAIN rqs, rqs[i].status = "PENDING",
           NEW new \in Seq(Request), Approval(new, rqs, i), NEW s, NEW j
    PROVE  Makeup(new, s, j) = Makeup(rqs, s, j)
               + IF s = rqs[i].staff /\ j - 1 = rqs[i].source THEN rqs[i].days ELSE 0
<1>1. /\ DOMAIN new = DOMAIN rqs
      /\ \A k \in DOMAIN rqs :
            /\ new[k].staff = rqs[k].staff /\ new[k].source = rqs[k].source /\ new[k].days = rqs[k].days
            /\ new[k].status = IF k = i THEN "APPROVED" ELSE rqs[k].status
  BY DEF Approval
<1>2. i \notin Approved(rqs, s, j)
  BY DEF Approved
<1>3. \A k \in Approved(new, s, j) : new[k].days = rqs[k].days
  BY <1>1 DEF Approved, IndicesOf
<1>4. CASE s = rqs[i].staff /\ j - 1 = rqs[i].source
  <2>1. Approved(new, s, j) = Approved(rqs, s, j) \cup {i}
    BY <1>1, <1>4 DEF Approved, IndicesOf
  <2>2. Makeup(new, s, j) = Makeup(rqs, s, j) + new[i].days
    BY ONLY <1>2, <1>3, <2>1, rqs \in Seq(Request), new \in Seq(Request), MakeupGrows
  <2> QED
    BY <1>1, <1>4, <2>2
<1>5. CASE ~ (s = rqs[i].staff /\ j - 1 = rqs[i].source)
  <2>1. Approved(new, s, j) = Approved(rqs, s, j)
    BY <1>1, <1>2, <1>5 DEF Approved, IndicesOf
  <2>2. Makeup(new, s, j) = Makeup(rqs, s, j)
    BY ONLY <1>3, <2>1, rqs \in Seq(Request), new \in Seq(Request), MakeupSame
  <2>3. Makeup(rqs, s, j) \in Nat
    BY MakeupIs
  <2> QED
    BY <1>5, <2>2, <2>3
<1> QED
  BY <1>4, <1>5

LEMMA DeferredIs ==
    ASSUME NEW row \in Snapshot, NEW days \in Nat, NEW new, new = Deferred(row, days)
    PROVE  /\ new \in Snapshot /\ new.required = row.required /\ new.makeup = row.makeup
           /\ new.deferred <= row.deferred + days
<1> PICK move : move = Least(row.uncovered, days)
  OBVIOUS
<1>1. row.uncovered \in Nat /\ row.deferred \in Nat
  BY DEF Snapshot
<1>2. move \in Nat /\ move <= row.uncovered /\ move <= days
  BY <1>1 DEF Least
<1>3. new = [row EXCEPT !.uncovered = row.uncovered - move, !.deferred = row.deferred + move]
  BY DEF Deferred
<1>4. row.uncovered - move \in Nat /\ row.deferred + move \in Nat /\ row.deferred + move <= row.deferred + days
  BY <1>1, <1>2
<1>5. new \in Snapshot
  BY <1>3, <1>4 DEF Snapshot
<1>6. new.required = row.required /\ new.makeup = row.makeup /\ new.deferred = row.deferred + move
  BY <1>3 DEF Snapshot
<1> QED
  BY <1>4, <1>5, <1>6

\* The source month's snapshot, after a part of it is deferred.
Moved(after, before, staff, source, days) ==
    \A s \in Staff :
        /\ DOMAIN after[s] = DOMAIN before[s]
        /\ \A j \in DOMAIN before[s] :
              /\ after[s][j].required = before[s][j].required /\ after[s][j].makeup = before[s][j].makeup
              /\ after[s][j].deferred <= before[s][j].deferred + IF s = staff /\ j = source THEN days ELSE 0

DeferralOf(snaps, staff, source, days) ==
    [s \in Staff |->
        IF s = staff /\ source \in DOMAIN snaps[s]
          THEN [snaps[s] EXCEPT ![source] = Deferred(@, days)]
          ELSE snaps[s]]

LEMMA DeferralMoves ==
    ASSUME NEW snaps \in [Staff -> Snaps], NEW staff, NEW source, NEW days \in Nat, NEW after,
           after = DeferralOf(snaps, staff, source, days)
    PROVE  after \in [Staff -> Snaps] /\ Moved(after, snaps, staff, source, days)
<1>0. /\ after = [s \in Staff |-> after[s]]
      /\ \A s \in Staff : after[s] = IF s = staff /\ source \in DOMAIN snaps[s]
                                    THEN [snaps[s] EXCEPT ![source] = Deferred(snaps[s][source], days)]
                                    ELSE snaps[s]
  BY DEF DeferralOf
<1>1. ASSUME NEW s \in Staff
      PROVE  /\ after[s] \in Snaps /\ DOMAIN after[s] = DOMAIN snaps[s]
             /\ \A j \in DOMAIN snaps[s] :
                  /\ after[s][j].required = snaps[s][j].required /\ after[s][j].makeup = snaps[s][j].makeup
                  /\ after[s][j].deferred <= snaps[s][j].deferred + IF s = staff /\ j = source THEN days ELSE 0
  <2> PICK f, g : f = snaps[s] /\ g = after[s]
    OBVIOUS
  <2>1. /\ f \in Snaps /\ DOMAIN f \subseteq Months
        /\ \A j \in DOMAIN f : f[j] \in Snapshot /\ f[j].deferred \in Nat
    BY SnapshotsAre
  <2>2. CASE s = staff /\ source \in DOMAIN f
    <3> PICK row : row = Deferred(f[source], days)
      OBVIOUS
    <3>1. g = [f EXCEPT ![source] = row]
      BY <1>0, <2>2
    <3>2. /\ row \in Snapshot /\ row.required = f[source].required /\ row.makeup = f[source].makeup
          /\ row.deferred <= f[source].deferred + days
      <4> PICK was : was = f[source]
        OBVIOUS
      <4>1. was \in Snapshot
        BY <2>1, <2>2
      <4>2. row = Deferred(was, days)
        OBVIOUS
      <4>3. /\ row \in Snapshot /\ row.required = was.required /\ row.makeup = was.makeup
            /\ row.deferred <= was.deferred + days
        BY ONLY <4>1, <4>2, days \in Nat, DeferredIs
      <4> QED
        BY <4>3
    <3>3. DOMAIN g = DOMAIN f /\ g[source] = row /\ \A j \in DOMAIN f : j # source => g[j] = f[j]
      BY <2>2, <3>1
    <3>4. g = [j \in DOMAIN f |-> g[j]] /\ \A j \in DOMAIN f : g[j] \in Snapshot
      BY <2>1, <3>1, <3>2, <3>3
    <3>5. g \in Snaps
      BY ONLY <2>1, <3>4, IsSnap
    <3>6. ASSUME NEW j \in DOMAIN f
          PROVE  /\ g[j].required = f[j].required /\ g[j].makeup = f[j].makeup
                 /\ g[j].deferred <= f[j].deferred + IF s = staff /\ j = source THEN days ELSE 0
      <4>1. CASE j = source
        BY <2>2, <3>2, <3>3, <4>1
      <4>2. CASE j # source
        BY <2>1, <3>3, <4>2
      <4> QED
        BY <4>1, <4>2
    <3> QED
      BY <3>3, <3>5, <3>6
  <2>3. CASE ~ (s = staff /\ source \in DOMAIN f)
    <3>1. g = f
      BY <1>0, <2>3
    <3>2. \A j \in DOMAIN f : f[j].deferred <= f[j].deferred + IF s = staff /\ j = source THEN days ELSE 0
      BY <2>1
    <3> QED
      BY <2>1, <3>1, <3>2
  <2> QED
    BY <2>2, <2>3
<1>2. after \in [Staff -> Snaps]
  BY ONLY <1>0, <1>1
<1> QED
  BY <1>1, <1>2 DEF Moved

\* What an approval defers is what the approved request moves.
LEMMA ApprovalKeeps ==
    ASSUME NEW b, NEW c, BooksOK(b), BooksOK(c), NEW i \in DOMAIN b.requests,
           b.requests[i].status = "PENDING", c.requests = [b.requests EXCEPT ![i].status = "APPROVED"],
           c.lifecycle = b.lifecycle, c.required = b.required,
           NEW snaps \in [Staff -> Snaps], NEW after \in [Staff -> Snaps],
           Moved(after, snaps, b.requests[i].staff, b.requests[i].source, b.requests[i].days),
           \A s \in Staff : Closed(b) \subseteq DOMAIN snaps[s],
           Kept(b, snaps), NEW n \in Nat, n <= LastMonth + 1,
           b.requests[i].source + 1 >= n \/ b.requests[i].source + 1 \notin Closed(b)
    PROVE  Absorbed(c, after, n) /\ MadeUp(c, after)
<1> PICK rqs, new, rq : rqs = b.requests /\ new = c.requests /\ rq = rqs[i]
  OBVIOUS
<1>1. rqs \in Seq(Request) /\ new \in Seq(Request) /\ Closed(c) = Closed(b)
  BY DEF BooksOK, Closed
<1>2. rq \in Request /\ rq.days \in Nat /\ rq.source \in Months
  <2>1. rq \in Request
    BY <1>1, RequestsAre
  <2> QED
    BY <2>1 DEF Request
<1>3. ASSUME NEW s, NEW j
      PROVE  /\ Makeup(new, s, j) = Makeup(rqs, s, j) + IF s = rq.staff /\ j - 1 = rq.source THEN rq.days ELSE 0
             /\ Makeup(rqs, s, j) \in Nat /\ Makeup(new, s, j) \in Nat
  <2>0. \A k \in DOMAIN rqs : rqs[k] \in Request
    BY <1>1, RequestsAre
  <2>1. i \in DOMAIN rqs /\ rqs[i].status = "PENDING" /\ new = [rqs EXCEPT ![i].status = "APPROVED"]
    OBVIOUS
  <2>2. ASSUME NEW k \in DOMAIN rqs
        PROVE  /\ new[k].staff = rqs[k].staff /\ new[k].source = rqs[k].source
               /\ new[k].days = rqs[k].days
               /\ new[k].status = IF k = i THEN "APPROVED" ELSE rqs[k].status
    <3> PICK row : row = rqs[k]
      OBVIOUS
    <3>1. row \in Request
      BY ONLY <2>0, row = rqs[k], k \in DOMAIN rqs
    <3>2. new[k] = IF k = i THEN [row EXCEPT !.status = "APPROVED"] ELSE row
      BY ONLY <2>1, row = rqs[k], k \in DOMAIN rqs
    <3> QED
      BY <3>1, <3>2 DEF Request
  <2>3. Approval(new, rqs, i)
    <3>1. DOMAIN new = DOMAIN rqs
      BY ONLY <2>1
    <3> QED
      BY <2>2, <3>1 DEF Approval
  <2>4. Makeup(new, s, j) = Makeup(rqs, s, j)
               + IF s = rqs[i].staff /\ j - 1 = rqs[i].source THEN rqs[i].days ELSE 0
    <3>1. i \in DOMAIN rqs /\ rqs[i].status = "PENDING"
      BY ONLY <2>1
    <3>2. rqs \in Seq(Request) /\ new \in Seq(Request)
      BY ONLY <1>1
    <3> QED
      BY ONLY <2>3, <3>1, <3>2, ApprovalMoves
  <2> QED
    BY <1>1, <2>4, MakeupIs
<1>4. Moved(after, snaps, rq.staff, rq.source, rq.days)
  OBVIOUS
<1>5. LastMonth \in Nat
  BY PayrollAssumption
<1>6. ASSUME NEW s \in Staff, NEW j \in Closed(b), j < n
      PROVE  after[s][j].required = c.required[j] /\ after[s][j].makeup >= Makeup(new, s, j)
  <2>1. j \in DOMAIN snaps[s] /\ j \in Nat
    BY DEF Closed, Months
  <2>2. after[s][j].required = snaps[s][j].required /\ after[s][j].makeup = snaps[s][j].makeup
    BY <1>4, <2>1 DEF Moved
  <2>3. j < LastMonth + 1
    BY <1>5, <1>6, <2>1
  <2>4. snaps[s][j].required = b.required[j] /\ snaps[s][j].makeup >= Makeup(rqs, s, j)
    BY <2>3 DEF Kept, Absorbed
  <2>5. j # rq.source + 1
    BY <1>2, <1>6, <2>1 DEF Months
  <2>6. Makeup(new, s, j) = Makeup(rqs, s, j)
    <3>1. j - 1 # rq.source
      BY <1>2, <2>1, <2>5 DEF Months
    <3> QED
      BY <1>3, <3>1
  <2>7. c.required[j] = b.required[j]
    OBVIOUS
  <2> QED
    BY ONLY <2>2, <2>4, <2>6, <2>7
<1>7. ASSUME NEW s \in Staff, NEW j \in DOMAIN after[s]
      PROVE  after[s][j].deferred <= Makeup(new, s, j + 1)
  <2>1. j \in DOMAIN snaps[s]
    BY <1>4 DEF Moved
  <2>2. snaps[s][j].deferred \in Nat /\ after[s][j].deferred \in Nat /\ j \in Months
    BY <2>1, SnapshotsAre
  <2>3. after[s][j].deferred <= snaps[s][j].deferred + IF s = rq.staff /\ j = rq.source THEN rq.days ELSE 0
    BY <1>4, <2>1 DEF Moved
  <2>4. snaps[s][j].deferred <= Makeup(rqs, s, j + 1)
    BY <2>1 DEF Kept, MadeUp
  <2> PICK k : k = j + 1
    OBVIOUS
  <2>5. k - 1 = j
    BY <2>2 DEF Months
  <2>6. /\ Makeup(new, s, k) = Makeup(rqs, s, k) + IF s = rq.staff /\ j = rq.source THEN rq.days ELSE 0
        /\ Makeup(rqs, s, k) \in Nat /\ Makeup(new, s, k) \in Nat
    BY <1>3, <2>5
  <2> PICK more : more = IF s = rq.staff /\ j = rq.source THEN rq.days ELSE 0
    OBVIOUS
  <2>7. more \in Nat
    BY <1>2
  <2>8. after[s][j].deferred <= Makeup(new, s, k)
    BY ONLY <2>2, <2>3, <2>4, <2>6, <2>7, k = j + 1, more = IF s = rq.staff /\ j = rq.source THEN rq.days ELSE 0
  <2> QED
    BY <2>8
<1> QED
  BY <1>1, <1>6, <1>7 DEF Absorbed, MadeUp

LEMMA ApprovePays ==
    ASSUME PayInv, ClaimsInv', NEW x \in Session, CommitApprove(x)
    PROVE  PayInv' /\ Progress
<1> PICK i, rq : i = call[x].index /\ rq = requests[i]
  OBVIOUS
<1> PICK deferred : deferred = [s \in Staff |->
            IF s = rq.staff /\ rq.source \in DOMAIN snap[s]
              THEN [snap[s] EXCEPT ![rq.source] = Deferred(@, rq.days)]
              ELSE snap[s]]
  OBVIOUS
<1> PICK target : target = rq.source + 1
  OBVIOUS
<1>0. Commit(x, "approve") /\ call[x].kind = "approve" /\ overlapped' = overlapped
  BY DEF CommitApprove, Commit
<1>1. /\ i \in DOMAIN requests /\ (~ overlapped => requests[i].status = "PENDING")
      /\ requests \in Seq(Request) /\ requests' \in Seq(Request)
  BY <1>0, PayFacts DEF CallOK, StillSeen, ClaimsInv
<1>2. rq \in Request /\ rq.days \in Nat /\ rq.source \in Months
  <2>1. rq \in Request
    BY <1>1, RequestsAre
  <2> QED
    BY <2>1 DEF Request
<1>3. CASE UNCHANGED books
  <2>1. /\ lifecycle' = lifecycle /\ required' = required /\ holidays' = holidays
        /\ snap' = snap /\ ledger' = ledger /\ requests' = requests /\ Books' = Books
    BY <1>3 DEF books, Books
  <2>2. PayInv'
    BY <1>0, <2>1, PayFacts, CommitLight
  <2>3. PendingCoveredExpire
    BY <1>0, <2>1, CommitQuiet
  <2>4. RequestStateMachine
    BY <2>1 DEF RequestStateMachine
  <2> QED
    BY <2>2, <2>3, <2>4 DEF Progress
<1>4. CASE /\ requests' = [requests EXCEPT ![i].status = "APPROVED"]
           /\ lifecycle' = lifecycle /\ required' = required /\ holidays' = holidays
           /\ IF target \in ClosedMonths
                THEN BookAll([s \in Staff |-> RecomputedFrom(ApprovedBooks(i), s, target,
                                                  [rows |-> ledger[s], snap |-> deferred[s]])])
                ELSE snap' = deferred /\ ledger' = ledger
  <2> PICK b : b = ApprovedBooks(i)
    OBVIOUS
  <2> PICK c : c = Books'
    OBVIOUS
  <2>1. /\ b.lifecycle = lifecycle /\ b.required = required /\ b.holidays = holidays /\ b.requests = requests'
        /\ c.lifecycle = lifecycle /\ c.required = required /\ c.holidays = holidays /\ c.requests = requests'
    <3>1. requests' = WithStatus(i, "APPROVED")
      BY <1>4 DEF WithStatus
    <3>2. /\ b.lifecycle = lifecycle /\ b.required = required /\ b.holidays = holidays
          /\ b.requests = WithStatus(i, "APPROVED")
      BY ONLY b = ApprovedBooks(i) DEF ApprovedBooks, Books
    <3>3. /\ c.lifecycle = lifecycle' /\ c.required = required' /\ c.holidays = holidays'
          /\ c.requests = requests'
      BY BooksWillBe
    <3> QED
      BY <1>4, <3>1, <3>2, <3>3
  <2>2. BooksOK(b) /\ BooksOK(c) /\ Closed(b) = Closed(Books) /\ Closed(c) = Closed(Books)
    BY <1>1, <2>1, BooksAre, PayFacts DEF BooksOK, Closed
  <2>3. deferred \in [Staff -> Snaps] /\ Moved(deferred, snap, rq.staff, rq.source, rq.days)
    <3>1. snap \in [Staff -> Snaps]
      BY PayFacts
    <3>2. deferred = DeferralOf(snap, rq.staff, rq.source, rq.days)
      BY DEF DeferralOf
    <3> QED
      BY ONLY <1>2, <3>1, <3>2, DeferralMoves
  <2>4. \A s \in Staff : DOMAIN deferred[s] = DOMAIN snap[s] /\ Closed(b) \subseteq DOMAIN deferred[s]
    BY <2>2, <2>3, PayFacts DEF Moved
  <2>5. ASSUME ~ overlapped, NEW n \in Nat, n <= LastMonth + 1, target >= n \/ target \notin Closed(b)
        PROVE  Absorbed(b, deferred, n) /\ MadeUp(b, deferred)
    <3> PICK a : a = Books
      OBVIOUS
    <3>1. /\ BooksOK(a) /\ a.requests = requests /\ a.lifecycle = b.lifecycle /\ a.required = b.required
          /\ i \in DOMAIN a.requests /\ a.requests[i].status = "PENDING"
          /\ b.requests = [a.requests EXCEPT ![i].status = "APPROVED"]
      BY <1>1, <1>4, <2>1, <2>5, BooksAre DEF PayInv, PayTyped
    <3>2. /\ snap \in [Staff -> Snaps] /\ Kept(a, snap)
          /\ \A s \in Staff : Closed(a) \subseteq DOMAIN snap[s]
      BY <2>5, PayFacts
    <3>3. /\ Moved(deferred, snap, a.requests[i].staff, a.requests[i].source, a.requests[i].days)
          /\ a.requests[i].source + 1 = target /\ Closed(a) = Closed(b)
      BY <2>2, <2>3, <3>1
    <3> QED
      BY ONLY <2>2, <2>3, <2>5, <3>1, <3>2, <3>3, ApprovalKeeps
  <2>6. LastMonth \in Nat /\ target \in Nat
    BY <1>2, PayrollAssumption DEF Months
  <2>7. /\ snap' \in [Staff -> Snaps] /\ ledger' \in [Staff -> Seq(LedgerRows)]
        /\ \A s \in Staff : DOMAIN snap[s] \subseteq DOMAIN snap'[s]
        /\ ~ overlapped => Kept(b, snap')
    <3>1. CASE target \in ClosedMonths
      <4> PICK accounts : accounts = [s \in Staff |-> RecomputedFrom(b, s, target, [rows |-> ledger[s], snap |-> deferred[s]])]
        OBVIOUS
      <4> PICK after : after = [s \in Staff |-> accounts[s].snap]
        OBVIOUS
      <4>1. ledger' = [s \in Staff |-> accounts[s].rows] /\ snap' = after
        BY <1>4, <3>1 DEF BookAll
      <4>2. \A s \in Staff :
              accounts[s] = RecomputedFrom(b, s, target, [rows |-> ledger[s], snap |-> deferred[s]])
        OBVIOUS
      <4>3. target \in Months /\ Attendance /\ ledger \in [Staff -> Seq(LedgerRows)]
        BY <3>1, PayFacts DEF ClosedMonths, PayInv, PayTyped
      <4>4. \A s \in Staff :
              /\ accounts[s].snap \in Snaps /\ accounts[s].rows \in Seq(LedgerRows)
              /\ Threaded(accounts[s].snap, deferred[s], b, s, target, LastMonth)
        BY ONLY <2>2, <2>3, <4>2, <4>3, AllRecomputed
      <4>5. after \in [Staff -> Snaps] /\ \A s \in Staff : Threaded(after[s], deferred[s], b, s, target, LastMonth)
        BY <4>4
      <4>6. \A s \in Staff : DOMAIN snap[s] \subseteq DOMAIN after[s]
        <5>1. ASSUME NEW s \in Staff PROVE DOMAIN deferred[s] \subseteq DOMAIN after[s]
          <6>1. Threaded(after[s], deferred[s], b, s, target, LastMonth)
            BY <4>5
          <6> QED
            BY ONLY <6>1 DEF Threaded
        <5> QED
          BY ONLY <2>4, <5>1
      <4>7. ASSUME ~ overlapped PROVE Kept(b, after)
        <5>1. target <= LastMonth + 1 /\ target >= target
          BY <2>6, <4>3 DEF Months
        <5>2. Absorbed(b, deferred, target) /\ MadeUp(b, deferred)
          BY <2>5, <2>6, <4>7, <5>1
        <5> QED
          BY ONLY <2>2, <2>3, <2>4, <4>3, <4>5, <5>2, ThreadedKeeps
      <4> QED
        BY <4>1, <4>4, <4>5, <4>6, <4>7
    <3>2. CASE target \notin ClosedMonths
      <4>1. snap' = deferred /\ ledger' = ledger
        BY <1>4, <3>2
      <4>2. ASSUME ~ overlapped PROVE Kept(b, deferred)
        <5>1. target \notin Closed(b) /\ LastMonth + 1 \in Nat /\ LastMonth + 1 <= LastMonth + 1
          BY <2>2, <2>6, <3>2, ClosedIs
        <5>2. Absorbed(b, deferred, LastMonth + 1) /\ MadeUp(b, deferred)
          BY <2>5, <4>2, <5>1
        <5> QED
          BY <5>2 DEF Kept
      <4> QED
        BY <2>3, <2>4, <4>1, <4>2, PayFacts
    <3> QED
      BY <3>1, <3>2
  <2>8. ~ overlapped => Kept(c, snap')
    BY <2>1, <2>2, <2>7 DEF Kept, Absorbed, MadeUp
  <2>9. \A s \in Staff : Closed(c) \subseteq DOMAIN snap'[s]
    BY <2>2, <2>7, PayFacts
  <2>10. DOMAIN requests' = DOMAIN requests
    BY <1>4
  <2>11. PayInv'
    BY <1>0, <2>2, <2>7, <2>8, <2>9, <2>10, CommitKeepsPay
  <2>12. PendingCoveredExpire
    BY <1>0, <1>4, CommitQuiet
  <2>13. RequestStateMachine
    <3>1. \A j \in DOMAIN requests : j # i => requests'[j] = requests[j]
      BY <1>4
    <3> QED
      BY <1>0, <1>1, <3>1 DEF RequestStateMachine
  <2> QED
    BY <2>11, <2>12, <2>13 DEF Progress
<1> QED
  BY <1>3, <1>4 DEF CommitApprove, WithStatus, Rollback

LEMMA HolidaysPay ==
    ASSUME PayInv, ClaimsInv', NEW x \in Session, NEW m \in Months, NEW dates \in SUBSET Dates,
           SetHolidays(x, m, dates)
    PROVE  PayInv' /\ Progress
<1> PICK b : b = [Books EXCEPT !.holidays = holidays']
  OBVIOUS
<1>0. /\ call' = call /\ attended' = attended /\ lifecycle' = lifecycle /\ required' = required
      /\ holidays' = [holidays EXCEPT ![m] = dates]
      /\ overlapped' = (overlapped \/ \E y \in Session : call[y] # Idle)
      /\ IF lifecycle[m] \in Finalised THEN RecomputeAndExpire(b, m)
         ELSE snap' = snap /\ ledger' = ledger /\ requests' = requests
  BY DEF SetHolidays, Counted
<1>1. b.lifecycle = lifecycle /\ b.required = required /\ b.holidays = holidays' /\ b.requests = requests
  BY DEF Books
<1>2. BooksOK(b) /\ Closed(b) = Closed(Books)
  <2>1. holidays' \in [Months -> SUBSET Dates]
    BY <1>0, PayFacts
  <2> QED
    BY <1>1, <2>1, PayFacts, BooksAre DEF BooksOK, Closed
<1> PICK sources : sources = {k \in m .. LastMonth : b.lifecycle[k] \in Finalised}
  OBVIOUS
<1> PICK c : c = Books'
  OBVIOUS
<1>3. c.lifecycle = b.lifecycle /\ c.required = b.required /\ c.holidays = b.holidays /\ c.requests = requests'
  BY <1>0, <1>1, BooksWillBe
<1>4. \A s \in Staff : Closed(b) \subseteq DOMAIN snap[s]
  BY <1>2, PayFacts
<1>5. ASSUME ~ overlapped PROVE Absorbed(b, snap, m) /\ (requests' = requests => Kept(c, snap))
  <2>1. Kept(Books, snap)
    BY <1>5, PayFacts
  <2>2. \A j \in Closed(b) : j < m => j < LastMonth + 1
    BY PayrollAssumption DEF Closed, Months
  <2>3. Absorbed(b, snap, m)
    BY <1>1, <1>2, <2>1, <2>2, BooksAre DEF Kept, Absorbed
  <2>4. ASSUME requests' = requests PROVE Kept(c, snap)
    <3>1. Closed(c) = Closed(b) /\ c.required = required /\ c.requests = requests
      BY <1>1, <1>3, <2>4 DEF Closed
    <3> QED
      BY <1>2, <2>1, <3>1, BooksAre DEF Kept, Absorbed, MadeUp
  <2> QED
    BY <2>3, <2>4
<1>6. /\ BooksOK(c) /\ snap' \in [Staff -> Snaps] /\ ledger' \in [Staff -> Seq(LedgerRows)]
      /\ \A s \in Staff : Closed(c) \subseteq DOMAIN snap'[s] /\ DOMAIN snap[s] \subseteq DOMAIN snap'[s]
      /\ DOMAIN requests' = DOMAIN requests /\ OnlyExpire(requests, requests')
      /\ ~ overlapped => Kept(c, snap') /\ (lifecycle[m] \in Finalised => Settled(requests', snap', sources))
  <2>1. CASE lifecycle[m] \in Finalised
    <3>1. RecomputeAndExpire(b, m)
      BY <1>0, <2>1
    <3> QED
      BY <1>1, <1>2, <1>3, <1>4, <1>5, <3>1, RecomputeLeaves
  <2>2. CASE lifecycle[m] \notin Finalised
    <3>1. snap' = snap /\ ledger' = ledger /\ requests' = requests
      BY <1>0, <2>2
    <3>2. BooksOK(c) /\ Closed(c) = Closed(b)
      BY <1>1, <1>2, <1>3, <3>1 DEF BooksOK, Closed
    <3>3. OnlyExpire(requests, requests')
      BY <3>1 DEF OnlyExpire
    <3> QED
      BY <1>4, <1>5, <2>2, <3>1, <3>2, <3>3, PayFacts
  <2> QED
    BY <2>1, <2>2
<1>7. PayInv'
  <2>1. \A y \in Session : CallOK(call'[y], snap', requests')
    BY <1>0, <1>6, PayFacts, CallStays
  <2>2. Attendance' /\ DOMAIN call' = Session /\ overlapped' \in BOOLEAN
    BY <1>0 DEF PayInv, PayTyped, Attendance
  <2>3. PayTyped'
    BY <1>6, <2>1, <2>2 DEF PayTyped
  <2>4. ASSUME ~ overlapped' PROVE PayCalm'
    <3>1. ~ overlapped /\ \A y \in Session : call'[y] = Idle
      BY <1>0, <2>4
    <3>2. \A states, rqs : StillSeen(Idle, states, rqs)
      BY DEF StillSeen, Idle
    <3> QED
      BY <1>6, <3>1, <3>2 DEF PayCalm
  <2>5. overlapped' => PayCalm'
    BY DEF PayCalm
  <2> QED
    BY <2>3, <2>4, <2>5 DEF PayInv
<1>8. RequestStateMachine
  BY <1>6, ExpiryProgresses
<1>9. PendingCoveredExpire
  <2>1. \A k \in Months : Recomputes(k) => k = m /\ lifecycle[m] \in Finalised
    <3>1. \A y \in Session : ~ (call[y] # Idle /\ call'[y] = Idle)
      BY <1>0
    <3>2. \A k \in Months : k # m => holidays'[k] = holidays[k]
      BY <1>0, PayFacts
    <3> QED
      BY <3>1, <3>2 DEF Recomputes, ClosedMonths
  <2>2. CASE lifecycle[m] \in Finalised
    <3>1. ~ \E y \in Session : call[y].kind = "close" /\ call'[y] = Idle
      BY <1>0 DEF Idle
    <3>2. {k \in ClosedMonths' : k >= m} = sources
      BY <1>0, <1>1, PayrollAssumption DEF ClosedMonths, Months
    <3>3. Refreshed(m) = sources
      BY <3>1, <3>2 DEF Refreshed
    <3>4. ~ overlapped' => Settled(requests', snap', Refreshed(m))
      BY <1>0, <1>6, <2>2, <3>3
    <3>5. \A k \in Months : Recomputes(k) => k = m
      BY <2>1
    <3> QED
      BY <3>4, <3>5, LoudStep
  <2>3. CASE lifecycle[m] \notin Finalised
    BY <2>1, <2>3 DEF PendingCoveredExpire
  <2> QED
    BY <2>2, <2>3
<1> QED
  BY <1>7, <1>8, <1>9 DEF Progress

LEMMA CorrectionPays ==
    ASSUME PayInv, ClaimsInv', NEW s \in Staff, NEW m \in Months, NEW d \in Dates, CorrectAttendance(s, m, d)
    PROVE  PayInv' /\ Progress
<1>1. /\ Books' = Books /\ call' = call /\ overlapped' = overlapped /\ lifecycle' = lifecycle
      /\ snap' = snap /\ ledger' = ledger /\ requests' = requests /\ holidays' = holidays
  BY DEF CorrectAttendance, books, Books
<1>2. Attendance'
  <2>1. \A row \in [Months -> SUBSET Dates], worked \in SUBSET Dates :
            [row EXCEPT ![m] = worked] \in [Months -> SUBSET Dates]
    OBVIOUS
  <2>2. attended \in [Staff -> [Months -> SUBSET Dates]] /\ attended[s][m] \in SUBSET Dates
    BY DEF PayInv, PayTyped, Attendance
  <2> PICK worked : worked = IF d \in attended[s][m] THEN attended[s][m] \ {d} ELSE attended[s][m] \cup {d}
    OBVIOUS
  <2>3. worked \in SUBSET Dates
    BY <2>2
  <2>4. attended' = [attended EXCEPT ![s] = [attended[s] EXCEPT ![m] = worked]]
    BY DEF CorrectAttendance
  <2> QED
    BY <2>1, <2>2, <2>3, <2>4 DEF Attendance
<1>3. PayInv'
  BY <1>1, <1>2 DEF PayInv, PayTyped, PayCalm
<1>4. RequestStateMachine
  BY <1>1 DEF RequestStateMachine
<1>5. PendingCoveredExpire
  BY <1>1, QuietStep
<1> QED
  BY <1>3, <1>4, <1>5 DEF Progress

LEMMA BeginPays ==
    ASSUME PayInv, ClaimsInv', NEW x \in Session, NEW c, Begin(x, c), CallOK(c, snap, requests),
           StillSeen(c, lifecycle, requests)
    PROVE  PayInv' /\ Progress
BY BeginKeepsPay, BeginProgresses

LEMMA PayStep == PayInv /\ [Next]_vars => PayInv' /\ (Progress \/ UNCHANGED vars)
<1> SUFFICES ASSUME PayInv, [Next]_vars
             PROVE  PayInv' /\ (Progress \/ UNCHANGED vars)
  OBVIOUS
<1>0. ClaimsInv'
  BY ClaimsStep DEF PayInv
<1>1. ASSUME NEW x \in Session, NEW m \in Months, NEW r \in RequiredDays, BeginEdit(x, m, r)
      PROVE  PayInv' /\ Progress
  <2> PICK c : c = [kind |-> "edit", month |-> m, required |-> r, seen |-> lifecycle[m]]
    OBVIOUS
  <2>1. Begin(x, c)
    BY <1>1 DEF BeginEdit
  <2>2. CallOK(c, snap, requests)
    BY PayFacts, PayrollAssumption DEF CallOK, Verbs
  <2>3. StillSeen(c, lifecycle, requests)
    BY DEF StillSeen
  <2> QED
    BY <1>0, <2>1, <2>2, <2>3, BeginPays
<1>2. ASSUME NEW x \in Session, NEW m \in Months, NEW d \in Dates, AddHoliday(x, m, d) \/ RemoveHoliday(x, m, d)
      PROVE  PayInv' /\ Progress
  <2>1. holidays[m] \cup {d} \in SUBSET Dates /\ holidays[m] \ {d} \in SUBSET Dates
    BY PayFacts
  <2> QED
    BY <1>0, <1>2, <2>1, HolidaysPay DEF AddHoliday, RemoveHoliday
<1>3. ASSUME NEW x \in Session, NEW m \in Months, NEW verb \in Verbs, BeginVerb(x, m, verb)
      PROVE  PayInv' /\ Progress
  <2> PICK c : c = [kind |-> verb, month |-> m]
    OBVIOUS
  <2>1. Begin(x, c) /\ Target(lifecycle[m], verb) # "NONE"
    BY <1>3 DEF BeginVerb
  <2>2. verb = "lock" => lifecycle[m] \in Finalised
    BY <2>1 DEF Target, Finalised
  <2>3. verb = "lock" => \A s \in Staff : m \in DOMAIN snap[s]
    BY <2>2, PayFacts, BooksAre DEF Closed
  <2>4. CallOK(c, snap, requests)
    BY <2>3 DEF CallOK, Verbs
  <2>5. StillSeen(c, lifecycle, requests)
    BY <2>2 DEF StillSeen, Verbs
  <2> QED
    BY <1>0, <2>1, <2>4, <2>5, BeginPays
<1>4. ASSUME NEW x \in Session, NEW m \in Months, NEW s \in Staff, NEW n \in 1 .. Cardinality(Dates) + 1,
             NEW u \in Users, BeginRaise(x, s, m, n, u)
      PROVE  PayInv' /\ Progress
  <2> PICK rq : rq = [staff |-> s, source |-> m, days |-> n, status |-> "PENDING", by |-> u]
    OBVIOUS
  <2> PICK c : c = [kind |-> "raise", rq |-> rq]
    OBVIOUS
  <2>1. Begin(x, c)
    BY <1>4 DEF BeginRaise
  <2>2. n \in Nat \ {0}
    BY FS_CardinalityType, PayrollAssumption
  <2>3. rq \in Request
    BY <2>2 DEF Request, Statuses, Active
  <2>4. CallOK(c, snap, requests)
    BY <2>3 DEF CallOK, Verbs
  <2>5. StillSeen(c, lifecycle, requests)
    BY DEF StillSeen
  <2> QED
    BY <1>0, <2>1, <2>4, <2>5, BeginPays
<1>5. ASSUME NEW x \in Session, NEW i \in DOMAIN requests, NEW u,
             (\E to \in {"approve", "reject"} : BeginDecide(x, i, to, u)) \/ BeginCancel(x, i, u)
      PROVE  PayInv' /\ Progress
  <2> PICK kind \in {"approve", "reject", "cancel"} :
             Begin(x, [kind |-> kind, index |-> i]) /\ requests[i].status = "PENDING"
    BY <1>5 DEF BeginDecide, BeginCancel
  <2> PICK c : c = [kind |-> kind, index |-> i]
    OBVIOUS
  <2>1. CallOK(c, snap, requests) /\ StillSeen(c, lifecycle, requests)
    BY DEF CallOK, StillSeen, Verbs
  <2> QED
    BY <1>0, <2>1, BeginPays
<1>6. ASSUME NEW x \in Session, CommitReject(x) \/ CommitCancel(x)
      PROVE  PayInv' /\ Progress
  BY <1>0, <1>6, RefusalPays DEF CommitReject, CommitCancel
<1>7. ASSUME NEW x \in Session,
             \/ CommitEdit(x) \/ CommitClose(x) \/ CommitLock(x) \/ CommitReopen(x)
             \/ CommitRaise(x) \/ CommitApprove(x)
      PROVE  PayInv' /\ Progress
  BY <1>0, <1>7, EditPays, ClosePays, LockPays, ReopenPays, RaisePays, ApprovePays
<1>8. ASSUME NEW s \in Staff, NEW m \in Months, NEW d \in Dates, CorrectAttendance(s, m, d)
      PROVE  PayInv' /\ Progress
  BY <1>0, <1>8, CorrectionPays
<1>9. CASE UNCHANGED vars
  <2>1. Books' = Books
    BY <1>9 DEF vars, Books
  <2> QED
    BY <1>0, <1>9, <2>1 DEF vars, PayInv, PayTyped, PayCalm, Attendance
<1> QED
  BY <1>1, <1>2, <1>3, <1>4, <1>5, <1>6, <1>7, <1>8, <1>9 DEF Next

\* The rows of a ledger have the balances there can be.
LEMMA RangesHold ==
    ASSUME NEW rows \in Seq(LedgerRows), ~ AllowNegative, NEW i \in 1 .. Len(rows)
    PROVE  rows[i].balance \in 0 .. Cap
<1>1. rows[i] \in LedgerRows
  BY ElementOfSeq
<1> QED
  BY <1>1 DEF LedgerRows, RowsOver, Balances

LEMMA LedgersHold == PayInv => LedgersInRange
<1> SUFFICES ASSUME PayInv, NEW s \in Staff PROVE Ledger(s)!BalanceInRange
  BY DEF LedgersInRange
<1>1. ledger[s] \in Seq(LedgerRows)
  BY PayFacts
<1> QED
  BY <1>1, RangesHold DEF Ledger!BalanceInRange

(* Every record of the payroll is well formed and every balance is in its   *)
(* range (TypeOK, LedgersInRange), however calls overlap.                   *)
THEOREM PayrollTypeCorrect == Spec => [](TypeOK /\ LedgersInRange)
<1>1. Init => PayInv
  BY PayStart
<1>2. PayInv /\ [Next]_vars => PayInv'
  BY PayStep
<1>3. PayInv => TypeOK /\ LedgersInRange
  BY PayInvHolds, LedgersHold
<1> QED
  BY <1>1, <1>2, <1>3, PTL DEF Spec

(* A finalised month has absorbed what was approved, and defers no more     *)
(* than somebody has to make up (DeferralsKept), for any staff, months and  *)
(* calls that do not overlap.                                               *)
THEOREM DeferralsAreKept == Spec => []DeferralsKept
<1>1. Init => PayInv
  BY PayStart
<1>2. PayInv /\ [Next]_vars => PayInv'
  BY PayStep
<1>3. PayInv => DeferralsKept
  BY PayInvHolds
<1> QED
  BY <1>1, <1>2, <1>3, PTL DEF Spec

(* A request moves on only as it may, and one that its month's balance has  *)
(* come to cover does not stay pending (RequestsProgress): if it did, an    *)
(* approved one would be deferring days of the same month.                  *)
THEOREM RequestsDoProgress == Spec => RequestsProgress
<1>1. Init => PayInv
  BY PayStart
<1>2. PayInv /\ [Next]_vars => PayInv'
  BY PayStep
<1>3. PayInv /\ [Next]_vars => [RequestStateMachine /\ PendingCoveredExpire]_vars
  BY PayStep DEF Progress
<1> QED
  BY <1>1, <1>2, <1>3, PTL DEF Spec, RequestsProgress

-----------------------------------------------------------------------------
(* Marks: the shape of the tables and of what requests are about to write.  *)

MarkRow == [score: Nat, max: Nat, absent: BOOLEAN, grade: {"none", "passed", "F"}]
SubjectRow == [upload: Nat, line: Nat, student: Student, subject: Subject, score: Nat, absent: BOOLEAN]
ReviewRow == [upload: Nat, line: Nat, score: Nat, subject: Subject \cup {"all"},
              by: Student \cup {Stranger}]
PaperRow == [question: Question, points: Nat]
Names == {"key.pdf", "new.pdf"}
TestRow == [status: {"none", "DRAFT", "ACTIVE"}, deleted: BOOLEAN, batches: SUBSET Batches,
            totals: UNION {[us -> SubjectTotals] : us \in SUBSET Subject}, key: {"none"} \cup Names]

\* A row of a subject is of a subject of the test and within its total.
RowFits(r) ==
    /\ r \in SubjectRow /\ r.subject \in DOMAIN test.totals
    /\ test.totals[r.subject] = NoTotal \/ r.score <= test.totals[r.subject]

\* What a request may be about to write.
WorkOK(w) ==
    /\ DOMAIN w.marks \subseteq Student
    /\ \A s \in DOMAIN w.marks : w.marks[s].was \in MarkRow \cup {NoMark} /\ w.marks[s].new \in MarkRow
    /\ IsFiniteSet(w.added) /\ \A r \in w.added : RowFits(r)
    /\ w.unmatched \subseteq ReviewRow /\ w.by \in Student \cup {Stranger}
    /\ DOMAIN w.answers \subseteq Student \X Question
    /\ \A x \in DOMAIN w.answers : w.answers[x].fresh \in BOOLEAN /\ w.answers[x].earned \in Nat
    /\ w.kind = "key" => DOMAIN w.changes = {"key"} /\ w.changes["key"] \in Names
    /\ w.kind = "publish" => DOMAIN w.changes = {"status"} /\ w.changes["status"] = "ACTIVE"
    /\ w.kind \notin {"key", "publish"} => DOMAIN w.changes = {}
    /\ w.kind # "subject" => w.added = {} /\ w.dropped = {}

MarksTyped ==
    /\ test \in TestRow /\ (test = NoTest \/ test.status # "none")
    /\ test = NoTest => /\ subjectMarks = {} /\ lost = {} /\ \A s \in Student : basis[s] = "none"
                        /\ \A e \in Examiner : marking[e] = NoWork
    /\ enrolled \in [Student -> Batches \cup {"none"}]
    /\ paper \in Seq(PaperRow)
    /\ marks \in [Student -> Seq(MarkRow)]
    /\ IsFiniteSet(subjectMarks) /\ \A r \in subjectMarks : RowFits(r)
    /\ reviews \subseteq ReviewRow
    /\ responses \in [Student \X Question -> Seq(Nat)]
    /\ marking = [e \in Examiner |-> marking[e]]
    /\ \A e \in Examiner : marking[e] # NoWork => WorkOK(marking[e])
    /\ begun \in Nat /\ disturbed \in BOOLEAN
    /\ basis = [s \in Student |-> basis[s]]
    /\ IsFiniteSet(lost) /\ \A r \in lost : RowFits(r)

\* A student's rows of a subject are from one file: absent once, or present.
OneFile(rows) ==
    \A r, q \in rows :
        r.student = q.student /\ r.subject = q.subject /\ r # q =>
            r.upload = q.upload /\ ~ r.absent /\ ~ q.absent

\* A mark that is the sum of a student's rows.
AddsUp(mark, s, rows) ==
    LET own == {r \in rows : r.student = s}
        present == {r \in own : ~ r.absent}
    IN  /\ mark.absent = (present = {})
        /\ mark.score = TotalOf(present)
        /\ (/\ \A r, q \in own : r.subject = q.subject => r = q
            /\ \A u \in DOMAIN test.totals : test.totals[u] # NoTotal)
           => mark.score <= mark.max

\* The rows marks are the sums of: the live ones, and those that were replaced
\* while their student had left.
RowsInMarks == subjectMarks \cup lost

\* The rows there will be.
Outcome(w) == (subjectMarks \ w.dropped) \cup w.added

\* What a request read is still so, and what it will write is right.
StillRight(w) ==
    /\ \A s \in DOMAIN w.marks : w.marks[s].was = RowOf(s)
    /\ \A x \in DOMAIN w.answers : (w.answers[x].fresh <=> responses[x] = <<>>)
    /\ w.kind = "subject" =>
          /\ OneFile(Outcome(w))
          /\ \A s \in DOMAIN w.marks : AddsUp(w.marks[s].new, s, Outcome(w))
          /\ \A r \in w.added : r.student \in DOMAIN w.marks
    /\ w.kind = "key" => w.changes["key"] \in files

\* While no two requests were under way at once.
MarksCalm ==
    disturbed \/
        /\ \A d, e \in Examiner : marking[d] # NoWork /\ marking[e] # NoWork => d = e
        /\ \A s \in Student : Len(marks[s]) <= 1
        /\ \A x \in Student \X Question : Len(responses[x]) <= 1
        /\ \A e \in Examiner : marking[e] # NoWork => StillRight(marking[e])
        /\ OneFile(subjectMarks)
        /\ \A s \in Student : basis[s] = "subject" =>
              marks[s] # <<>> /\ AddsUp(marks[s][1], s, RowsInMarks)
        /\ \/ test.key \in files \cup {"none"}
           \/ \E e \in Examiner : marking[e].kind = "key"

MarksInv == MarksTyped /\ MarksCalm

-----------------------------------------------------------------------------
(* Sums of marks.                                                           *)

LEMMA TotalOfIs ==
    ASSUME NEW rows, IsFiniteSet(rows), \A r \in rows : r.score \in Nat
    PROVE  TotalOf(rows) \in Nat /\ (rows = {} => TotalOf(rows) = 0)
<1> PICK f : f = [r \in rows |-> r.score]
  OBVIOUS
<1>1. TotalOf(rows) = Total(f, rows)
  BY SumOfAll DEF TotalOf
<1>2. \A r \in rows : f[r] \in Nat
  OBVIOUS
<1>3. Total(f, rows) \in Nat
  BY <1>2, TotalIsNat
<1>4. rows = {} => Total(f, rows) = 0
  BY TotalOfNone
<1> QED
  BY <1>1, <1>3, <1>4

\* What a subject counts for in the whole.
Counts == [u \in DOMAIN test.totals |-> IF test.totals[u] = NoTotal THEN 0 ELSE test.totals[u]]

LEMMA PossibleIs ==
    ASSUME test \in TestRow
    PROVE  /\ IsFiniteSet(DOMAIN test.totals) /\ DOMAIN test.totals \subseteq Subject
           /\ Possible = Total(Counts, DOMAIN test.totals) /\ Possible \in Nat
           /\ \A u \in DOMAIN test.totals : Counts[u] \in Nat /\ test.totals[u] \in Nat \cup {NoTotal}
<1>1. PICK us \in SUBSET Subject : test.totals \in [us -> SubjectTotals]
  BY DEF TestRow
<1>2. \A u \in DOMAIN test.totals : Counts[u] \in Nat /\ test.totals[u] \in Nat \cup {NoTotal}
  <2> HIDE DEF NoTotal
  <2> QED
    BY <1>1, TestsAssumption DEF Counts
<1>3. IsFiniteSet(DOMAIN test.totals) /\ DOMAIN test.totals \subseteq Subject
  BY <1>1, TestsAssumption, FS_Subset
<1>4. DOMAIN Counts = DOMAIN test.totals
  BY DEF Counts
<1>5. Possible = Total(Counts, DOMAIN test.totals)
  BY <1>4, SumOfAll DEF Possible, Counts
<1> QED
  BY <1>2, <1>3, <1>5, TotalIsNat

\* One row a subject, each within the total of its subject: within the whole.
LEMMA WithinPossible ==
    ASSUME test \in TestRow, NEW rows, IsFiniteSet(rows), \A r \in rows : RowFits(r),
           \A r, q \in rows : r.subject = q.subject => r = q,
           \A u \in DOMAIN test.totals : test.totals[u] # NoTotal
    PROVE  TotalOf(rows) <= Possible
<1> PICK D : D = DOMAIN test.totals
  OBVIOUS
<1> PICK f : f = [r \in rows |-> r.score]
  OBVIOUS
<1> PICK part : part = [u \in D |-> {r \in rows : r.subject = u}]
  OBVIOUS
<1> PICK g : g = [u \in D |-> Total(f, part[u])]
  OBVIOUS
<1>1. /\ IsFiniteSet(D) /\ Possible = Total(Counts, D) /\ \A u \in D : Counts[u] \in Nat
  BY PossibleIs
<1>2. \A r \in rows : /\ f[r] \in Nat /\ f[r] = r.score /\ r.subject \in D
                      /\ f[r] <= Counts[r.subject]
  <2> SUFFICES ASSUME NEW r \in rows
               PROVE  /\ f[r] \in Nat /\ f[r] = r.score /\ r.subject \in D
                      /\ f[r] <= Counts[r.subject]
    OBVIOUS
  <2>1. RowFits(r)
    OBVIOUS
  <2>2. r.score \in Nat /\ r.subject \in D /\ test.totals[r.subject] # NoTotal
    BY <2>1 DEF RowFits, SubjectRow
  <2>3. Counts[r.subject] = test.totals[r.subject]
    BY <2>2 DEF Counts
  <2> QED
    BY <2>1, <2>2, <2>3 DEF RowFits
<1>3. Parts(part, D, rows)
  BY <1>2 DEF Parts
<1>4. \A r \in rows : f[r] \in Int
  BY <1>2
<1>5. Total(g, D) = Total(f, rows)
  <2>1. IsFiniteSet(rows) /\ IsFiniteSet(D)
    BY <1>1
  <2>2. g = [u \in D |-> Total(f, part[u])]
    OBVIOUS
  <2> QED
    BY ONLY <1>3, <1>4, <2>1, <2>2, TotalOfParts
<1>6. \A u \in D : g[u] \in Nat /\ g[u] <= Counts[u]
  <2> SUFFICES ASSUME NEW u \in D PROVE g[u] \in Nat /\ g[u] <= Counts[u]
    OBVIOUS
  <2>1. g[u] = Total(f, part[u]) /\ Counts[u] \in Nat
    BY <1>1
  <2>2. CASE part[u] = {}
    <3>1. Total(f, part[u]) = 0
      BY <2>2, TotalOfNone, Zenon
    <3> QED
      BY <2>1, <3>1
  <2>3. CASE part[u] # {}
    <3> PICK r : r \in part[u]
      BY <2>3
    <3>1. part[u] = {r} /\ r \in rows /\ r.subject = u
      OBVIOUS
    <3>2. f[r] \in Int /\ f[r] \in Nat /\ f[r] <= Counts[u]
      BY <1>2, <3>1
    <3>3. Total(f, {r}) = f[r]
      BY <3>2, TotalOfOne
    <3> QED
      BY <2>1, <3>1, <3>2, <3>3
  <2> QED
    BY <2>2, <2>3
<1>7. Total(g, D) <= Total(Counts, D)
  BY <1>1, <1>6, TotalGrows
<1>8. TotalOf(rows) = Total(f, rows)
  BY SumOfAll DEF TotalOf
<1> QED
  BY <1>1, <1>5, <1>7, <1>8

-----------------------------------------------------------------------------
(* Marks keep their shape.                                                  *)

LEMMA MarkOK ==
    ASSUME NEW score \in Nat, NEW max \in Nat
    PROVE  Present(score, max) \in MarkRow /\ Absent(max) \in MarkRow
BY DEF Present, Absent, Grade, MarkRow

LEMMA NoMarkIsNone == NoMark \notin MarkRow
BY DEF NoMark, MarkRow

LEMMA UpdatedOK ==
    ASSUME NEW was \in MarkRow \cup {NoMark}, NEW new \in MarkRow
    PROVE  Updated(was, new) \in MarkRow
BY NoMarkIsNone DEF Updated, MarkRow

LEMMA RowOfOK ==
    ASSUME MarksTyped, NEW s \in Student
    PROVE  RowOf(s) \in MarkRow \cup {NoMark} /\ (RowOf(s) = NoMark <=> marks[s] = <<>>)
<1>1. marks[s] \in Seq(MarkRow)
  BY DEF MarksTyped
<1>2. marks[s] # <<>> => marks[s][1] \in MarkRow
  BY <1>1
<1> QED
  BY <1>2, NoMarkIsNone DEF RowOf

LEMMA MergedOK ==
    ASSUME NEW now \in MarkRow, NEW was \in MarkRow, NEW new \in MarkRow
    PROVE  Merged(now, was, new) \in MarkRow /\ Merged(was, was, new) = new
<1>1. DOMAIN now = {"score", "max", "absent", "grade"}
  BY DEF MarkRow
<1>2. \A c \in DOMAIN now : Merged(now, was, new)[c] = now[c] \/ Merged(now, was, new)[c] = new[c]
  BY DEF Merged
<1>3. /\ DOMAIN Merged(now, was, new) = DOMAIN now
      /\ Merged(now, was, new) = [c \in DOMAIN now |-> Merged(now, was, new)[c]]
  BY DEF Merged
<1>4. Merged(now, was, new) \in MarkRow
  BY <1>1, <1>2, <1>3 DEF MarkRow
<1>5. DOMAIN was = DOMAIN new /\ new = [c \in DOMAIN new |-> new[c]]
  BY DEF MarkRow
<1>6. Merged(was, was, new) = new
  BY <1>5 DEF Merged
<1> QED
  BY <1>4, <1>6

\* What is said of rows, works and sums looks at the totals of the test only ...
LEMMA TotalsStay ==
    ASSUME test'.totals = test.totals
    PROVE  /\ \A r : RowFits(r)' = RowFits(r)
           /\ \A w : WorkOK(w)' = WorkOK(w)
           /\ \A mark, s, rows : AddsUp(mark, s, rows)' = AddsUp(mark, s, rows)
<1>1. \A r : RowFits(r)' = RowFits(r)
  BY DEF RowFits
<1>2. \A w : WorkOK(w)' = WorkOK(w)
  BY <1>1 DEF WorkOK
<1>3. \A mark, s, rows : AddsUp(mark, s, rows)' = AddsUp(mark, s, rows)
  BY DEF AddsUp
<1> QED
  BY <1>1, <1>2, <1>3

\* ... and what is said of a request at its tables.
LEMMA RightStays ==
    ASSUME test'.totals = test.totals, UNCHANGED <<marks, subjectMarks, responses, files>>
    PROVE  \A w : StillRight(w)' = StillRight(w)
<1>1. \A s : RowOf(s)' = RowOf(s)
  BY DEF RowOf
<1>2. \A w : Outcome(w)' = Outcome(w)
  BY DEF Outcome
<1>3. \A rows : OneFile(rows)' = OneFile(rows)
  BY DEF OneFile
<1> QED
  BY <1>1, <1>2, <1>3, TotalsStay DEF StillRight

MarksAside == <<test, marks, subjectMarks, reviews, responses, files, marking, begun, disturbed, basis,
              lost>>

\* Questions, the paper and the batches of students change beside the marks.
LEMMA AsideKeeps ==
    ASSUME MarksInv, UNCHANGED MarksAside,
           paper' \in Seq(PaperRow), enrolled' \in [Student -> Batches \cup {"none"}]
    PROVE  MarksInv'
<1> USE DEF MarksAside
<1>1. /\ \A r : RowFits(r)' = RowFits(r) /\ \A w : WorkOK(w)' = WorkOK(w)
      /\ \A mark, s, rows : AddsUp(mark, s, rows)' = AddsUp(mark, s, rows)
      /\ \A w : StillRight(w)' = StillRight(w)
  BY TotalsStay, RightStays
<1>2. MarksTyped'
  BY <1>1 DEF MarksInv, MarksTyped
<1>3. OneFile(subjectMarks)' = OneFile(subjectMarks) /\ RowsInMarks' = RowsInMarks
  BY DEF OneFile, RowsInMarks
<1>4. MarksCalm'
  BY <1>1, <1>3 DEF MarksInv, MarksCalm
<1> QED
  BY <1>2, <1>4 DEF MarksInv

\* A request begins.
LEMMA BeginMarkingKeeps ==
    ASSUME MarksInv, NEW e \in Examiner, NEW w, BeginMarking(e, w), test # NoTest,
           w.kind # "none", WorkOK(w), ~ disturbed' => StillRight(w)',
           \/ UNCHANGED files /\ w.kind # "key"
           \/ files' = (files \ {test.key}) \cup {w.changes["key"]} /\ w.kind = "key"
    PROVE  MarksInv'
<1>1. /\ UNCHANGED <<testTables, enrolled, basis, lost>> /\ marking[e] = NoWork
      /\ marking' = [marking EXCEPT ![e] = w] /\ begun' = begun + 1
      /\ disturbed' = (disturbed \/ \E d \in Examiner : marking[d] # NoWork)
  BY DEF BeginMarking
<1> USE DEF testTables
<1>2. /\ \A r : RowFits(r)' = RowFits(r) /\ \A v : WorkOK(v)' = WorkOK(v)
      /\ \A mark, s, rows : AddsUp(mark, s, rows)' = AddsUp(mark, s, rows)
  BY <1>1, TotalsStay
<1>3. /\ marking = [d \in Examiner |-> marking[d]]
      /\ \A d \in Examiner : marking'[d] = IF d = e THEN w ELSE marking[d]
      /\ marking' = [d \in Examiner |-> marking'[d]]
  <2>1. marking = [d \in Examiner |-> marking[d]]
    BY DEF MarksInv, MarksTyped
  <2> QED
    BY <1>1, <2>1
<1>4. MarksTyped'
  BY <1>1, <1>2, <1>3 DEF MarksInv, MarksTyped
<1>5. ASSUME ~ disturbed' PROVE MarksCalm'
  <2>1. ~ disturbed /\ \A d \in Examiner : marking[d] = NoWork
    BY <1>1, <1>5
  <2>2. \A d \in Examiner : marking'[d] # NoWork => d = e
    BY <1>3, <2>1
  <2>3. \A d \in Examiner : marking'[d] # NoWork => StillRight(marking[d])'
    BY <1>3, <1>5, <2>2
  <2>4. OneFile(subjectMarks)' = OneFile(subjectMarks) /\ RowsInMarks' = RowsInMarks
    BY <1>1 DEF OneFile, RowsInMarks
  <2>5. \/ test'.key \in files' \cup {"none"}
        \/ \E d \in Examiner : marking'[d].kind = "key"
    <3>1. CASE w.kind = "key"
      BY <1>3, <3>1
    <3>2. CASE w.kind # "key"
      <4>1. \A d \in Examiner : marking[d].kind # "key"
        BY <2>1 DEF NoWork
      <4> QED
        BY <1>1, <2>1, <3>2, <4>1 DEF MarksInv, MarksCalm
    <3> QED
      BY <3>1, <3>2
  <2>6. /\ \A s \in Student : Len(marks'[s]) <= 1
        /\ \A x \in Student \X Question : Len(responses'[x]) <= 1
        /\ OneFile(subjectMarks)'
        /\ \A s \in Student : basis'[s] = "subject" =>
              marks'[s] # <<>> /\ AddsUp(marks[s][1], s, RowsInMarks)'
    BY <1>1, <1>2, <2>1, <2>4 DEF MarksInv, MarksCalm
  <2> QED
    BY <2>2, <2>3, <2>5, <2>6 DEF MarksCalm
<1>6. disturbed' => MarksCalm'
  BY DEF MarksCalm
<1> QED
  BY <1>4, <1>5, <1>6 DEF MarksInv

LEMMA AbandonKeeps ==
    ASSUME MarksInv, NEW e \in Examiner, Abandon(e)
    PROVE  MarksInv'
<1> USE DEF Abandon, testTables
<1>1. \A r : RowFits(r)' = RowFits(r) /\ \A w : WorkOK(w)' = WorkOK(w)
  BY TotalsStay
<1>2. /\ marking' = [d \in Examiner |-> marking'[d]]
      /\ \A d \in Examiner : marking'[d] = IF d = e THEN NoWork ELSE marking[d]
  <2>1. marking = [d \in Examiner |-> marking[d]]
    BY DEF MarksInv, MarksTyped
  <2> QED
    BY <2>1
<1>3. MarksTyped'
  BY <1>1, <1>2 DEF MarksInv, MarksTyped
<1> QED
  BY <1>3 DEF MarksInv, MarksCalm

\* Before there is a test there are no marks of subjects and no requests.
LEMMA CreateTestKeeps ==
    ASSUME MarksInv, NEW bs \in SUBSET Batches, NEW us \in SUBSET Subject,
           NEW totals \in [us -> SubjectTotals], CreateTest(bs, totals)
    PROVE  MarksInv'
<1>1. /\ test = NoTest /\ UNCHANGED <<paper, marks, subjectMarks, reviews, responses>>
      /\ test' = [NoTest EXCEPT !.status = "DRAFT", !.batches = bs, !.totals = totals]
      /\ UNCHANGED <<enrolled, files, marking, begun, disturbed, basis, lost>>
  BY DEF CreateTest, AtOnce
<1>2. /\ subjectMarks = {} /\ lost = {} /\ \A s \in Student : basis[s] = "none"
      /\ \A e \in Examiner : marking[e] = NoWork
  BY <1>1 DEF MarksInv, MarksTyped
<1>3. test' \in TestRow /\ test' # NoTest /\ test'.status = "DRAFT" /\ test'.key = "none"
  BY <1>1 DEF NoTest, TestRow
<1>4. MarksTyped'
  BY <1>1, <1>2, <1>3 DEF MarksInv, MarksTyped
<1>5. MarksCalm'
  <2>1. OneFile(subjectMarks)'
    BY <1>1, <1>2 DEF OneFile
  <2> QED
    BY <1>1, <1>2, <1>3, <2>1 DEF MarksInv, MarksCalm
<1> QED
  BY <1>4, <1>5 DEF MarksInv

LEMMA DeleteTestKeeps ==
    ASSUME MarksInv, DeleteTest
    PROVE  MarksInv'
<1>1. /\ test # NoTest /\ test' = [test EXCEPT !.deleted = TRUE]
      /\ UNCHANGED <<paper, marks, subjectMarks, reviews, responses>>
      /\ UNCHANGED <<enrolled, files, marking, begun, disturbed, basis, lost>>
  BY DEF DeleteTest, AtOnce, Live
<1>2. test \in TestRow /\ test.status # "none"
  BY <1>1 DEF MarksInv, MarksTyped
<1>3. /\ test' \in TestRow /\ test'.totals = test.totals /\ test'.key = test.key
      /\ test'.status = test.status /\ test' # NoTest
  BY <1>1, <1>2 DEF NoTest, TestRow
<1>4. /\ \A r : RowFits(r)' = RowFits(r) /\ \A w : WorkOK(w)' = WorkOK(w)
      /\ \A mark, s, rows : AddsUp(mark, s, rows)' = AddsUp(mark, s, rows)
      /\ \A w : StillRight(w)' = StillRight(w)
  BY <1>1, <1>3, TotalsStay, RightStays
<1>5. MarksTyped'
  BY <1>1, <1>2, <1>3, <1>4 DEF MarksInv, MarksTyped
<1>6. OneFile(subjectMarks)' = OneFile(subjectMarks) /\ RowsInMarks' = RowsInMarks
  BY <1>1 DEF OneFile, RowsInMarks
<1>7. MarksCalm'
  BY <1>1, <1>3, <1>4, <1>6 DEF MarksInv, MarksCalm
<1> QED
  BY <1>5, <1>7 DEF MarksInv

-----------------------------------------------------------------------------
(* What a request writes at its end.                                        *)

\* A student's marks: as they were, or one of them new.
LEMMA WrittenMarksOK ==
    ASSUME MarksTyped, NEW w, WorkOK(w), NEW s \in Student
    PROVE  /\ WrittenMarks(s, w) \in Seq(MarkRow)
           /\ s \notin DOMAIN w.marks => WrittenMarks(s, w) = marks[s]
           /\ s \in DOMAIN w.marks /\ w.marks[s].was = RowOf(s) /\ Len(marks[s]) <= 1 =>
                 Len(WrittenMarks(s, w)) = 1 /\ WrittenMarks(s, w)[1] = w.marks[s].new
<1> PICK old : old = marks[s]
  OBVIOUS
<1>1. old \in Seq(MarkRow)
  BY DEF MarksTyped
<1>2. CASE s \notin DOMAIN w.marks
  BY <1>1, <1>2 DEF WrittenMarks
<1>3. CASE s \in DOMAIN w.marks
  <2> PICK was, new : was = w.marks[s].was /\ new = w.marks[s].new
    OBVIOUS
  <2>1. was \in MarkRow \cup {NoMark} /\ new \in MarkRow
    BY <1>3 DEF WorkOK
  <2>2. /\ RowOf(s) = NoMark <=> old = <<>>
        /\ RowOf(s) # NoMark => RowOf(s) = old[1] /\ old # <<>>
    BY RowOfOK DEF RowOf
  <2>3. CASE was = NoMark
    <3>1. WrittenMarks(s, w) = Append(old, new)
      BY <1>3, <2>3 DEF WrittenMarks
    <3>2. was = RowOf(s) => Len(old) = 0
      BY <2>2, <2>3
    <3> QED
      BY <1>1, <1>3, <2>1, <3>1, <3>2
  <2>4. CASE was # NoMark
    <3>1. WrittenMarks(s, w) = [old EXCEPT ![1] = Merged(old[1], was, new)]
      BY <1>3, <2>4 DEF WrittenMarks
    <3>2. CASE old = <<>>
      <4>1. DOMAIN old = {} /\ WrittenMarks(s, w) = old
        BY <1>1, <3>1, <3>2
      <4> QED
        BY <1>1, <1>3, <2>2, <2>4, <3>2, <4>1
    <3>3. CASE old # <<>>
      <4>1. old[1] \in MarkRow /\ 1 \in DOMAIN old
        BY <1>1, <3>3
      <4> PICK m : m = Merged(old[1], was, new)
        OBVIOUS
      <4>2. m \in MarkRow /\ (was = old[1] => m = new)
        BY <2>1, <2>4, <4>1, MergedOK
      <4> PICK row : row = [old EXCEPT ![1] = m]
        OBVIOUS
      <4>3. WrittenMarks(s, w) = row
        BY <3>1
      <4>4. row \in Seq(MarkRow) /\ Len(row) = Len(old) /\ row[1] = m
        BY <1>1, <4>1, <4>2
      <4>5. was = RowOf(s) => m = new
        BY <2>2, <2>4, <4>2
      <4>6. Len(old) \in Nat /\ Len(old) # 0
        BY <1>1, <3>3
      <4>7. Len(marks[s]) <= 1 => Len(row) = 1
        <5>1. Len(marks[s]) = Len(old)
          OBVIOUS
        <5> QED
          BY ONLY <4>4, <4>6, <5>1
      <4>8. w.marks[s].was = RowOf(s) => row[1] = w.marks[s].new
        BY <4>4, <4>5
      <4>9. WrittenMarks(s, w) \in Seq(MarkRow)
        BY <4>3, <4>4
      <4> QED
        BY <1>3, <4>3, <4>7, <4>8, <4>9
    <3> QED
      BY <3>2, <3>3
  <2> QED
    BY <2>3, <2>4
<1> QED
  BY <1>2, <1>3

LEMMA WrittenAnswersOK ==
    ASSUME MarksTyped, NEW w, WorkOK(w), NEW x \in Student \X Question
    PROVE  /\ WrittenAnswers(x, w) \in Seq(Nat)
           /\ (x \in DOMAIN w.answers => (w.answers[x].fresh <=> responses[x] = <<>>))
              /\ Len(responses[x]) <= 1 => Len(WrittenAnswers(x, w)) <= 1
<1> PICK old : old = responses[x]
  OBVIOUS
<1>1. old \in Seq(Nat)
  BY DEF MarksTyped
<1>2. CASE x \notin DOMAIN w.answers
  BY <1>1, <1>2 DEF WrittenAnswers
<1>3. CASE x \in DOMAIN w.answers
  <2> PICK n : n = w.answers[x].earned
    OBVIOUS
  <2>1. n \in Nat /\ w.answers[x].fresh \in BOOLEAN
    BY <1>3 DEF WorkOK
  <2>2. CASE w.answers[x].fresh
    <3>1. WrittenAnswers(x, w) = Append(old, n)
      BY <1>3, <2>2 DEF WrittenAnswers
    <3>2. Append(old, n) \in Seq(Nat) /\ Len(Append(old, n)) = Len(old) + 1
      BY <1>1, <2>1
    <3>3. old = <<>> => Len(old) = 0
      OBVIOUS
    <3> QED
      BY <1>3, <2>2, <3>1, <3>2, <3>3
  <2>3. CASE ~ w.answers[x].fresh
    <3>1. WrittenAnswers(x, w) = [old EXCEPT ![1] = n]
      BY <1>3, <2>3 DEF WrittenAnswers
    <3> PICK row : row = [old EXCEPT ![1] = n]
      OBVIOUS
    <3>2. CASE old = <<>>
      <4>1. row = old
        BY <3>2
      <4> QED
        BY <1>1, <3>1, <4>1
    <3>3. CASE old # <<>>
      <4>1. row \in Seq(Nat) /\ Len(row) = Len(old)
        BY <1>1, <2>1, <3>3
      <4> QED
        BY <3>1, <4>1
    <3> QED
      BY <3>2, <3>3
  <2> QED
    BY <2>1, <2>2, <2>3
<1> QED
  BY <1>2, <1>3

\* The row of the test: its status or its key is new.
LEMMA WrittenTestOK ==
    ASSUME test \in TestRow, test.status # "none", NEW w, WorkOK(w),
           test' = [c \in DOMAIN test |-> IF c \in DOMAIN w.changes THEN w.changes[c] ELSE test[c]]
    PROVE  /\ test' \in TestRow /\ test'.status # "none" /\ test'.totals = test.totals
           /\ test'.key = IF w.kind = "key" THEN w.changes["key"] ELSE test.key
<1>1. /\ DOMAIN test = {"status", "deleted", "batches", "totals", "key"}
      /\ test' = [status |-> test'.status, deleted |-> test'.deleted, batches |-> test'.batches,
                  totals |-> test'.totals, key |-> test'.key]
  BY DEF TestRow
<1>2. /\ test'.deleted = test.deleted /\ test'.batches = test.batches /\ test'.totals = test.totals
      /\ test'.key = IF w.kind = "key" THEN w.changes["key"] ELSE test.key
      /\ test'.status = IF w.kind = "publish" THEN "ACTIVE" ELSE test.status
  <2>1. CASE w.kind = "key"
    BY <1>1, <2>1 DEF WorkOK
  <2>2. CASE w.kind = "publish"
    BY <1>1, <2>2 DEF WorkOK
  <2>3. CASE w.kind \notin {"key", "publish"}
    BY <1>1, <2>3 DEF WorkOK
  <2> QED
    BY <2>1, <2>2, <2>3
<1>3. test'.key \in {"none"} \cup Names /\ test'.status \in {"DRAFT", "ACTIVE"}
  BY <1>2 DEF WorkOK, TestRow
<1>4. test' \in TestRow
  BY <1>1, <1>2, <1>3 DEF TestRow
<1> QED
  BY <1>2, <1>3, <1>4

\* The marks of subjects: the outcome the request aimed at.
LEMMA OutcomeOK ==
    ASSUME MarksTyped, NEW w, WorkOK(w)
    PROVE  IsFiniteSet(Outcome(w)) /\ \A r \in Outcome(w) : RowFits(r)
<1>1. IsFiniteSet(subjectMarks) /\ \A r \in subjectMarks : RowFits(r)
  BY DEF MarksTyped
<1>2. IsFiniteSet(w.added) /\ \A r \in w.added : RowFits(r)
  BY DEF WorkOK
<1>3. IsFiniteSet(subjectMarks \ w.dropped)
  BY <1>1, FS_Difference
<1> QED
  BY <1>1, <1>2, <1>3, FS_Union DEF Outcome

LEMMA CommitMarkingKeeps ==
    ASSUME MarksInv, NEW e \in Examiner, CommitMarking(e)
    PROVE  MarksInv'
<1> PICK w : w = marking[e]
  OBVIOUS
<1>1. /\ w # NoWork
      /\ test' = [c \in DOMAIN test |-> IF c \in DOMAIN w.changes THEN w.changes[c] ELSE test[c]]
      /\ marks' = [s \in Student |-> WrittenMarks(s, w)]
      /\ subjectMarks' = Outcome(w)
      /\ responses' = [x \in DOMAIN responses |-> WrittenAnswers(x, w)]
      /\ basis' = [s \in Student |-> IF s \in DOMAIN w.marks THEN w.kind ELSE basis[s]]
      /\ lost' = {r \in lost \cup (subjectMarks \cap w.dropped) : r.student \notin DOMAIN w.marks}
      /\ marking' = [marking EXCEPT ![e] = NoWork]
      /\ UNCHANGED <<paper, enrolled, files, begun, disturbed>>
  BY DEF CommitMarking, Outcome
<1>2. reviews' = w.unmatched \cup
          {IF ReviewId(r) \in w.resolved THEN [r EXCEPT !.by = w.by] ELSE r :
              r \in {q \in reviews : ReviewId(q) \notin w.cleared}}
  BY DEF CommitMarking
<1>3. WorkOK(w) /\ test # NoTest /\ test \in TestRow /\ test.status # "none" /\ MarksTyped
  BY <1>1 DEF MarksInv, MarksTyped
<1>4. /\ test' \in TestRow /\ test'.status # "none" /\ test'.totals = test.totals
      /\ test'.key = IF w.kind = "key" THEN w.changes["key"] ELSE test.key
  BY <1>1, <1>3, WrittenTestOK
<1>5. test' # NoTest
  BY <1>4 DEF NoTest
<1>6. /\ \A r : RowFits(r)' = RowFits(r) /\ \A v : WorkOK(v)' = WorkOK(v)
      /\ \A mark, s, rows : AddsUp(mark, s, rows)' = AddsUp(mark, s, rows)
  BY <1>4, TotalsStay
<1>7. reviews' \subseteq ReviewRow
  <2>1. w.unmatched \subseteq ReviewRow /\ w.by \in Student \cup {Stranger} /\ reviews \subseteq ReviewRow
    BY <1>3 DEF WorkOK, MarksTyped
  <2>2. ASSUME NEW r \in reviews PROVE [r EXCEPT !.by = w.by] \in ReviewRow
    BY <2>1 DEF ReviewRow
  <2> QED
    BY <1>2, <2>1, <2>2
<1>8. /\ marking = [d \in Examiner |-> marking[d]]
      /\ \A d \in Examiner : marking'[d] = IF d = e THEN NoWork ELSE marking[d]
      /\ marking' = [d \in Examiner |-> marking'[d]]
  <2>1. marking = [d \in Examiner |-> marking[d]]
    BY <1>3 DEF MarksTyped
  <2> QED
    BY <1>1, <2>1
<1>9. MarksTyped'
  <2>1. IsFiniteSet(subjectMarks') /\ \A r \in subjectMarks' : RowFits(r)'
    BY <1>1, <1>3, <1>6, OutcomeOK
  <2>2. marks' \in [Student -> Seq(MarkRow)]
    BY <1>1, <1>3, WrittenMarksOK
  <2>3. responses' \in [Student \X Question -> Seq(Nat)]
    <3>1. DOMAIN responses = Student \X Question
      BY <1>3 DEF MarksTyped
    <3> QED
      BY <1>1, <1>3, <3>1, WrittenAnswersOK
  <2>4. IsFiniteSet(lost') /\ \A r \in lost' : RowFits(r)'
    <3>1. IsFiniteSet(subjectMarks \cup lost) /\ \A r \in subjectMarks \cup lost : RowFits(r)
      BY <1>3, FS_Union DEF MarksTyped
    <3>2. lost' \subseteq subjectMarks \cup lost
      BY <1>1
    <3>3. IsFiniteSet(lost')
      BY ONLY <3>1, <3>2, FS_Subset
    <3> QED
      BY <1>6, <3>1, <3>2, <3>3
  <2>5. basis' = [s \in Student |-> basis'[s]]
    BY <1>1
  <2>6. \A d \in Examiner : marking'[d] # NoWork => WorkOK(marking[d])'
    BY <1>3, <1>6, <1>8 DEF MarksTyped
  <2> QED
    BY <1>1, <1>3, <1>4, <1>5, <1>7, <1>8, <2>1, <2>2, <2>3, <2>4, <2>5, <2>6 DEF MarksTyped
<1>10. ASSUME ~ disturbed' PROVE MarksCalm'
  <2>1. /\ ~ disturbed /\ \A d \in Examiner : marking[d] # NoWork => d = e
        /\ StillRight(w) /\ OneFile(subjectMarks)
        /\ \A s \in Student : Len(marks[s]) <= 1
        /\ \A x \in Student \X Question : Len(responses[x]) <= 1
        /\ \A s \in Student : basis[s] = "subject" =>
              marks[s] # <<>> /\ AddsUp(marks[s][1], s, RowsInMarks)
    BY <1>1, <1>10 DEF MarksInv, MarksCalm
  <2>2. \A d \in Examiner : marking'[d] = NoWork
    BY <1>8, <2>1
  <2>3. \A s \in Student :
            /\ Len(marks'[s]) <= 1
            /\ s \in DOMAIN w.marks => marks'[s] # <<>> /\ marks'[s][1] = w.marks[s].new
            /\ s \notin DOMAIN w.marks => marks'[s] = marks[s]
    <3> SUFFICES ASSUME NEW s \in Student
                 PROVE  /\ Len(marks'[s]) <= 1
                        /\ s \in DOMAIN w.marks => marks'[s] # <<>> /\ marks'[s][1] = w.marks[s].new
                        /\ s \notin DOMAIN w.marks => marks'[s] = marks[s]
      OBVIOUS
    <3>1. marks'[s] = WrittenMarks(s, w) /\ Len(marks[s]) <= 1
      BY <1>1, <2>1
    <3>2. s \notin DOMAIN w.marks => WrittenMarks(s, w) = marks[s]
      BY <1>3, WrittenMarksOK
    <3>3. s \in DOMAIN w.marks => Len(WrittenMarks(s, w)) = 1 /\ WrittenMarks(s, w)[1] = w.marks[s].new
      <4>1. s \in DOMAIN w.marks => w.marks[s].was = RowOf(s)
        BY <2>1 DEF StillRight
      <4> QED
        BY <1>3, <2>1, <4>1, WrittenMarksOK
    <3>4. Len(<<>>) = 0
      OBVIOUS
    <3>5. CASE s \in DOMAIN w.marks
      <4>1. Len(marks'[s]) = 1 /\ marks'[s][1] = w.marks[s].new
        BY <3>1, <3>3, <3>5
      <4>2. marks'[s] # <<>>
        BY <3>4, <4>1
      <4> QED
        BY <3>5, <4>1, <4>2
    <3>6. CASE s \notin DOMAIN w.marks
      BY <3>1, <3>2, <3>6
    <3> QED
      BY <3>5, <3>6
  <2>4. \A x \in Student \X Question : Len(responses'[x]) <= 1
    <3> SUFFICES ASSUME NEW x \in Student \X Question PROVE Len(responses'[x]) <= 1
      OBVIOUS
    <3>1. DOMAIN responses = Student \X Question
      BY <1>3 DEF MarksTyped
    <3>2. x \in DOMAIN w.answers => (w.answers[x].fresh <=> responses[x] = <<>>)
      BY <2>1 DEF StillRight
    <3>3. responses'[x] = WrittenAnswers(x, w) /\ Len(responses[x]) <= 1
      BY <1>1, <2>1, <3>1
    <3> QED
      BY <1>3, <3>2, <3>3, WrittenAnswersOK
  <2>5. w.kind # "subject" => w.added = {} /\ w.dropped = {} /\ subjectMarks' = subjectMarks
    BY <1>1, <1>3 DEF WorkOK, Outcome
  <2>6. OneFile(subjectMarks)'
    <3>1. OneFile(Outcome(w))
      <4>1. CASE w.kind = "subject"
        BY <2>1, <4>1 DEF StillRight
      <4>2. CASE w.kind # "subject"
        BY <1>1, <2>1, <2>5, <4>2
      <4> QED
        BY <4>1, <4>2
    <3> QED
      BY <1>1, <3>1 DEF OneFile
  <2>7. ASSUME NEW s \in Student, basis'[s] = "subject"
        PROVE  marks'[s] # <<>> /\ AddsUp(marks[s][1], s, RowsInMarks)'
    <3>1. CASE s \in DOMAIN w.marks
      <4>1. w.kind = "subject"
        BY <1>1, <2>7, <3>1
      <4>2. AddsUp(w.marks[s].new, s, Outcome(w))
        BY <2>1, <3>1, <4>1 DEF StillRight
      <4>3. {r \in RowsInMarks' : r.student = s} = {r \in Outcome(w) : r.student = s}
        BY <1>1, <3>1 DEF RowsInMarks
      <4>4. AddsUp(w.marks[s].new, s, RowsInMarks')
        BY <4>2, <4>3 DEF AddsUp
      <4> QED
        BY <1>1, <2>3, <3>1, <4>4, <1>6
    <3>2. CASE s \notin DOMAIN w.marks
      <4>1. basis[s] = "subject"
        BY <1>1, <2>7, <3>2
      <4>2. \A r \in w.added : r.student # s
        BY <2>1, <2>5, <3>2 DEF StillRight
      <4>3. {r \in RowsInMarks' : r.student = s} = {r \in RowsInMarks : r.student = s}
        BY <1>1, <3>2, <4>2 DEF Outcome, RowsInMarks
      <4>4. AddsUp(marks[s][1], s, RowsInMarks) /\ marks[s] # <<>>
        BY <2>1, <4>1
      <4>5. AddsUp(marks[s][1], s, RowsInMarks')
        BY <4>3, <4>4 DEF AddsUp
      <4> QED
        BY <1>1, <1>6, <2>3, <3>2, <4>4, <4>5
    <3> QED
      BY <3>1, <3>2
  <2>8. test'.key \in files' \cup {"none"}
    <3>1. CASE w.kind = "key"
      BY <1>1, <1>4, <2>1, <3>1 DEF StillRight
    <3>2. CASE w.kind # "key"
      <4>1. \A d \in Examiner : marking[d].kind # "key"
        BY <2>1, <3>2 DEF NoWork
      <4>2. test.key \in files \cup {"none"}
        BY <2>1, <4>1 DEF MarksInv, MarksCalm
      <4> QED
        BY <1>1, <1>4, <3>2, <4>2
    <3> QED
      BY <3>1, <3>2
  <2> QED
    BY <2>2, <2>3, <2>4, <2>6, <2>7, <2>8 DEF MarksCalm
<1>11. disturbed' => MarksCalm'
  BY DEF MarksCalm
<1> QED
  BY <1>9, <1>10, <1>11 DEF MarksInv

-----------------------------------------------------------------------------
(* What a request sets out to write.                                        *)

LEMMA UpsertedOK ==
    ASSUME MarksTyped, NEW new, DOMAIN new \subseteq Student, \A s \in DOMAIN new : new[s] \in MarkRow
    PROVE  /\ DOMAIN Upserted(new) = DOMAIN new
           /\ \A s \in DOMAIN new : /\ Upserted(new)[s].was = RowOf(s)
                                    /\ Upserted(new)[s].was \in MarkRow \cup {NoMark}
                                    /\ Upserted(new)[s].new \in MarkRow
<1>1. \A s \in DOMAIN new : RowOf(s) \in MarkRow \cup {NoMark}
  BY RowOfOK
<1>2. \A s \in DOMAIN new : Updated(RowOf(s), new[s]) \in MarkRow
  BY <1>1, UpdatedOK
<1> QED
  BY <1>1, <1>2 DEF Upserted

LEMMA PlainBegin ==
    ASSUME MarksInv, NEW e \in Examiner, NEW w, BeginMarking(e, w), Live, UNCHANGED files,
           w.kind \notin {"none", "subject", "key"}, WorkOK(w),
           \A s \in DOMAIN w.marks : w.marks[s].was = RowOf(s),
           \A x \in DOMAIN w.answers : w.answers[x].fresh <=> responses[x] = <<>>
    PROVE  MarksInv'
<1>1. test # NoTest
  BY DEF Live
<1>2. UNCHANGED <<test, marks, subjectMarks, responses, files>>
  BY DEF BeginMarking, testTables
<1>3. StillRight(w)' = StillRight(w)
  BY <1>2, RightStays
<1>4. StillRight(w)
  BY DEF StillRight
<1> QED
  BY <1>1, <1>3, <1>4, BeginMarkingKeeps

LEMMA BeginPublishKeeps ==
    ASSUME MarksInv, NEW e \in Examiner, BeginPublish(e)
    PROVE  MarksInv'
<1> PICK w : w = [Work("publish") EXCEPT !.changes = [c \in {"status"} |-> "ACTIVE"],
                                         !.emits = {"TEST_UPLOADED"}]
  OBVIOUS
<1>1. BeginMarking(e, w) /\ Live /\ UNCHANGED files
  BY DEF BeginPublish
<1>2. /\ w.kind = "publish" /\ DOMAIN w.marks = {} /\ w.added = {} /\ w.dropped = {}
      /\ w.unmatched = {} /\ w.by = Stranger /\ DOMAIN w.answers = {}
      /\ w.changes = [c \in {"status"} |-> "ACTIVE"]
  BY DEF Work
<1>3. WorkOK(w)
  BY <1>2, FS_EmptySet DEF WorkOK
<1> QED
  BY <1>1, <1>2, <1>3, PlainBegin

LEMMA BeginAnswerKeyKeeps ==
    ASSUME MarksInv, NEW e \in Examiner, NEW name \in Names, BeginAnswerKey(e, name)
    PROVE  MarksInv'
<1> PICK w : w = [Work("key") EXCEPT !.changes = [c \in {"key"} |-> name]]
  OBVIOUS
<1>1. BeginMarking(e, w) /\ test # NoTest /\ files' = (files \ {test.key}) \cup {name}
  BY DEF BeginAnswerKey, Live
<1>2. /\ w.kind = "key" /\ DOMAIN w.marks = {} /\ w.added = {} /\ w.dropped = {}
      /\ w.unmatched = {} /\ w.by = Stranger /\ DOMAIN w.answers = {}
      /\ w.changes = [c \in {"key"} |-> name]
  BY DEF Work
<1>3. WorkOK(w)
  BY <1>2, FS_EmptySet DEF WorkOK
<1>4. StillRight(w)'
  BY <1>1, <1>2 DEF StillRight
<1> QED
  BY <1>1, <1>2, <1>3, <1>4, BeginMarkingKeeps

LEMMA BeginSubmitKeeps ==
    ASSUME MarksInv, NEW e \in Examiner, NEW s \in Student, NEW mark \in MarkRow, BeginSubmit(e, s, mark)
    PROVE  MarksInv'
<1> PICK new : new = [t \in {s} |-> mark]
  OBVIOUS
<1> PICK w : w = [Work("hand") EXCEPT !.marks = Upserted(new), !.emits = {"MARKS_UPDATED"}]
  OBVIOUS
<1>1. BeginMarking(e, w) /\ Live /\ UNCHANGED files
  BY DEF BeginSubmit
<1>2. /\ w.kind = "hand" /\ w.marks = Upserted(new) /\ w.added = {} /\ w.dropped = {}
      /\ w.unmatched = {} /\ w.by = Stranger /\ DOMAIN w.answers = {} /\ DOMAIN w.changes = {}
  BY DEF Work
<1>3. /\ DOMAIN w.marks \subseteq Student
      /\ \A t \in DOMAIN w.marks : /\ w.marks[t].was = RowOf(t) /\ w.marks[t].new \in MarkRow
                                   /\ w.marks[t].was \in MarkRow \cup {NoMark}
  BY <1>2, UpsertedOK DEF MarksInv
<1>4. WorkOK(w)
  BY <1>2, <1>3, FS_EmptySet DEF WorkOK
<1> QED
  BY <1>1, <1>2, <1>3, <1>4, PlainBegin

LEMMA BeginResolveKeeps ==
    ASSUME MarksInv, NEW e \in Examiner, NEW r \in reviews, NEW s \in Student, BeginResolve(e, r, s)
    PROVE  MarksInv'
<1> PICK new : new = [t \in {s} |-> Present(r.score, PaperTotal)]
  OBVIOUS
<1> PICK w : w = [Work("resolve") EXCEPT !.marks = Upserted(new), !.resolved = {ReviewId(r)}, !.by = s]
  OBVIOUS
<1>1. BeginMarking(e, w) /\ Live /\ UNCHANGED files
  BY DEF BeginResolve
<1>2. /\ w.kind = "resolve" /\ w.marks = Upserted(new) /\ w.added = {} /\ w.dropped = {}
      /\ w.unmatched = {} /\ w.by = s /\ DOMAIN w.answers = {} /\ DOMAIN w.changes = {}
  BY DEF Work
<1>3. r.score \in Nat
  BY DEF MarksInv, MarksTyped, ReviewRow
<1>4. Present(r.score, PaperTotal) \in MarkRow
  BY <1>3, MarkOK, TestsAssumption
<1>5. /\ DOMAIN w.marks \subseteq Student
      /\ \A t \in DOMAIN w.marks : /\ w.marks[t].was = RowOf(t) /\ w.marks[t].new \in MarkRow
                                   /\ w.marks[t].was \in MarkRow \cup {NoMark}
  BY <1>2, <1>4, UpsertedOK DEF MarksInv
<1>6. WorkOK(w)
  BY <1>2, <1>5, FS_EmptySet DEF WorkOK
<1> QED
  BY <1>1, <1>2, <1>5, <1>6, PlainBegin

\* The lines of a sheet, and the rows that are put aside.
LEMMA SheetIs ==
    ASSUME NEW sheet \in Sheets
    PROVE  /\ DOMAIN sheet \subseteq Nat /\ IsFiniteSet(DOMAIN sheet)
           /\ \A n \in DOMAIN sheet : sheet[n].score \in Nat
<1>1. sheet \in Seq([prn : Student \cup {Stranger}, score : Nat])
  BY TestsAssumption
<1>2. DOMAIN sheet = 1 .. Len(sheet) /\ Len(sheet) \in Nat
  BY <1>1
<1>3. IsFiniteSet(1 .. Len(sheet))
  BY <1>2, FS_Interval
<1>4. ASSUME NEW n \in DOMAIN sheet PROVE sheet[n].score \in Nat
  <2>1. sheet[n] \in [prn : Student \cup {Stranger}, score : Nat]
    BY <1>1, <1>2, ElementOfSeq
  <2> QED
    BY <2>1
<1> QED
  BY <1>2, <1>3, <1>4

LEMMA UnmatchedOK ==
    ASSUME MarksTyped, NEW sheet \in Sheets, NEW lines, lines \subseteq DOMAIN sheet,
           NEW subject \in Subject \cup {"all"}, NEW roster
    PROVE  Unmatched(sheet, lines, roster, subject) \subseteq ReviewRow
<1>1. ASSUME NEW n \in lines PROVE Review(sheet, n, subject) \in ReviewRow
  <2>1. n \in Nat /\ sheet[n].score \in Nat /\ begun + 1 \in Nat
    BY SheetIs DEF MarksTyped
  <2> QED
    BY <2>1 DEF Review, ReviewRow
<1> QED
  BY <1>1 DEF Unmatched

LEMMA BeginUploadResultKeeps ==
    ASSUME MarksInv, NEW e \in Examiner, NEW sheet \in Sheets, BeginUploadResult(e, sheet)
    PROVE  MarksInv'
<1> DEFINE lines(s) == {n \in DOMAIN sheet : sheet[n].prn = s}
           Mark(s) == IF lines(s) = {} THEN Absent(PaperTotal)
                      ELSE Present(sheet[Max(lines(s))].score, PaperTotal)
<1> PICK roster : roster = Roster({"first"})
  OBVIOUS
<1> PICK new : new = [s \in roster |-> Mark(s)]
  OBVIOUS
<1> PICK w : w = [Work("omr") EXCEPT !.marks = Upserted(new), !.cleared = {ReviewId(r) : r \in reviews},
                     !.unmatched = Unmatched(sheet, DOMAIN sheet, roster, "all"),
                     !.emits = {"MARKS_UPDATED"}]
  OBVIOUS
<1>1. BeginMarking(e, w) /\ Live /\ UNCHANGED files
  BY DEF BeginUploadResult
<1>2. /\ w.kind = "omr" /\ w.marks = Upserted(new) /\ w.added = {} /\ w.dropped = {}
      /\ w.unmatched = Unmatched(sheet, DOMAIN sheet, roster, "all")
      /\ w.by = Stranger /\ DOMAIN w.answers = {} /\ DOMAIN w.changes = {}
  BY DEF Work
<1>3. roster \subseteq Student
  BY DEF Roster
<1>4. ASSUME NEW s PROVE Mark(s) \in MarkRow
  <2>1. CASE lines(s) = {}
    BY <2>1, MarkOK, TestsAssumption
  <2>2. CASE lines(s) # {}
    <3>1. lines(s) \in SUBSET Nat /\ IsFiniteSet(lines(s))
      BY SheetIs, FS_Subset
    <3>2. Max(lines(s)) \in lines(s)
      BY <2>2, <3>1, GreatestIs
    <3>3. sheet[Max(lines(s))].score \in Nat
      BY <3>2, SheetIs
    <3> QED
      BY <2>2, <3>3, MarkOK, TestsAssumption
  <2> QED
    BY <2>1, <2>2
<1> HIDE DEF Mark
<1>5. DOMAIN new = roster /\ \A s \in DOMAIN new : new[s] \in MarkRow
  BY <1>4
<1>6. /\ DOMAIN w.marks \subseteq Student
      /\ \A t \in DOMAIN w.marks : /\ w.marks[t].was = RowOf(t) /\ w.marks[t].new \in MarkRow
                                   /\ w.marks[t].was \in MarkRow \cup {NoMark}
  BY <1>2, <1>3, <1>5, UpsertedOK DEF MarksInv
<1>7. w.unmatched \subseteq ReviewRow
  BY <1>2, UnmatchedOK DEF MarksInv
<1>8. WorkOK(w)
  BY <1>2, <1>6, <1>7, FS_EmptySet DEF WorkOK
<1> QED
  BY <1>1, <1>2, <1>6, <1>8, PlainBegin

LEMMA AggregateOK ==
    ASSUME MarksTyped, NEW s, NEW rows, IsFiniteSet(rows), \A r \in rows : RowFits(r)
    PROVE  Aggregate(s, rows) \in MarkRow /\ AddsUp(Aggregate(s, rows), s, rows)
<1> PICK own : own = {r \in rows : r.student = s}
  OBVIOUS
<1> PICK present : present = {r \in own : ~ r.absent}
  OBVIOUS
<1> PICK mark : mark = IF present = {} THEN Absent(Possible) ELSE Present(TotalOf(present), Possible)
  OBVIOUS
<1>1. {r \in rows : r.student = s /\ ~ r.absent} = present
  OBVIOUS
<1>2. Aggregate(s, rows) = mark
  BY <1>1 DEF Aggregate
<1>3. test \in TestRow /\ Possible \in Nat
  BY PossibleIs DEF MarksTyped
<1>4. present \subseteq rows /\ own \subseteq rows /\ IsFiniteSet(present) /\ \A r \in present : RowFits(r)
  BY FS_Subset
<1>5. \A r \in present : r.score \in Nat
  BY <1>4 DEF RowFits, SubjectRow
<1>6. TotalOf(present) \in Nat /\ (present = {} => TotalOf(present) = 0)
  BY <1>4, <1>5, TotalOfIs
<1>7. mark \in MarkRow
  BY <1>3, <1>6, MarkOK
<1>8. /\ present = {} => mark.absent = TRUE /\ mark.score = 0 /\ mark.max = Possible
      /\ present # {} => mark.absent = FALSE /\ mark.score = TotalOf(present) /\ mark.max = Possible
  BY DEF Absent, Present
<1>9. ASSUME \A r, q \in own : r.subject = q.subject => r = q,
             \A u \in DOMAIN test.totals : test.totals[u] # NoTotal
      PROVE  mark.score <= mark.max
  <2>1. \A r, q \in present : r.subject = q.subject => r = q
    BY <1>9
  <2>2. TotalOf(present) <= Possible
    BY <1>3, <1>4, <1>9, <2>1, WithinPossible
  <2> QED
    BY <1>3, <1>6, <1>8, <2>2
<1>10. mark.absent = (present = {}) /\ mark.score = TotalOf(present)
  BY <1>6, <1>8
<1>11. AddsUp(mark, s, rows)
  BY <1>9, <1>10 DEF AddsUp
<1> QED
  BY <1>2, <1>7, <1>11

LEMMA BeginUploadSubjectKeeps ==
    ASSUME MarksInv, NEW e \in Examiner, NEW subject \in Subject, NEW sheet \in Sheets,
           BeginUploadSubject(e, subject, sheet)
    PROVE  MarksInv'
<1> DEFINE Row(s, n, score, absent) == [upload |-> begun + 1, line |-> n, student |-> s,
                                        subject |-> subject, score |-> score, absent |-> absent]
<1> PICK total : total = test.totals[subject]
  OBVIOUS
<1> PICK roster : roster = Roster(test.batches \cup {"first"})
  OBVIOUS
<1> PICK lines : lines = {n \in DOMAIN sheet : total = NoTotal \/ sheet[n].score <= total}
  OBVIOUS
<1> PICK named : named = {m \in lines : sheet[m].prn \in roster}
  OBVIOUS
<1> PICK sat : sat = {Row(sheet[n].prn, n, sheet[n].score, FALSE) : n \in named}
  OBVIOUS
<1> PICK away : away = roster \ {r.student : r \in sat}
  OBVIOUS
<1> PICK missed : missed = {Row(s, 0, 0, TRUE) : s \in away}
  OBVIOUS
<1> PICK rows : rows = (subjectMarks \ Replaced(subject)) \cup sat \cup missed
  OBVIOUS
<1> PICK w : w = [Work("subject") EXCEPT
               !.marks = [s \in roster |-> [was |-> RowOf(s), new |-> Aggregate(s, rows)]],
               !.dropped = Replaced(subject), !.added = sat \cup missed,
               !.cleared = {ReviewId(r) : r \in {q \in reviews : q.subject = subject}},
               !.unmatched = Unmatched(sheet, lines, roster, subject),
               !.emits = {"MARKS_UPDATED"}]
  OBVIOUS
<1>1. BeginMarking(e, w) /\ Live /\ subject \in DOMAIN test.totals /\ UNCHANGED files
  BY DEF BeginUploadSubject
<1>2. /\ w.kind = "subject"
      /\ w.marks = [s \in roster |-> [was |-> RowOf(s), new |-> Aggregate(s, rows)]]
      /\ w.added = sat \cup missed /\ w.dropped = Replaced(subject)
      /\ w.unmatched = Unmatched(sheet, lines, roster, subject)
      /\ w.by = Stranger /\ DOMAIN w.answers = {} /\ DOMAIN w.changes = {}
  BY DEF Work
<1>3. /\ roster \subseteq Student /\ IsFiniteSet(roster) /\ lines \subseteq DOMAIN sheet
      /\ named \subseteq DOMAIN sheet /\ IsFiniteSet(named) /\ away \subseteq roster /\ IsFiniteSet(away)
  <2>1. roster \subseteq Student
    BY DEF Roster
  <2> QED
    BY <2>1, TestsAssumption, SheetIs, FS_Subset
<1>4. IsFiniteSet(sat) /\ IsFiniteSet(missed)
  <2> PICK f : f = [n \in named |-> Row(sheet[n].prn, n, sheet[n].score, FALSE)]
    OBVIOUS
  <2> PICK g : g = [s \in away |-> Row(s, 0, 0, TRUE)]
    OBVIOUS
  <2>1. sat = {f[n] : n \in named} /\ missed = {g[s] : s \in away}
    OBVIOUS
  <2>0. IsFiniteSet(named) /\ IsFiniteSet(away)
    BY <1>3
  <2>2. IsFiniteSet({f[n] : n \in named})
    BY ONLY <2>0, ImageFinite
  <2>3. IsFiniteSet({g[s] : s \in away})
    BY ONLY <2>0, ImageFinite
  <2> QED
    BY <2>1, <2>2, <2>3
<1>5. MarksTyped /\ test \in TestRow /\ begun + 1 \in Nat /\ IsFiniteSet(subjectMarks)
      /\ \A r \in subjectMarks : RowFits(r)
  BY DEF MarksInv, MarksTyped
<1>6. total \in Nat \cup {NoTotal}
  BY <1>1, <1>5, PossibleIs
<1>7. ASSUME NEW r \in sat
      PROVE  RowFits(r) /\ r.student \in roster /\ r.subject = subject /\ ~ r.absent /\ r.upload = begun + 1
  <2> PICK n \in named : r = Row(sheet[n].prn, n, sheet[n].score, FALSE)
    OBVIOUS
  <2>1. /\ n \in Nat /\ sheet[n].score \in Nat /\ sheet[n].prn \in roster
        /\ total = NoTotal \/ sheet[n].score <= total
    BY <1>3, SheetIs
  <2>2. /\ r.upload = begun + 1 /\ r.line = n /\ r.student = sheet[n].prn /\ r.subject = subject
        /\ r.score = sheet[n].score /\ r.absent = FALSE
    OBVIOUS
  <2>3. r \in SubjectRow
    BY <1>3, <1>5, <2>1 DEF SubjectRow
  <2> QED
    BY <1>1, <2>1, <2>2, <2>3 DEF RowFits
<1>8. ASSUME NEW r \in missed
      PROVE  /\ RowFits(r) /\ r.student \in away /\ r.subject = subject /\ r.absent
             /\ \A q \in missed : q.student = r.student => q = r
  <2> PICK s \in away : r = Row(s, 0, 0, TRUE)
    OBVIOUS
  <2>1. r.student = s /\ r.subject = subject /\ r.score = 0 /\ r.absent = TRUE
    OBVIOUS
  <2>2. r \in SubjectRow
    BY <1>3, <1>5 DEF SubjectRow
  <2>3. test.totals[subject] = NoTotal \/ 0 <= test.totals[subject]
    <3> HIDE DEF NoTotal
    <3> QED
      BY <1>6
  <2>4. RowFits(r)
    BY <1>1, <2>1, <2>2, <2>3 DEF RowFits
  <2>5. ASSUME NEW q \in missed, q.student = r.student PROVE q = r
    <3> PICK t \in away : q = Row(t, 0, 0, TRUE)
      OBVIOUS
    <3>1. q.student = t
      OBVIOUS
    <3>2. s = t
      BY <2>1, <2>5, <3>1
    <3> QED
      BY <3>2
  <2> QED
    BY <2>1, <2>4, <2>5
<1> HIDE DEF Row
<1>9. Outcome(w) = rows /\ Outcome(w)' = rows
  <2>1. UNCHANGED subjectMarks
    BY <1>1 DEF BeginMarking, testTables
  <2> QED
    BY <1>2, <2>1 DEF Outcome
<1>10. IsFiniteSet(w.added) /\ \A r \in w.added : RowFits(r) /\ r.student \in roster
  <2>1. IsFiniteSet(sat \cup missed)
    BY <1>4, FS_Union
  <2> QED
    BY <1>2, <1>3, <1>7, <1>8, <2>1
<1>11. IsFiniteSet(rows) /\ \A r \in rows : RowFits(r)
  <2>1. IsFiniteSet(subjectMarks \ Replaced(subject))
    BY <1>5, FS_Difference
  <2> QED
    BY <1>4, <1>5, <1>7, <1>8, <2>1, FS_Union
<1>12. \A s \in roster : Aggregate(s, rows) \in MarkRow /\ AddsUp(Aggregate(s, rows), s, rows)
  BY <1>5, <1>11, AggregateOK
<1>13. DOMAIN w.marks = roster
       /\ \A s \in roster : w.marks[s].was = RowOf(s) /\ w.marks[s].new = Aggregate(s, rows)
  <2> PICK new : new = [s \in roster |-> [was |-> RowOf(s), new |-> Aggregate(s, rows)]]
    OBVIOUS
  <2>1. w.marks = new
    BY <1>2
  <2>2. DOMAIN new = roster /\ \A s \in roster : new[s].was = RowOf(s) /\ new[s].new = Aggregate(s, rows)
    OBVIOUS
  <2> QED
    BY <2>1, <2>2
<1>14. WorkOK(w)
  <2>1. \A s \in roster : RowOf(s) \in MarkRow \cup {NoMark}
    BY <1>3, <1>5, RowOfOK
  <2>2. w.unmatched \subseteq ReviewRow
    BY <1>2, <1>3, <1>5, UnmatchedOK
  <2>3. /\ DOMAIN w.marks \subseteq Student
        /\ \A s \in DOMAIN w.marks : w.marks[s].was \in MarkRow \cup {NoMark} /\ w.marks[s].new \in MarkRow
    BY ONLY <1>3, <1>12, <1>13, <2>1
  <2>4. /\ w.kind = "subject" /\ w.by \in Student \cup {Stranger}
        /\ DOMAIN w.answers = {} /\ DOMAIN w.changes = {}
    BY <1>2
  <2>5. IsFiniteSet(w.added) /\ \A r \in w.added : RowFits(r)
    BY <1>10
  <2> QED
    BY ONLY <2>2, <2>3, <2>4, <2>5 DEF WorkOK
<1>15. ASSUME ~ disturbed' PROVE StillRight(w)'
  <2>1. UNCHANGED <<test, marks, subjectMarks, responses, files>> /\ ~ disturbed
    BY <1>1, <1>15 DEF BeginMarking, testTables
  <2>2. OneFile(subjectMarks)
    BY <2>1 DEF MarksInv, MarksCalm
  <2>3. OneFile(rows)
    <3>1. \A r \in subjectMarks \ Replaced(subject) : r.subject # subject
      BY DEF Replaced
    <3>2. \A r \in sat : r.student \in roster /\ r.subject = subject /\ ~ r.absent /\ r.upload = begun + 1
      BY <1>7
    <3>3. \A r \in missed : /\ r.student \in away /\ r.subject = subject
                            /\ \A q \in missed : q.student = r.student => q = r
      BY <1>8
    <3>4. \A r \in sat : r.student \notin away
      OBVIOUS
    <3>5. ASSUME NEW r \in rows, NEW q \in rows, r.student = q.student, r.subject = q.subject, r # q
          PROVE  r.upload = q.upload /\ ~ r.absent /\ ~ q.absent
      <4>1. CASE r.subject = subject
        <5>1. r \in sat \cup missed /\ q \in sat \cup missed
          BY <3>1, <3>5, <4>1
        <5>2. r \in sat /\ q \in sat
          BY ONLY <3>2, <3>3, <3>4, <3>5, <5>1
        <5> QED
          BY ONLY <3>2, <5>2
      <4>2. CASE r.subject # subject
        <5>1. r \in subjectMarks /\ q \in subjectMarks
          BY <3>2, <3>3, <3>5, <4>2
        <5> QED
          BY ONLY <2>2, <3>5, <5>1 DEF OneFile
      <4> QED
        BY <4>1, <4>2
    <3> QED
      BY ONLY <3>5 DEF OneFile
  <2>4. StillRight(w)
    <3>1. \A s \in DOMAIN w.marks : w.marks[s].was = RowOf(s) /\ AddsUp(w.marks[s].new, s, Outcome(w))
      BY ONLY <1>9, <1>12, <1>13
    <3>2. w.kind = "subject" /\ DOMAIN w.answers = {}
      BY <1>2
    <3>3. OneFile(Outcome(w)) /\ \A r \in w.added : r.student \in DOMAIN w.marks
      BY <1>9, <1>10, <1>13, <2>3
    <3> QED
      BY ONLY <3>1, <3>2, <3>3 DEF StillRight
  <2> QED
    BY <2>1, <2>4, RightStays
<1> QED
  BY <1>1, <1>2, <1>14, <1>15, BeginMarkingKeeps DEF Live

\* What a question on the paper counts for.
LEMMA PointsOK ==
    ASSUME MarksTyped
    PROVE  /\ OnPaper \subseteq Question /\ IsFiniteSet(OnPaper)
           /\ \A q \in OnPaper : PointsOf(q) \in Nat
<1>1. paper \in Seq(PaperRow) /\ DOMAIN paper = 1 .. Len(paper) /\ Len(paper) \in Nat
  BY DEF MarksTyped
<1>2. \A n \in DOMAIN paper : paper[n] \in PaperRow
  BY <1>1, ElementOfSeq
<1>3. OnPaper \subseteq Question
  BY <1>2 DEF OnPaper, PaperRow
<1>4. ASSUME NEW q \in OnPaper PROVE PointsOf(q) \in Nat
  <2> PICK ns : ns = {n \in DOMAIN paper : paper[n].question = q}
    OBVIOUS
  <2>1. IsFiniteSet(1 .. Len(paper))
    BY <1>1, FS_Interval
  <2>2. ns \in SUBSET Nat /\ IsFiniteSet(ns) /\ ns # {} /\ ns \subseteq DOMAIN paper
    BY <1>1, <1>4, <2>1, FS_Subset DEF OnPaper
  <2>3. Max(ns) \in DOMAIN paper
    BY <2>2, GreatestIs
  <2>4. PointsOf(q) = paper[Max(ns)].points
    BY DEF PointsOf
  <2> QED
    BY <1>2, <2>3, <2>4 DEF PaperRow
<1> QED
  BY <1>3, <1>4, TestsAssumption, FS_Subset

LEMMA BeginResponsesKeeps ==
    ASSUME MarksInv, NEW e \in Examiner, NEW file \in AnswerFiles, BeginResponses(e, file)
    PROVE  MarksInv'
<1> PICK given : given = {x \in DOMAIN file : x[2] \in OnPaper}
  OBVIOUS
<1> PICK earned : earned = [x \in given |-> IF bank[x[2]].live /\ file[x] = bank[x[2]].answer
                                            THEN PointsOf(x[2]) ELSE 0]
  OBVIOUS
<1> PICK max : max = SumFunction([q \in OnPaper |-> PointsOf(q)])
  OBVIOUS
<1> DEFINE OfAnswer(x) == IF x \in given THEN earned[x]
                          ELSE IF responses[x] = <<>> THEN 0 ELSE responses[x][1]
           score(s) == SumFunction([x \in {s} \X Question |-> OfAnswer(x)])
           new(s) == [score |-> score(s), max |-> max, absent |-> FALSE,
                      grade |-> IF RowOf(s) = NoMark THEN "none" ELSE RowOf(s).grade]
<1> PICK touched : touched = {x[1] : x \in given}
  OBVIOUS
<1> PICK w : w = [Work("answers") EXCEPT
               !.marks = [s \in touched |-> [was |-> RowOf(s), new |-> new(s)]],
               !.answers = [x \in given |-> [fresh |-> responses[x] = <<>>, earned |-> earned[x]]]]
  OBVIOUS
<1>1. BeginMarking(e, w) /\ Live /\ UNCHANGED files
  BY DEF BeginResponses
<1>2. /\ w.kind = "answers" /\ w.added = {} /\ w.dropped = {}
      /\ w.marks = [s \in touched |-> [was |-> RowOf(s), new |-> new(s)]]
      /\ w.answers = [x \in given |-> [fresh |-> responses[x] = <<>>, earned |-> earned[x]]]
      /\ w.unmatched = {} /\ w.by = Stranger /\ DOMAIN w.changes = {}
  BY DEF Work
<1>3. MarksTyped
  BY DEF MarksInv
<1>4. given \subseteq Student \X Question /\ touched \subseteq Student
  BY TestsAssumption
<1>5. \A x \in given : earned[x] \in Nat
  <2>1. \A x \in given : PointsOf(x[2]) \in Nat
    BY <1>3, PointsOK
  <2> QED
    BY <2>1
<1>6. max \in Nat
  <2> PICK f : f = [q \in OnPaper |-> PointsOf(q)]
    OBVIOUS
  <2>1. max = Total(f, OnPaper)
    BY SumOfAll
  <2>2. \A q \in OnPaper : f[q] \in Nat
    BY <1>3, PointsOK
  <2>3. IsFiniteSet(OnPaper)
    BY <1>3, PointsOK
  <2> QED
    BY ONLY <2>1, <2>2, <2>3, TotalIsNat
<1>7. ASSUME NEW x \in Student \X Question PROVE OfAnswer(x) \in Nat
  <2>1. responses[x] \in Seq(Nat)
    BY <1>3 DEF MarksTyped
  <2>2. responses[x] # <<>> => responses[x][1] \in Nat
    BY <2>1
  <2> QED
    BY <1>5, <2>2
<1> HIDE DEF OfAnswer
<1>8. ASSUME NEW s \in Student PROVE score(s) \in Nat
  <2> PICK row : row = {s} \X Question
    OBVIOUS
  <2> PICK f : f = [x \in row |-> OfAnswer(x)]
    OBVIOUS
  <2>1. score(s) = Total(f, row)
    BY SumOfAll
  <2>2. ASSUME NEW x \in row PROVE f[x] \in Nat /\ f[x] \in Int
    <3>1. OfAnswer(x) \in Nat
      BY <1>7
    <3> QED
      BY <3>1
  <2>3. IsFiniteSet(row)
    <3>1. \A q \in Question : f[<<s, q>>] \in Int
      BY <2>2
    <3> QED
      BY <3>1, TestsAssumption, TotalRow
  <2> QED
    BY ONLY <2>1, <2>2, <2>3, TotalIsNat
<1> HIDE DEF score
<1>9. ASSUME NEW s \in Student PROVE new(s) \in MarkRow
  <2>1. RowOf(s) # NoMark => RowOf(s).grade \in {"none", "passed", "F"}
    BY <1>3, RowOfOK DEF MarkRow
  <2>2. (IF RowOf(s) = NoMark THEN "none" ELSE RowOf(s).grade) \in {"none", "passed", "F"}
    BY <2>1
  <2> QED
    BY <1>6, <1>8, <2>2 DEF MarkRow
<1> HIDE DEF new
<1>10. /\ DOMAIN w.marks = touched
       /\ \A s \in touched : w.marks[s].was = RowOf(s) /\ w.marks[s].new = new(s)
  <2> PICK v : v = [s \in touched |-> [was |-> RowOf(s), new |-> new(s)]]
    OBVIOUS
  <2>1. w.marks = v
    BY <1>2
  <2>2. DOMAIN v = touched /\ \A s \in touched : v[s].was = RowOf(s) /\ v[s].new = new(s)
    OBVIOUS
  <2> QED
    BY <2>1, <2>2
<1>11. /\ DOMAIN w.answers = given
       /\ \A x \in given : /\ w.answers[x].fresh \in BOOLEAN /\ w.answers[x].earned = earned[x]
                           /\ w.answers[x].fresh <=> responses[x] = <<>>
  <2> PICK v : v = [x \in given |-> [fresh |-> responses[x] = <<>>, earned |-> earned[x]]]
    OBVIOUS
  <2>1. w.answers = v
    BY <1>2
  <2>2. /\ DOMAIN v = given
        /\ \A x \in given : v[x].fresh = (responses[x] = <<>>) /\ v[x].earned = earned[x]
    OBVIOUS
  <2> QED
    BY <2>1, <2>2
<1>12. WorkOK(w)
  <2>1. /\ DOMAIN w.marks \subseteq Student
        /\ \A s \in DOMAIN w.marks : w.marks[s].was \in MarkRow \cup {NoMark} /\ w.marks[s].new \in MarkRow
    BY <1>3, <1>4, <1>9, <1>10, RowOfOK
  <2>2. /\ DOMAIN w.answers \subseteq Student \X Question
        /\ \A x \in DOMAIN w.answers : w.answers[x].fresh \in BOOLEAN /\ w.answers[x].earned \in Nat
    BY <1>4, <1>5, <1>11
  <2>3. /\ w.kind = "answers" /\ w.added = {} /\ w.dropped = {}
        /\ w.unmatched = {} /\ w.by = Stranger /\ DOMAIN w.changes = {}
    BY <1>2
  <2> QED
    BY ONLY <2>1, <2>2, <2>3, FS_EmptySet DEF WorkOK
<1> QED
  BY <1>1, <1>2, <1>10, <1>11, <1>12, PlainBegin

-----------------------------------------------------------------------------
(* Every step.                                                              *)

LEMMA MarksStart == TestsInit => MarksInv
<1> SUFFICES ASSUME TestsInit PROVE MarksInv
  OBVIOUS
<1>1. /\ test = NoTest /\ paper = <<>> /\ enrolled \in [Student -> Batches \cup {"none"}]
      /\ marks = [s \in Student |-> <<>>] /\ subjectMarks = {} /\ reviews = {}
      /\ responses = [x \in Student \X Question |-> <<>>]
      /\ files = {} /\ marking = [e \in Examiner |-> NoWork] /\ begun = 0
      /\ disturbed = FALSE /\ basis = [s \in Student |-> "none"] /\ lost = {}
  BY DEF TestsInit
<1>2. test \in TestRow /\ test.key = "none"
  <2>1. [u \in {} |-> 0] \in [{} -> SubjectTotals]
    OBVIOUS
  <2>2. [u \in {} |-> 0] \in UNION {[us -> SubjectTotals] : us \in SUBSET Subject}
    BY <2>1
  <2> QED
    BY <1>1, <2>2 DEF NoTest, TestRow
<1>3. MarksTyped
  <2>1. paper \in Seq(PaperRow)
    BY <1>1
  <2>2. marks \in [Student -> Seq(MarkRow)]
    BY <1>1
  <2>3. responses \in [Student \X Question -> Seq(Nat)]
    BY <1>1
  <2>4. IsFiniteSet(subjectMarks)
    BY <1>1, FS_EmptySet
  <2> QED
    BY <1>1, <1>2, <2>1, <2>2, <2>3, <2>4 DEF MarksTyped
<1>4. MarksCalm
  <2>1. \A s \in Student : Len(marks[s]) <= 1
    BY <1>1
  <2>2. \A x \in Student \X Question : Len(responses[x]) <= 1
    BY <1>1
  <2> QED
    BY <1>1, <1>2, <2>1, <2>2 DEF MarksCalm, OneFile
<1> QED
  BY <1>3, <1>4 DEF MarksInv

LEMMA QuestionKeeps ==
    ASSUME MarksInv, QuestionStep
    PROVE  MarksInv'
<1>1. paper \in Seq(PaperRow) /\ enrolled \in [Student -> Batches \cup {"none"}]
  BY DEF MarksInv, MarksTyped
<1>2. CASE \E q \in Question, a \in Answer : NewQuestion(q, a) \/ CorrectAnswer(q, a)
  <2>1. UNCHANGED MarksAside /\ UNCHANGED <<paper, enrolled>>
    BY <1>2 DEF NewQuestion, CorrectAnswer, Revise, AtOnce, MarksAside
  <2> QED
    BY <1>1, <2>1, AsideKeeps
<1>3. CASE \E q \in Question : DeleteQuestion(q)
  <2>1. UNCHANGED MarksAside /\ UNCHANGED <<paper, enrolled>>
    BY <1>3 DEF DeleteQuestion, Revise, AtOnce, MarksAside
  <2> QED
    BY <1>1, <2>1, AsideKeeps
<1>4. CASE \E qs \in SUBSET Question, r \in {"approved", "rejected"} : SetReview(qs, r)
  <2>1. UNCHANGED MarksAside /\ UNCHANGED <<paper, enrolled>>
    BY <1>4 DEF SetReview, AtOnce, MarksAside
  <2> QED
    BY <1>1, <2>1, AsideKeeps
<1>5. CASE \E q \in Question, p \in Points : AddQuestion(q, p)
  <2> PICK q \in Question, p \in Points : AddQuestion(q, p)
    BY <1>5
  <2>1. UNCHANGED MarksAside /\ UNCHANGED enrolled
    BY DEF AddQuestion, AtOnce, MarksAside
  <2>2. [question |-> q, points |-> p] \in PaperRow
    BY TestsAssumption DEF PaperRow
  <2>3. paper' = Append(paper, [question |-> q, points |-> p])
    BY DEF AddQuestion
  <2>4. paper' \in Seq(PaperRow)
    BY <1>1, <2>2, <2>3
  <2> QED
    BY <1>1, <2>1, <2>4, AsideKeeps
<1> QED
  BY <1>2, <1>3, <1>4, <1>5 DEF QuestionStep

LEMMA MarkingKeeps ==
    ASSUME MarksInv, MarksStep
    PROVE  MarksInv'
<1>1. CASE \E e \in Examiner, s \in Student, n \in {1, 2} : BeginSubmit(e, s, Present(n, PaperTotal))
  <2> PICK e \in Examiner, s \in Student, n \in {1, 2} : BeginSubmit(e, s, Present(n, PaperTotal))
    BY <1>1
  <2>1. n \in Nat
    OBVIOUS
  <2>2. Present(n, PaperTotal) \in MarkRow
    BY <2>1, MarkOK, TestsAssumption
  <2> QED
    BY <2>2, BeginSubmitKeeps
<1>2. CASE \E e \in Examiner, s \in Student : BeginSubmit(e, s, Absent(PaperTotal))
  <2>1. Absent(PaperTotal) \in MarkRow
    BY MarkOK, TestsAssumption
  <2> QED
    BY <1>2, <2>1, BeginSubmitKeeps
<1>3. CASE \E e \in Examiner, sheet \in Sheets :
              \/ BeginUploadResult(e, sheet)
              \/ \E u \in Subject : BeginUploadSubject(e, u, sheet)
  BY <1>3, BeginUploadResultKeeps, BeginUploadSubjectKeeps
<1>4. CASE \E e \in Examiner, r \in reviews, s \in Student : BeginResolve(e, r, s)
  BY <1>4, BeginResolveKeeps
<1>5. CASE \E e \in Examiner, file \in AnswerFiles : BeginResponses(e, file)
  BY <1>5, BeginResponsesKeeps
<1> QED
  BY <1>1, <1>2, <1>3, <1>4, <1>5 DEF MarksStep

LEMMA MarksKept == MarksInv /\ [TestsNext]_testsVars => MarksInv'
<1> SUFFICES ASSUME MarksInv, [TestsNext]_testsVars PROVE MarksInv'
  OBVIOUS
<1>1. paper \in Seq(PaperRow) /\ enrolled \in [Student -> Batches \cup {"none"}]
  BY DEF MarksInv, MarksTyped
<1>2. CASE QuestionStep
  BY <1>2, QuestionKeeps
<1>3. CASE TestStep
  <2>1. CASE \E bs \in SUBSET Batches, us \in SUBSET Subject :
                \E totals \in [us -> SubjectTotals] : CreateTest(bs, totals)
    BY <2>1, CreateTestKeeps
  <2>2. CASE DeleteTest
    BY <2>2, DeleteTestKeeps
  <2>3. CASE \E e \in Examiner :
                BeginPublish(e) \/ \E name \in {"key.pdf", "new.pdf"} : BeginAnswerKey(e, name)
    BY <2>3, BeginPublishKeeps, BeginAnswerKeyKeeps DEF Names
  <2> QED
    BY <1>3, <2>1, <2>2, <2>3 DEF TestStep
<1>4. CASE MarksStep
  BY <1>4, MarkingKeeps
<1>5. CASE \E e \in Examiner : CommitMarking(e) \/ Abandon(e)
  BY <1>5, CommitMarkingKeeps, AbandonKeeps
<1>6. CASE \E s \in Student, b \in Batches \cup {"none"} : Enrol(s, b)
  <2> PICK s \in Student, b \in Batches \cup {"none"} : Enrol(s, b)
    BY <1>6
  <2>1. UNCHANGED MarksAside /\ UNCHANGED paper /\ enrolled' = [enrolled EXCEPT ![s] = b]
    BY DEF Enrol, MarksAside, testTables
  <2>2. enrolled' \in [Student -> Batches \cup {"none"}]
    BY <1>1, <2>1
  <2> QED
    BY <1>1, <2>1, <2>2, AsideKeeps
<1>7. CASE UNCHANGED testsVars
  <2>1. UNCHANGED MarksAside /\ UNCHANGED <<paper, enrolled>>
    BY <1>7 DEF testsVars, testTables, MarksAside
  <2> QED
    BY <1>1, <2>1, AsideKeeps
<1> QED
  BY <1>2, <1>3, <1>4, <1>5, <1>6, <1>7 DEF TestsNext

-----------------------------------------------------------------------------
(* The report and the rank list.                                            *)

LEMMA MarkRowsAre ==
    ASSUME MarksTyped
    PROVE  IsFiniteSet(MarkRows) /\ \A i \in MarkRows : MarkAt(i) \in MarkRow
<1>1. \A s \in Student : /\ marks[s] \in Seq(MarkRow) /\ DOMAIN marks[s] = 1 .. Len(marks[s])
                         /\ Len(marks[s]) \in Nat
  BY DEF MarksTyped
<1>2. \A s \in Student : IsFiniteSet(DOMAIN marks[s])
  BY <1>1, FS_Interval
<1> PICK D : D = [s \in Student |-> DOMAIN marks[s]]
  OBVIOUS
<1>3. MarkRows = Pairs(Student, D)
  BY DEF MarkRows, Pairs
<1> PICK f : f = [i \in MarkRows |-> 0]
  OBVIOUS
<1>4. \A s \in Student : IsFiniteSet(D[s]) /\ \A n \in D[s] : f[<<s, n>>] \in Int
  BY <1>2 DEF MarkRows
<1>5. IsFiniteSet(MarkRows)
  BY <1>3, <1>4, TotalPairs, TestsAssumption
<1>6. ASSUME NEW i \in MarkRows PROVE MarkAt(i) \in MarkRow
  <2> PICK s \in Student : i \in {s} \X DOMAIN marks[s]
    BY DEF MarkRows
  <2>1. i[1] = s /\ i[2] \in 1 .. Len(marks[s])
    BY <1>1
  <2>2. marks[s][i[2]] \in MarkRow
    BY <1>1, <2>1, ElementOfSeq
  <2> QED
    BY <2>1, <2>2 DEF MarkAt
<1> QED
  BY <1>5, <1>6

LEMMA RanksAre == MarksTyped => ReportMatchesRanks
<1> SUFFICES ASSUME MarksTyped PROVE ReportMatchesRanks
  OBVIOUS
<1>1. IsFiniteSet(MarkRows) /\ IsFiniteSet(Appeared) /\ Appeared \subseteq MarkRows
  BY MarkRowsAre, FS_Subset DEF Appeared
<1>2. \A i \in Appeared : MarkAt(i).score \in Nat
  BY <1>1, MarkRowsAre DEF MarkRow
<1> PICK n : n = Cardinality(Appeared)
  OBVIOUS
<1>3. n \in Nat
  BY <1>1, FS_CardinalityType
<1>4. Report.appeared + Report.absent = Cardinality(MarkRows)
  <2>1. Cardinality(MarkRows \ Appeared) = Cardinality(MarkRows) - Cardinality(MarkRows \cap Appeared)
    BY <1>1, FS_Difference
  <2>2. MarkRows \cap Appeared = Appeared /\ Cardinality(MarkRows) \in Nat
    BY <1>1, FS_CardinalityType
  <2>3. Report.appeared = n /\ Report.absent = Cardinality(MarkRows \ Appeared)
    BY DEF Report
  <2> QED
    BY <1>3, <2>1, <2>2, <2>3
<1>5. Report.appeared = n
  BY DEF Report
<1>6. Report.pass <= Report.appeared
  <2>1. Report.pass = Cardinality({i \in Appeared : Passed(MarkAt(i).score, MarkAt(i).max)})
    BY DEF Report
  <2>2. Cardinality({i \in Appeared : Passed(MarkAt(i).score, MarkAt(i).max)}) <= Cardinality(Appeared)
    BY <1>1, FS_Subset
  <2> QED
    BY <1>5, <2>1, <2>2
<1> PICK scores : scores = {MarkAt(i).score : i \in Appeared}
  OBVIOUS
<1> PICK top : top = Max({0} \cup scores)
  OBVIOUS
<1>7. Report.highest = top
  BY DEF Report
<1>8. top \in {0} \cup scores /\ \A y \in {0} \cup scores : top >= y
  <2> PICK f : f = [i \in Appeared |-> MarkAt(i).score]
    OBVIOUS
  <2>1. IsFiniteSet({f[i] : i \in Appeared})
    BY <1>1, ImageFinite
  <2>2. scores = {f[i] : i \in Appeared}
    OBVIOUS
  <2>3. IsFiniteSet({0})
    BY FS_Singleton
  <2>4. IsFiniteSet({0} \cup scores)
    BY <2>1, <2>2, <2>3, FS_Union
  <2>5. {0} \cup scores \in SUBSET Nat
    BY <1>2
  <2> QED
    BY <2>4, <2>5, GreatestIs
<1>9. ASSUME NEW i \in Appeared
      PROVE  Rank(i) <= n /\ (Rank(i) = 1 <=> MarkAt(i).score = top)
  <2> PICK better : better = {j \in Appeared : MarkAt(j).score > MarkAt(i).score}
    OBVIOUS
  <2> PICK rest : rest = Appeared \ {i}
    OBVIOUS
  <2>1. Rank(i) = 1 + Cardinality(better)
    BY DEF Rank
  <2>2. IsFiniteSet(rest) /\ Cardinality(rest) = n - 1
    BY <1>1, FS_RemoveElement
  <2>3. better \subseteq rest
    BY <1>2
  <2>4. IsFiniteSet(better) /\ Cardinality(better) <= Cardinality(rest)
    BY <2>2, <2>3, FS_Subset
  <2>5. Cardinality(better) \in Nat /\ (Cardinality(better) = 0 <=> better = {})
    BY <2>4, FS_CardinalityType, FS_EmptySet
  <2>6. Rank(i) <= n
    BY <1>3, <2>1, <2>2, <2>4, <2>5
  <2>7. ASSUME better = {} PROVE MarkAt(i).score = top
    <3>1. \A j \in Appeared : MarkAt(j).score <= MarkAt(i).score
      BY <1>2, <2>7
    <3>2. top <= MarkAt(i).score
      BY <1>2, <1>8, <3>1
    <3>3. top >= MarkAt(i).score /\ top \in Nat
      BY <1>2, <1>8
    <3> QED
      BY <1>2, <3>2, <3>3
  <2>8. ASSUME MarkAt(i).score = top PROVE better = {}
    BY <1>2, <1>8, <2>8
  <2>9. Rank(i) = 1 <=> better = {}
    BY <2>1, <2>5
  <2> QED
    BY <2>6, <2>7, <2>8, <2>9
<1> QED
  BY <1>4, <1>5, <1>6, <1>7, <1>9 DEF ReportMatchesRanks

\* What the portal shows follows.
LEMMA MarksInvSound == MarksInv => MarksSound
<1> SUFFICES ASSUME MarksInv PROVE MarksSound
  OBVIOUS
<1>1. MarksTyped
  BY DEF MarksInv
<1>2. OneMarkEach
  <2>1. CASE disturbed
    BY <2>1 DEF OneMarkEach
  <2>2. CASE ~ disturbed
    <3>1. /\ \A s \in Student : Len(marks[s]) <= 1
          /\ \A x \in Student \X Question : Len(responses[x]) <= 1
      BY <2>2 DEF MarksInv, MarksCalm
    <3>2. DOMAIN responses = Student \X Question /\ \A s \in Student : Len(marks[s]) \in Nat
      BY <1>1 DEF MarksTyped
    <3>3. ~ Jammed(Student)
      BY <3>1, <3>2 DEF Jammed
    <3> QED
      BY <3>1, <3>2, <3>3 DEF OneMarkEach
  <2> QED
    BY <2>1, <2>2
<1>3. OneFileASubject
  BY DEF MarksInv, MarksCalm, OneFile, OneFileASubject
<1>4. SubjectsAddUp
  BY DEF MarksInv, MarksCalm, AddsUp, RowsInMarks, SubjectsAddUp
<1>5. KeyStored
  BY DEF MarksInv, MarksCalm, KeyStored
<1> QED
  BY <1>1, <1>2, <1>3, <1>4, <1>5, RanksAre DEF MarksSound

(* What the portal shows of a test (MarksSound), for any students, subjects, *)
(* questions, sheets, answers, batches and examiners: while requests do not  *)
(* meet, a student has one mark and one answer to a question, is in a subject *)
(* absent once or present from one file, has as the mark of those files what  *)
(* the rows that live, and those replaced after the student left, add up to,  *)
(* within the totals, and the key on record is stored; the report and the     *)
(* rank list agree, whatever has happened.                                    *)
THEOREM MarksAreSound == TestsSpec => []MarksSound
<1>1. TestsInit => MarksInv
  BY MarksStart
<1>2. MarksInv /\ [TestsNext]_testsVars => MarksInv'
  BY MarksKept
<1>3. MarksInv => MarksSound
  BY MarksInvSound
<1> QED
  BY <1>1, <1>2, <1>3, PTL DEF TestsSpec

-----------------------------------------------------------------------------
(* Reviewed rows stay, and a test is announced once.                        *)

OneRowAnId(rows) == \A r, q \in rows : ReviewId(r) = ReviewId(q) => r = q

\* What a request puts aside is newer than every row there is, what it resolves
\* nobody has resolved, and it announces a test that is not published.
ReviewsKnown(w) ==
    /\ OneRowAnId(w.unmatched)
    /\ \A q \in w.unmatched : q.upload <= begun /\ \A r \in reviews : r.upload < q.upload
    /\ \A r \in reviews : ReviewId(r) \in w.resolved => r.by = Stranger
    /\ "TEST_UPLOADED" \in w.emits => test.status # "ACTIVE"

ReviewsCalm ==
    disturbed \/ /\ OneRowAnId(reviews)
                 /\ \A r \in reviews : r.upload <= begun
                 /\ \A e \in Examiner : marking[e] # NoWork => ReviewsKnown(marking[e])

\* A step that leaves the rows and the status alone, and announces nothing.
LEMMA QuietStands ==
    ASSUME MarksInv, ReviewsCalm, UNCHANGED <<reviews, begun, marking>>,
           test'.status # test.status => \A e \in Examiner : marking[e] = NoWork,
           disturbed' = disturbed, outbox' = {}
    PROVE  ReviewsCalm' /\ MarkingStands
<1>1. ASSUME ~ disturbed PROVE ReviewsCalm' /\ MarkingStands
  <2>1. OneRowAnId(reviews) /\ \A r \in reviews : r.upload <= begun
    BY <1>1 DEF ReviewsCalm
  <2>2. ASSUME NEW e \in Examiner, marking[e] # NoWork PROVE ReviewsKnown(marking[e])'
    <3>1. ReviewsKnown(marking[e])
      BY <1>1, <2>2 DEF ReviewsCalm
    <3>2. test'.status = test.status
      BY <2>2
    <3> QED
      BY <3>1, <3>2 DEF ReviewsKnown, OneRowAnId, ReviewId
  <2>3. ReviewsCalm'
    BY <2>1, <2>2 DEF ReviewsCalm, OneRowAnId, ReviewId
  <2>4. MarkingStands
    BY <2>1 DEF OneRowAnId, MarkingStands
  <2> QED
    BY <2>3, <2>4
<1>2. ASSUME disturbed PROVE ReviewsCalm' /\ MarkingStands
  BY <1>2 DEF ReviewsCalm, MarkingStands
<1> QED
  BY <1>1, <1>2

\* A request begins.
LEMMA BeginStands ==
    ASSUME MarksInv, ReviewsCalm, NEW e \in Examiner, NEW w, BeginMarking(e, w),
           OneRowAnId(w.unmatched), \A q \in w.unmatched : q.upload = begun + 1,
           ~ disturbed => \A r \in reviews : ReviewId(r) \in w.resolved => r.by = Stranger,
           "TEST_UPLOADED" \in w.emits => test.status # "ACTIVE"
    PROVE  ReviewsCalm' /\ MarkingStands
<1>1. /\ UNCHANGED <<test, reviews>> /\ begun' = begun + 1 /\ outbox' = {}
      /\ marking' = [marking EXCEPT ![e] = w]
      /\ disturbed' = (disturbed \/ \E d \in Examiner : marking[d] # NoWork)
  BY DEF BeginMarking, testTables
<1>2. ASSUME ~ disturbed' PROVE ReviewsCalm' /\ MarkingStands
  <2>1. ~ disturbed /\ \A d \in Examiner : marking[d] = NoWork
    BY <1>1, <1>2
  <2>2. OneRowAnId(reviews) /\ \A r \in reviews : r.upload <= begun
    BY <2>1 DEF ReviewsCalm
  <2>3. begun \in Nat /\ \A r \in reviews : r.upload \in Nat
    BY DEF MarksInv, MarksTyped, ReviewRow
  <2>4. \A d \in Examiner : marking'[d] = IF d = e THEN w ELSE marking[d]
    <3>1. marking = [d \in Examiner |-> marking[d]]
      BY DEF MarksInv, MarksTyped
    <3> QED
      BY <1>1, <3>1
  <2>5. \A r \in reviews : r.upload <= begun + 1 /\ r.upload < begun + 1
    BY <2>2, <2>3
  <2>6. ReviewsKnown(w)'
    <3>1. \A q \in w.unmatched : q.upload <= begun' /\ \A r \in reviews' : r.upload < q.upload
      BY <1>1, <2>3, <2>5
    <3>2. OneRowAnId(w.unmatched)
      OBVIOUS
    <3>3. \A r \in reviews' : ReviewId(r) \in w.resolved => r.by = Stranger
      BY <1>1, <2>1
    <3> QED
      BY <1>1, <3>1, <3>2, <3>3 DEF ReviewsKnown, OneRowAnId, ReviewId
  <2>7. \A d \in Examiner : marking'[d] # NoWork => ReviewsKnown(marking[d])'
    <3>1. \A d \in Examiner : marking'[d] # NoWork => marking'[d] = w
      BY <2>1, <2>4
    <3> QED
      BY <2>6, <3>1
  <2>8. ReviewsCalm'
    <3>1. \A r \in reviews' : r.upload <= begun'
      BY <1>1, <2>5
    <3>2. OneRowAnId(reviews)'
      BY <1>1, <2>2 DEF OneRowAnId, ReviewId
    <3> QED
      BY <2>7, <3>1, <3>2 DEF ReviewsCalm
  <2>9. MarkingStands
    BY <1>1, <2>2 DEF OneRowAnId, MarkingStands
  <2> QED
    BY <2>8, <2>9
<1>3. ASSUME disturbed' PROVE ReviewsCalm' /\ MarkingStands
  BY <1>3 DEF ReviewsCalm, MarkingStands
<1> QED
  BY <1>2, <1>3

\* A request commits.
LEMMA CommitStands ==
    ASSUME MarksInv, ReviewsCalm, NEW e \in Examiner, CommitMarking(e)
    PROVE  ReviewsCalm' /\ MarkingStands
<1> PICK w : w = marking[e]
  OBVIOUS
<1>1. /\ w # NoWork /\ outbox' = w.emits /\ marking' = [marking EXCEPT ![e] = NoWork]
      /\ UNCHANGED <<begun, disturbed>>
  BY DEF CommitMarking
<1>2. reviews' = w.unmatched \cup
          {IF ReviewId(r) \in w.resolved THEN [r EXCEPT !.by = w.by] ELSE r :
              r \in {q \in reviews : ReviewId(q) \notin w.cleared}}
  BY DEF CommitMarking
<1>3. ASSUME ~ disturbed PROVE ReviewsCalm' /\ MarkingStands
  <2>1. OneRowAnId(reviews) /\ (\A r \in reviews : r.upload <= begun) /\ ReviewsKnown(w)
    BY <1>1, <1>3 DEF ReviewsCalm
  <2>2. \A d \in Examiner : marking'[d] = NoWork
    <3>1. \A d \in Examiner : marking[d] # NoWork => d = e
      BY <1>1, <1>3 DEF MarksInv, MarksCalm
    <3>2. marking = [d \in Examiner |-> marking[d]]
      BY DEF MarksInv, MarksTyped
    <3> QED
      BY <1>1, <3>1, <3>2
  <2>3. reviews \subseteq ReviewRow /\ w.unmatched \subseteq ReviewRow /\ begun \in Nat
    BY <1>1 DEF MarksInv, MarksTyped, WorkOK
  <2>4. ASSUME NEW q \in reviews', q \notin w.unmatched
        PROVE  \E r \in reviews : /\ q.upload = r.upload /\ q.line = r.line
                                  /\ q = IF ReviewId(r) \in w.resolved THEN [r EXCEPT !.by = w.by] ELSE r
    <3> PICK r \in reviews : q = IF ReviewId(r) \in w.resolved THEN [r EXCEPT !.by = w.by] ELSE r
      BY <1>2, <2>4
    <3>1. r \in ReviewRow
      BY <2>3
    <3>2. q.upload = r.upload /\ q.line = r.line
      BY <3>1 DEF ReviewRow
    <3> QED
      BY <3>2
  <2>5. \A r, q : ReviewId(r) = ReviewId(q) <=> r.upload = q.upload /\ r.line = q.line
    BY DEF ReviewId
  <2>6. \A r \in reviews : r.upload \in Nat /\ r.upload <= begun
    BY <2>1, <2>3 DEF ReviewRow
  <2>7. \A q \in w.unmatched : /\ q.upload \in Nat /\ q.upload <= begun
                               /\ \A r \in reviews : r.upload # q.upload
    BY <2>1, <2>3, <2>6 DEF ReviewsKnown, ReviewRow
  <2>8. OneRowAnId(reviews)'
    <3> SUFFICES ASSUME NEW r \in reviews', NEW q \in reviews', ReviewId(r) = ReviewId(q)
                 PROVE  r = q
      BY DEF OneRowAnId, ReviewId
    <3>1. r.upload = q.upload /\ r.line = q.line
      BY <2>5
    <3>2. CASE r \in w.unmatched /\ q \in w.unmatched
      BY <2>1, <3>2 DEF ReviewsKnown, OneRowAnId
    <3>3. CASE r \notin w.unmatched /\ q \notin w.unmatched
      <4> PICK a \in reviews : /\ r.upload = a.upload /\ r.line = a.line
                               /\ r = IF ReviewId(a) \in w.resolved THEN [a EXCEPT !.by = w.by] ELSE a
        BY <2>4, <3>3
      <4> PICK b \in reviews : /\ q.upload = b.upload /\ q.line = b.line
                               /\ q = IF ReviewId(b) \in w.resolved THEN [b EXCEPT !.by = w.by] ELSE b
        BY <2>4, <3>3
      <4>1. ReviewId(a) = ReviewId(b)
        BY <2>5, <3>1
      <4>2. a = b
        BY ONLY <2>1, <4>1, a \in reviews, b \in reviews DEF OneRowAnId
      <4> QED
        BY <4>2
    <3>4. CASE r \in w.unmatched /\ q \notin w.unmatched
      BY <2>4, <2>7, <3>1, <3>4
    <3>5. CASE r \notin w.unmatched /\ q \in w.unmatched
      BY <2>4, <2>7, <3>1, <3>5
    <3> QED
      BY <3>2, <3>3, <3>4, <3>5
  <2>9. \A q \in reviews' : q.upload <= begun
    BY <2>4, <2>6, <2>7
  <2>10. ReviewsCalm'
    BY <1>1, <2>2, <2>8, <2>9 DEF ReviewsCalm
  <2>11. ASSUME NEW r \in reviews, NEW q \in reviews', ReviewId(r) = ReviewId(q), r.by # Stranger
         PROVE  q.by = r.by
    <3>1. r.upload = q.upload /\ r.line = q.line
      BY <2>5, <2>11
    <3>2. q \notin w.unmatched
      BY <2>7, <3>1
    <3> PICK a \in reviews : /\ q.upload = a.upload /\ q.line = a.line
                             /\ q = IF ReviewId(a) \in w.resolved THEN [a EXCEPT !.by = w.by] ELSE a
      BY <2>4, <3>2
    <3>3. ReviewId(r) = ReviewId(a)
      BY <2>5, <3>1
    <3>4. r = a
      BY ONLY <2>1, <3>3, r \in reviews, a \in reviews DEF OneRowAnId
    <3>5. ReviewId(a) \notin w.resolved
      BY <2>1, <2>11, <3>4 DEF ReviewsKnown
    <3> QED
      BY <3>4, <3>5
  <2>12. MarkingStands
    BY <1>1, <2>1, <2>11 DEF MarkingStands, ReviewsKnown
  <2> QED
    BY <2>10, <2>12
<1>4. ASSUME disturbed PROVE ReviewsCalm' /\ MarkingStands
  BY <1>1, <1>4 DEF ReviewsCalm, MarkingStands
<1> QED
  BY <1>3, <1>4

\* What a file puts aside is numbered by the request and the line.
LEMMA UnmatchedNew ==
    ASSUME NEW sheet, NEW lines, NEW roster, NEW subject, NEW rows,
           rows = Unmatched(sheet, lines, roster, subject)
    PROVE  OneRowAnId(rows) /\ \A q \in rows : q.upload = begun + 1
<1>1. ASSUME NEW r \in rows PROVE \E n \in lines : r = Review(sheet, n, subject)
  BY DEF Unmatched
<1>2. \A n : Review(sheet, n, subject).upload = begun + 1 /\ Review(sheet, n, subject).line = n
  BY DEF Review
<1>3. ASSUME NEW r \in rows, NEW q \in rows, ReviewId(r) = ReviewId(q) PROVE r = q
  <2>1. r.line = q.line
    BY <1>3 DEF ReviewId
  <2> QED
    BY <1>1, <1>2, <2>1
<1> QED
  BY <1>1, <1>2, <1>3 DEF OneRowAnId

LEMMA MarkingStarts ==
    ASSUME MarksInv, ReviewsCalm, MarksStep
    PROVE  ReviewsCalm' /\ MarkingStands
<1>0. ASSUME NEW w, w.unmatched = {} PROVE OneRowAnId(w.unmatched) /\ \A q \in w.unmatched : q.upload = begun + 1
  BY <1>0 DEF OneRowAnId
<1>1. ASSUME NEW e \in Examiner, NEW s \in Student, NEW mark, BeginSubmit(e, s, mark)
      PROVE  ReviewsCalm' /\ MarkingStands
  <2> PICK new : new = Upserted([t \in {s} |-> mark])
    OBVIOUS
  <2> PICK w : w = [Work("hand") EXCEPT !.marks = new, !.emits = {"MARKS_UPDATED"}]
    OBVIOUS
  <2>1. BeginMarking(e, w)
    BY <1>1 DEF BeginSubmit
  <2>2. w.unmatched = {} /\ w.resolved = {} /\ w.emits = {"MARKS_UPDATED"}
    BY DEF Work
  <2> QED
    BY <1>0, <2>1, <2>2, BeginStands
<1>2. ASSUME NEW e \in Examiner, NEW sheet, BeginUploadResult(e, sheet)
      PROVE  ReviewsCalm' /\ MarkingStands
  <2> PICK aside : aside = Unmatched(sheet, DOMAIN sheet, Roster({"first"}), "all")
    OBVIOUS
  <2> PICK new, cleared :
           BeginMarking(e, [Work("omr") EXCEPT !.marks = new, !.cleared = cleared, !.unmatched = aside,
                                               !.emits = {"MARKS_UPDATED"}])
    BY <1>2, Zenon DEF BeginUploadResult
  <2> PICK w : w = [Work("omr") EXCEPT !.marks = new, !.cleared = cleared, !.unmatched = aside,
                                       !.emits = {"MARKS_UPDATED"}]
    OBVIOUS
  <2>1. BeginMarking(e, w) /\ w.unmatched = aside /\ w.resolved = {} /\ w.emits = {"MARKS_UPDATED"}
    BY DEF Work
  <2>2. OneRowAnId(w.unmatched) /\ \A q \in w.unmatched : q.upload = begun + 1
    BY UnmatchedNew
  <2> QED
    BY <2>1, <2>2, BeginStands
<1>3. ASSUME NEW e \in Examiner, NEW u, NEW sheet, BeginUploadSubject(e, u, sheet)
      PROVE  ReviewsCalm' /\ MarkingStands
  <2> PICK lines : lines = {n \in DOMAIN sheet : test.totals[u] = NoTotal \/ sheet[n].score <= test.totals[u]}
    OBVIOUS
  <2> PICK aside : aside = Unmatched(sheet, lines, Roster(test.batches \cup {"first"}), u)
    OBVIOUS
  <2> PICK new, dropped, added, cleared :
           BeginMarking(e, [Work("subject") EXCEPT !.marks = new, !.dropped = dropped, !.added = added,
                                !.cleared = cleared, !.unmatched = aside, !.emits = {"MARKS_UPDATED"}])
    BY <1>3, Zenon DEF BeginUploadSubject
  <2> PICK w : w = [Work("subject") EXCEPT !.marks = new, !.dropped = dropped, !.added = added,
                        !.cleared = cleared, !.unmatched = aside, !.emits = {"MARKS_UPDATED"}]
    OBVIOUS
  <2>1. BeginMarking(e, w) /\ w.unmatched = aside /\ w.resolved = {} /\ w.emits = {"MARKS_UPDATED"}
    BY DEF Work
  <2>2. OneRowAnId(w.unmatched) /\ \A q \in w.unmatched : q.upload = begun + 1
    BY UnmatchedNew
  <2> QED
    BY <2>1, <2>2, BeginStands
<1>4. ASSUME NEW e \in Examiner, NEW r \in reviews, NEW s \in Student, BeginResolve(e, r, s)
      PROVE  ReviewsCalm' /\ MarkingStands
  <2> PICK new : new = Upserted([t \in {s} |-> Present(r.score, PaperTotal)])
    OBVIOUS
  <2> PICK w : w = [Work("resolve") EXCEPT !.marks = new, !.resolved = {ReviewId(r)}, !.by = s]
    OBVIOUS
  <2>1. BeginMarking(e, w) /\ r.by = Stranger
    BY <1>4 DEF BeginResolve
  <2>2. w.unmatched = {} /\ w.resolved = {ReviewId(r)} /\ w.emits = {}
    BY DEF Work
  <2>3. ~ disturbed => \A q \in reviews : ReviewId(q) \in w.resolved => q.by = Stranger
    BY <2>1, <2>2 DEF ReviewsCalm, OneRowAnId
  <2> QED
    BY <1>0, <2>1, <2>2, <2>3, BeginStands
<1>5. ASSUME NEW e \in Examiner, NEW file, BeginResponses(e, file)
      PROVE  ReviewsCalm' /\ MarkingStands
  <2> PICK new, answers :
           BeginMarking(e, [Work("answers") EXCEPT !.marks = new, !.answers = answers])
    BY <1>5, Zenon DEF BeginResponses
  <2> PICK w : w = [Work("answers") EXCEPT !.marks = new, !.answers = answers]
    OBVIOUS
  <2>1. BeginMarking(e, w) /\ w.unmatched = {} /\ w.resolved = {} /\ w.emits = {}
    BY DEF Work
  <2> QED
    BY <1>0, <2>1, BeginStands
<1> QED
  BY <1>1, <1>2, <1>3, <1>4, <1>5 DEF MarksStep

LEMMA StandStep ==
    ASSUME MarksInv, ReviewsCalm, [TestsNext]_testsVars
    PROVE  ReviewsCalm' /\ (TestsNext => MarkingStands)
<1>1. CASE QuestionStep
  <2>1. UNCHANGED <<test, reviews, begun, marking>> /\ disturbed' = disturbed /\ outbox' = {}
    BY <1>1 DEF QuestionStep, NewQuestion, CorrectAnswer, DeleteQuestion, Revise, SetReview,
                AddQuestion, AtOnce
  <2> QED
    BY <2>1, QuietStands
<1>2. CASE TestStep
  <2>1. ASSUME NEW bs, NEW totals, CreateTest(bs, totals) PROVE ReviewsCalm' /\ MarkingStands
    <3>1. \A e \in Examiner : marking[e] = NoWork
      BY <2>1 DEF CreateTest, MarksInv, MarksTyped
    <3>2. UNCHANGED <<reviews, begun, marking>> /\ disturbed' = disturbed /\ outbox' = {}
      BY <2>1 DEF CreateTest, AtOnce
    <3> QED
      BY <3>1, <3>2, QuietStands
  <2>2. CASE DeleteTest
    <3>1. test \in TestRow /\ test' = [test EXCEPT !.deleted = TRUE]
      BY <2>2 DEF DeleteTest, MarksInv, MarksTyped
    <3>2. test'.status = test.status
      BY <3>1 DEF TestRow
    <3>3. UNCHANGED <<reviews, begun, marking>> /\ disturbed' = disturbed /\ outbox' = {}
      BY <2>2 DEF DeleteTest, AtOnce
    <3> QED
      BY <3>2, <3>3, QuietStands
  <2>3. ASSUME NEW e \in Examiner, BeginPublish(e) PROVE ReviewsCalm' /\ MarkingStands
    <3> PICK w : w = [Work("publish") EXCEPT !.changes = [c \in {"status"} |-> "ACTIVE"],
                                             !.emits = {"TEST_UPLOADED"}]
      OBVIOUS
    <3>1. BeginMarking(e, w) /\ test.status # "ACTIVE"
      BY <2>3 DEF BeginPublish
    <3>2. w.unmatched = {} /\ w.resolved = {}
      BY DEF Work
    <3> QED
      BY <3>1, <3>2, BeginStands DEF OneRowAnId
  <2>4. ASSUME NEW e \in Examiner, NEW name, BeginAnswerKey(e, name) PROVE ReviewsCalm' /\ MarkingStands
    <3> PICK w : w = [Work("key") EXCEPT !.changes = [c \in {"key"} |-> name]]
      OBVIOUS
    <3>1. BeginMarking(e, w)
      BY <2>4 DEF BeginAnswerKey
    <3>2. w.unmatched = {} /\ w.resolved = {} /\ w.emits = {}
      BY DEF Work
    <3> QED
      BY <3>1, <3>2, BeginStands DEF OneRowAnId
  <2> QED
    BY <1>2, <2>1, <2>2, <2>3, <2>4 DEF TestStep
<1>3. CASE MarksStep
  BY <1>3, MarkingStarts
<1>4. ASSUME NEW e \in Examiner, CommitMarking(e) PROVE ReviewsCalm' /\ MarkingStands
  BY <1>4, CommitStands
<1>5. ASSUME NEW e \in Examiner, Abandon(e) PROVE ReviewsCalm' /\ MarkingStands
  BY <1>5 DEF Abandon, ReviewsCalm, MarkingStands
<1>6. ASSUME NEW s, NEW b, Enrol(s, b) PROVE ReviewsCalm' /\ MarkingStands
  <2>1. UNCHANGED <<test, reviews, begun, marking>> /\ disturbed' = disturbed /\ outbox' = {}
    BY <1>6 DEF Enrol, testTables
  <2> QED
    BY <2>1, QuietStands
<1>7. CASE UNCHANGED testsVars
  <2>1. UNCHANGED <<test, reviews, begun, marking, disturbed>>
    BY <1>7 DEF testsVars, testTables
  <2>2. ReviewsCalm'
    BY <2>1 DEF ReviewsCalm, ReviewsKnown, OneRowAnId, ReviewId
  <2>3. TestsNext => MarkingStands
    <3> SUFFICES ASSUME TestsNext PROVE MarkingStands
      OBVIOUS
    <3>1. CASE QuestionStep \/ TestStep \/ MarksStep
      BY <1>1, <1>2, <1>3, <3>1
    <3>2. CASE ~ (QuestionStep \/ TestStep \/ MarksStep)
      BY <1>4, <1>5, <1>6, <3>2 DEF TestsNext
    <3> QED
      BY <3>1, <3>2
  <2> QED
    BY <2>2, <2>3
<1> QED
  BY <1>1, <1>2, <1>3, <1>4, <1>5, <1>6, <1>7 DEF TestsNext

\* Of a test the parents hear once, and a row that was given to a student stays
\* with that student, while requests do not meet (MarkingStands): for any
\* students, examiners and files, whatever is uploaded, replaced or given up.
THEOREM MarkingsDoStand == TestsSpec => [][MarkingStands]_testsVars
<1>1. TestsInit => MarksInv /\ ReviewsCalm
  <2>1. TestsInit => MarksInv
    BY MarksStart
  <2>2. TestsInit => ReviewsCalm
    BY DEF TestsInit, ReviewsCalm, OneRowAnId
  <2> QED
    BY <2>1, <2>2
<1>2. MarksInv /\ [TestsNext]_testsVars => MarksInv'
  BY MarksKept
<1>3. MarksInv /\ ReviewsCalm /\ [TestsNext]_testsVars => ReviewsCalm' /\ [MarkingStands]_testsVars
  BY StandStep
<1> QED
  BY <1>1, <1>2, <1>3, PTL DEF TestsSpec
=============================================================================
