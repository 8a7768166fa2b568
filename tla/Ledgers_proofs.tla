---------------------------- MODULE Ledgers_proofs ----------------------------
(***************************************************************************)
(* The two books of the office.  Of the carry-forward ledger: its types,   *)
(* the range of its balances, that it is only appended to, the cap and     *)
(* what a recompute books.  Of the fees: that they are booked soundly, and *)
(* agree with the money that was received and with the reports made of     *)
(* them.                                                                   *)
(***************************************************************************)
EXTENDS CarryForwardLedger, Fees, Sums_proofs, SequenceTheorems, TLAPS

(* Carry-forward ledger.                                                    *)

Allowed == {b \in Nat : b = 0 \/ \E c \in Caps : b <= c}

-----------------------------------------------------------------------------
(* close_month appends rows of its month.                                   *)
LEMMA ClosingRowsType ==
    ASSUME NEW month, NEW net \in Int, NEW c \in Nat,
           NEW rows \in Seq(RowsOver(Months, Int))
    PROVE  ClosingRows(rows, month, net, c) \in Seq(RowsOver({month}, Int))
<1> DEFINE b == BalanceBefore(rows, month)
           mv == ApplyBalance(net, b, c, AllowNegative)
<1>1. b \in Int
  BY BalanceBeforeIn
<1>2. mv.added \in Nat /\ mv.trimmed \in Nat /\ mv.used \in Int
  BY <1>1, MovementType, LedgerAssumption DEF LedgerAssumption
<1>3. ClosingRows(rows, month, net, c) = ApplyComputation(month, b, mv)
  BY DEF ClosingRows
<1> HIDE DEF b, mv
<1> QED BY <1>1, <1>2, <1>3, ApplyComputationRows

(* recompute_from appends rows of the month it recomputes.                  *)
LEMMA RecomputeRowsType ==
    ASSUME NEW month, NEW net \in Int, NEW c \in Nat,
           NEW rows \in Seq(RowsOver(Months, Int))
    PROVE  RecomputeRows(rows, month, net, c) \in Seq(RowsOver({month}, Int))
<1>1. BalanceBefore(rows, month) \in Int
  BY BalanceBeforeIn
<1>2. ReverseTo(rows, month, BalanceBefore(rows, month))
        \in Seq(RowsOver({month}, Int))
  BY <1>1, ReverseToRows
<1> QED BY <1>2, ClosingRowsType, ConcatProperties DEF RecomputeRows

-----------------------------------------------------------------------------
(* Every ledger the orchestration can produce is well formed: rows of known *)
(* months and types, whole half days, whatever is closed in what order.     *)
THEOREM TypeCorrect == Spec => []TypeOK
<1>1. Init => TypeOK
  BY EmptySeq DEF Init, TypeOK
<1>2. TypeOK /\ [Next]_vars => TypeOK'
  <2> SUFFICES ASSUME TypeOK, [Next]_vars PROVE TypeOK'
    OBVIOUS
  <2>0. cap \in Nat /\ Nets \subseteq Int
    BY LedgerAssumption DEF LedgerAssumption, TypeOK
  <2>1. Row = RowsOver(Months, Int)
    BY DEF Row, RowsOver
  <2>2. ASSUME NEW month \in Months, NEW net \in Nets, Close(month, net)
        PROVE  TypeOK'
    <3>1. ledger \o ClosingRows(ledger, month, net, cap) \in Seq(Row)
      BY <2>0, <2>1, ClosingRowsType, RowsWiden DEF TypeOK
    <3> QED BY <2>2, <3>1 DEF TypeOK, Close
  <2>3. ASSUME NEW month \in Months, NEW net \in Nets, Recompute(month, net)
        PROVE  TypeOK'
    <3>1. ledger \o RecomputeRows(ledger, month, net, cap) \in Seq(Row)
      BY <2>0, <2>1, RecomputeRowsType, RowsWiden DEF TypeOK
    <3> QED BY <2>3, <3>1 DEF TypeOK, Recompute
  <2>4. ASSUME NEW month \in Months, Reopen(month)
        PROVE  TypeOK'
    BY <2>4 DEF TypeOK, Reopen
  <2>5. ASSUME NEW c \in Caps, SetCap(c)
        PROVE  TypeOK'
    BY <2>5 DEF TypeOK, SetCap
  <2>6. CASE UNCHANGED vars
    BY <2>6 DEF TypeOK, vars
  <2> QED BY <2>2, <2>3, <2>4, <2>5, <2>6 DEF Next
<1> QED BY <1>1, <1>2, PTL DEF Spec

-----------------------------------------------------------------------------
(* The inductive form of BalanceInRange: with negative balances off, every  *)
(* row's balance is one that some cap allows.                               *)
InRange == ~ AllowNegative => ledger \in Seq(RowsOver(Months, Allowed))

(* close_month keeps every balance within what some cap allows.             *)
LEMMA ClosingRowsRange ==
    ASSUME ~ AllowNegative, NEW month, NEW net \in Int, NEW c \in Caps,
           NEW rows \in Seq(RowsOver(Months, Allowed))
    PROVE  ClosingRows(rows, month, net, c)
               \in Seq(RowsOver({month}, Allowed))
<1> DEFINE b == BalanceBefore(rows, month)
           mv == ApplyBalance(net, b, c, AllowNegative)
<1>1. 0 \in Allowed /\ Allowed \subseteq Nat /\ c \in Nat
  BY LedgerAssumption DEF Allowed, LedgerAssumption
<1>0. AllowNegative \in BOOLEAN
  BY LedgerAssumption DEF LedgerAssumption
<1>2. b \in Allowed /\ b \in Nat
  BY <1>1, BalanceBeforeIn
<1>3. mv.added \in Nat /\ mv.trimmed \in Nat /\ mv.used \in Int
  <2>1. b \in Int
    BY <1>2
  <2> HIDE DEF b
  <2> QED BY <1>0, <1>1, <2>1, MovementType
<1>4. /\ mv.added > 0 => b + mv.added <= c
      /\ mv.used > 0 => mv.added = 0 /\ mv.used <= b
  BY <1>0, <1>1, <1>2, MovementRange
<1>5. ClosingRows(rows, month, net, c) = ApplyComputation(month, b, mv)
  BY LedgerAssumption DEF ClosingRows, LedgerAssumption
<1> HIDE DEF b, mv
<1>6. b + mv.added \in Allowed
  BY <1>1, <1>2, <1>3, <1>4 DEF Allowed
<1>7. mv.used > 0 => b + mv.added - mv.used \in Allowed
  BY <1>1, <1>2, <1>3, <1>4 DEF Allowed
<1> QED BY <1>2, <1>3, <1>5, <1>6, <1>7, ApplyComputationRows

(* So does recompute_from, its reversal included.                           *)
LEMMA RecomputeRowsRange ==
    ASSUME ~ AllowNegative, NEW month, NEW net \in Int, NEW c \in Caps,
           NEW rows \in Seq(RowsOver(Months, Allowed))
    PROVE  RecomputeRows(rows, month, net, c)
               \in Seq(RowsOver({month}, Allowed))
<1>1. 0 \in Allowed /\ Allowed \subseteq Int
  BY DEF Allowed
<1>2. BalanceBefore(rows, month) \in Allowed
  BY <1>1, BalanceBeforeIn
<1>3. ReverseTo(rows, month, BalanceBefore(rows, month))
        \in Seq(RowsOver({month}, Allowed))
  BY <1>1, <1>2, ReverseToRows
<1> QED BY <1>3, ClosingRowsRange, ConcatProperties DEF RecomputeRows

(* Every operation keeps the balances of all rows within what some cap      *)
(* allows, those of superseded rows included.                               *)
THEOREM AllRowsInRange == Spec => []InRange
<1>1. Init => InRange
  BY EmptySeq DEF Init, InRange
<1>2. TypeOK /\ InRange /\ [Next]_vars => InRange'
  <2> SUFFICES ASSUME TypeOK, InRange, [Next]_vars, ~ AllowNegative
               PROVE  ledger' \in Seq(RowsOver(Months, Allowed))
    BY DEF InRange
  <2>0. /\ ledger \in Seq(RowsOver(Months, Allowed))
        /\ cap \in Caps
        /\ Nets \subseteq Int
    BY LedgerAssumption DEF LedgerAssumption, TypeOK, InRange
  <2>1. ASSUME NEW month \in Months, NEW net \in Nets, Close(month, net)
        PROVE  ledger' \in Seq(RowsOver(Months, Allowed))
    BY <2>0, <2>1, ClosingRowsRange, RowsWiden DEF Close
  <2>2. ASSUME NEW month \in Months, NEW net \in Nets, Recompute(month, net)
        PROVE  ledger' \in Seq(RowsOver(Months, Allowed))
    BY <2>0, <2>2, RecomputeRowsRange, RowsWiden DEF Recompute
  <2>3. ASSUME UNCHANGED ledger
        PROVE  ledger' \in Seq(RowsOver(Months, Allowed))
    BY <2>0, <2>3
  <2> QED BY <2>1, <2>2, <2>3 DEF Next, Reopen, SetCap, vars
<1> QED BY <1>1, <1>2, TypeCorrect, PTL DEF Spec

(* "A running balance that can never go below zero": no order of closing,   *)
(* reopening and recomputing takes a balance below zero or above the        *)
(* greatest cap.                                                            *)
THEOREM BalanceStaysInRange == Spec => []BalanceInRange
<1>1. InRange => BalanceInRange
  <2> SUFFICES ASSUME InRange, ~ AllowNegative, NEW i \in 1 .. Len(ledger)
               PROVE  ledger[i].balance = 0
                        \/ \E c \in Caps : ledger[i].balance \in 0 .. c
    BY DEF BalanceInRange
  <2>1. ledger[i].balance \in Allowed
    <3>1. ledger[i] \in RowsOver(Months, Allowed)
      BY ElementOfSeq DEF InRange
    <3> QED BY <3>1 DEF RowsOver
  <2> PICK b : b = ledger[i].balance
    OBVIOUS
  <2>2. b \in Nat /\ (b = 0 \/ \E c \in Caps : b <= c)
    BY <2>1 DEF Allowed
  <2>3. ASSUME NEW c \in Caps, b <= c PROVE b \in 0 .. c
    BY <2>2, <2>3, LedgerAssumption DEF LedgerAssumption
  <2> QED BY <2>2, <2>3
<1> QED BY <1>1, AllRowsInRange, PTL

-----------------------------------------------------------------------------
(* What a recompute leaves behind.                                          *)

AnyRow == RowsOver(Months, Int)

\* A ledger whose rows from n + 1 on are threaded.
Threaded(rows, n) ==
    rows \in Seq(AnyRow) /\ n \in 0 .. Len(rows) /\ ThreadedAfter(rows, n)

(* A row whose balance is the running one plus its move keeps the rows      *)
(* threaded.                                                                *)
LEMMA RowThreads ==
    ASSUME NEW rows, NEW n, Threaded(rows, n),
           NEW row \in AnyRow, row.balance = CurrentBalance(rows) + Moves(row)
    PROVE  /\ Threaded(rows \o <<row>>, n)
           /\ CurrentBalance(rows \o <<row>>) = row.balance
<1> DEFINE new == rows \o <<row>>
<1>1. rows \in Seq(AnyRow) /\ n \in 0 .. Len(rows) /\ ThreadedAfter(rows, n)
  BY DEF Threaded
<1>2. Len(rows) \in Nat /\ new \in Seq(AnyRow) /\ Len(new) = Len(rows) + 1
  BY <1>1
<1>3. new[Len(new)] = row /\ new # <<>>
  BY <1>1, <1>2
<1>4. \A j \in 1 .. Len(rows) : new[j] = rows[j]
  BY <1>1
<1> HIDE DEF new
<1>5. CurrentBalance(new) = row.balance
  BY <1>3 DEF CurrentBalance
<1>6. ASSUME NEW i \in 1 .. Len(rows)
      PROVE  new[i] = rows[i] /\ SubSeq(new, 1, i - 1) = SubSeq(rows, 1, i - 1)
  BY <1>1, <1>2, <1>4
<1>7. SubSeq(new, 1, Len(new) - 1) = rows
  BY <1>1, <1>2, <1>4
<1>8. ThreadedAfter(new, n)
  <2> SUFFICES ASSUME NEW i \in (n + 1) .. Len(new)
               PROVE  new[i].balance = CurrentBalance(SubSeq(new, 1, i - 1)) + Moves(new[i])
    BY DEF ThreadedAfter
  <2>1. CASE i = Len(new)
    <3>1. new[i] = row /\ SubSeq(new, 1, i - 1) = rows
      BY <1>3, <1>7, <2>1
    <3> QED BY <3>1
  <2>2. CASE i # Len(new)
    <3>1. i \in (n + 1) .. Len(rows) /\ i \in 1 .. Len(rows)
      BY <1>1, <1>2, <2>2
    <3>2. rows[i].balance = CurrentBalance(SubSeq(rows, 1, i - 1)) + Moves(rows[i])
      BY <1>1, <3>1 DEF ThreadedAfter
    <3> QED BY <1>6, <3>1, <3>2
  <2> QED BY <2>1, <2>2
<1>9. n \in 0 .. Len(new)
  BY <1>1, <1>2
<1> QED BY <1>2, <1>5, <1>8, <1>9 DEF Threaded, new

(* With negative balances off, what the calculation hands on is what it     *)
(* started from, plus the extra, less what was used.                        *)
LEMMA MovementAdds ==
    ASSUME NEW net \in Int, NEW b \in Nat, NEW c \in Nat,
           NEW borrow \in BOOLEAN, ~ borrow,
           NEW mv, mv = ApplyBalance(net, b, c, borrow)
    PROVE  /\ mv.added \in Nat /\ mv.trimmed \in Nat /\ mv.used \in Nat
           /\ mv.out = b + mv.added - mv.used
<1>1. CASE net > 0
  BY <1>1 DEF ApplyBalance, ExtraMovement, Unmoved, Least, Most
<1>2. CASE net < 0
  BY <1>2 DEF ApplyBalance, ShortfallMovement, Unmoved, Least
<1>3. CASE net = 0
  BY <1>3 DEF ApplyBalance, Unmoved
<1>4. net > 0 \/ net < 0 \/ net = 0
  OBVIOUS
<1> QED BY <1>1, <1>2, <1>3, <1>4, Zenon

(* Rows appended together or one after another.                             *)
LEMMA ConcatFour ==
    ASSUME NEW S, NEW r \in Seq(S), NEW s \in Seq(S), NEW t \in Seq(S), NEW u \in Seq(S)
    PROVE  r \o ((s \o t) \o u) = ((r \o s) \o t) \o u
<1>1. s \o t \in Seq(S)
  BY ConcatProperties
<1> QED BY <1>1, ConcatAssociative

(* apply_computation threads its rows on the balance it was given, if that  *)
(* is the running one, and ends at what the calculation hands on.           *)
LEMMA ComputationThreads ==
    ASSUME NEW month \in Months, NEW rows, NEW n, Threaded(rows, n),
           NEW b \in Nat, CurrentBalance(rows) = b,
           NEW mv, mv.added \in Nat, mv.trimmed \in Nat, mv.used \in Nat
    PROVE  /\ ThreadedAfter(rows \o ApplyComputation(month, b, mv), n)
           /\ CurrentBalance(rows \o ApplyComputation(month, b, mv)) = b + mv.added - mv.used
<1> DEFINE raised == b + mv.added
           row1 == Entry(month, "extra_added", mv.added, raised)
           row2 == Entry(month, "cap_trim", mv.trimmed, raised)
           row3 == Entry(month, "compensation_used", -mv.used, raised - mv.used)
           s1 == RowIf(mv.added > 0, row1)
           s2 == RowIf(mv.trimmed > 0, row2)
           s3 == RowIf(mv.used > 0, row3)
           new1 == rows \o s1
           new2 == new1 \o s2
           new3 == new2 \o s3
<1>1. /\ row1 \in AnyRow /\ row2 \in AnyRow /\ row3 \in AnyRow
      /\ row1.balance = raised /\ row2.balance = raised /\ row3.balance = raised - mv.used
      /\ Moves(row1) = mv.added /\ Moves(row2) = 0 /\ Moves(row3) = -mv.used
  BY DEF AnyRow, RowsOver, Entry, EntryTypes, Moves
<1>2. raised \in Int /\ raised = b + mv.added
  OBVIOUS
<1> HIDE DEF row1, row2, row3
<1>3. /\ (s1 = <<>> /\ mv.added = 0) \/ s1 = <<row1>>
      /\ s2 = <<>> \/ s2 = <<row2>>
      /\ (s3 = <<>> /\ mv.used = 0) \/ s3 = <<row3>>
  BY DEF RowIf
<1>4. ApplyComputation(month, b, mv) = s1 \o s2 \o s3
  BY DEF ApplyComputation, row1, row2, row3
<1> HIDE DEF s1, s2, s3
<1>5. rows \o (s1 \o s2 \o s3) = new3
  <2>1. s1 \in Seq(AnyRow) /\ s2 \in Seq(AnyRow) /\ s3 \in Seq(AnyRow) /\ rows \in Seq(AnyRow)
    <3>1. <<row1>> \in Seq(AnyRow) /\ <<row2>> \in Seq(AnyRow) /\ <<row3>> \in Seq(AnyRow)
      BY <1>1
    <3>2. <<>> \in Seq(AnyRow)
      OBVIOUS
    <3> QED BY <1>3, <3>1, <3>2 DEF Threaded
  <2>2. rows \o ((s1 \o s2) \o s3) = ((rows \o s1) \o s2) \o s3
    BY ONLY <2>1, ConcatFour
  <2> QED BY <2>2
<1> HIDE DEF raised, new1, new2, new3
<1>6. Threaded(new1, n) /\ CurrentBalance(new1) = raised
  <2>1. CASE s1 = <<row1>>
    <3>1. Threaded(rows \o <<row1>>, n) /\ CurrentBalance(rows \o <<row1>>) = row1.balance
      <4>1. row1 \in AnyRow /\ row1.balance = CurrentBalance(rows) + Moves(row1)
        BY <1>1, <1>2, Threaded(rows, n), CurrentBalance(rows) = b
      <4> QED BY <4>1, Threaded(rows, n), CurrentBalance(rows) = b, RowThreads
    <3> QED BY <1>1, <1>2, <2>1, <3>1 DEF new1
  <2>2. CASE s1 = <<>> /\ mv.added = 0
    <3>1. new1 = rows
      <4>1. rows \in Seq(AnyRow)
        BY Threaded(rows, n), CurrentBalance(rows) = b DEF Threaded
      <4> QED BY <2>2, <4>1 DEF new1
    <3> QED BY <1>2, <2>2, <3>1, Threaded(rows, n), CurrentBalance(rows) = b
  <2> QED BY <1>3, <2>1, <2>2
<1>7. Threaded(new2, n) /\ CurrentBalance(new2) = raised
  <2>1. CASE s2 = <<row2>>
    <3>1. Threaded(new1 \o <<row2>>, n) /\ CurrentBalance(new1 \o <<row2>>) = row2.balance
      <4>1. row2 \in AnyRow /\ row2.balance = CurrentBalance(new1) + Moves(row2)
        BY <1>1, <1>2, <1>6
      <4> QED BY <4>1, <1>6, RowThreads
    <3> QED BY <1>1, <1>2, <2>1, <3>1 DEF new2
  <2>2. CASE s2 = <<>>
    <3>1. new2 = new1
      <4>1. new1 \in Seq(AnyRow)
        BY <1>6 DEF Threaded
      <4> QED BY <2>2, <4>1 DEF new2
    <3> QED BY <1>2, <2>2, <3>1, <1>6
  <2> QED BY <1>3, <2>1, <2>2
<1>8. Threaded(new3, n) /\ CurrentBalance(new3) = raised - mv.used
  <2>1. CASE s3 = <<row3>>
    <3>1. Threaded(new2 \o <<row3>>, n) /\ CurrentBalance(new2 \o <<row3>>) = row3.balance
      <4>1. row3 \in AnyRow /\ row3.balance = CurrentBalance(new2) + Moves(row3)
        BY <1>1, <1>2, <1>7
      <4> QED BY <4>1, <1>7, RowThreads
    <3> QED BY <1>1, <1>2, <2>1, <3>1 DEF new3
  <2>2. CASE s3 = <<>> /\ mv.used = 0
    <3>1. new3 = new2
      <4>1. new2 \in Seq(AnyRow)
        BY <1>7 DEF Threaded
      <4> QED BY <2>2, <4>1 DEF new3
    <3> QED BY <1>2, <2>2, <3>1, <1>7
  <2> QED BY <1>3, <2>1, <2>2
<1> QED BY <1>2, <1>4, <1>5, <1>8 DEF Threaded

(* After reverse_to the running balance is the target.                      *)
LEMMA ReversalThreads ==
    ASSUME NEW month \in Months, NEW rows \in Seq(AnyRow), NEW target \in Int
    PROVE  /\ Threaded(rows \o ReverseTo(rows, month, target), Len(rows))
           /\ CurrentBalance(rows \o ReverseTo(rows, month, target)) = target
<1> DEFINE now == CurrentBalance(rows)
           row == Entry(month, "reversal", target - now, target)
<1>1. now \in Int
  BY CurrentBalanceIn DEF AnyRow
<1>2. row \in AnyRow /\ row.balance = now + Moves(row) /\ row.balance = target
  <2> HIDE DEF now
  <2> QED BY <1>1 DEF AnyRow, RowsOver, Entry, EntryTypes, Moves
<1>3. Threaded(rows, Len(rows))
  <2>1. Len(rows) \in Nat
    OBVIOUS
  <2> QED BY <2>1 DEF Threaded, ThreadedAfter
<1>4. CASE now = target
  <2>1. rows \o ReverseTo(rows, month, target) = rows
    BY <1>4 DEF ReverseTo, RowIf
  <2> QED BY <1>3, <1>4, <2>1
<1>5. CASE now # target
  <2>1. ReverseTo(rows, month, target) = <<row>>
    BY <1>5 DEF ReverseTo, RowIf
  <2> DEFINE n == Len(rows)
  <2> HIDE DEF row, n
  <2>2. Threaded(rows \o <<row>>, n) /\ CurrentBalance(rows \o <<row>>) = row.balance
    <3>1. Threaded(rows, n)
      BY <1>3 DEF n
    <3> QED BY <1>2, <3>1, RowThreads
  <2> QED BY <1>2, <2>1, <2>2 DEF n
<1> QED BY <1>4, <1>5

(* Recomputing a month books exactly what the calculation computed, however *)
(* tangled the ledger was.  The condition is needed: a shortfall borrowed   *)
(* from later months is handed on by the calculation and never booked.      *)
THEOREM RecomputingIsExact ==
    ASSUME ~ AllowNegative
    PROVE  Spec => RecomputeExact
<1> DEFINE Exact == \A month \in Months, net \in Nets :
          Recompute(month, net) =>
              /\ ThreadedAfter(ledger', Len(ledger))
              /\ CurrentBalance(ledger')
                   = ApplyBalance(net, BalanceBefore(ledger, month), cap, AllowNegative).out
<1>1. TypeOK /\ InRange /\ [Next]_vars => [Exact]_vars
  <2> SUFFICES ASSUME TypeOK, InRange, NEW month \in Months, NEW net \in Nets,
                      Recompute(month, net)
               PROVE  /\ ThreadedAfter(ledger', Len(ledger))
                      /\ CurrentBalance(ledger')
                           = ApplyBalance(net, BalanceBefore(ledger, month), cap, AllowNegative).out
    OBVIOUS
  <2> DEFINE b == BalanceBefore(ledger, month)
             mv == ApplyBalance(net, b, cap, AllowNegative)
             reversed == ledger \o ReverseTo(ledger, month, b)
  <2>1. cap \in Nat /\ net \in Int /\ AllowNegative \in BOOLEAN
    BY LedgerAssumption DEF LedgerAssumption, TypeOK
  <2>2. ledger \in Seq(AnyRow) /\ ledger \in Seq(RowsOver(Months, Allowed))
    BY DEF TypeOK, Row, RowsOver, AnyRow, InRange
  <2>3. b \in Allowed /\ b \in Nat
    <3>1. 0 \in Allowed /\ Allowed \subseteq Nat
      BY DEF Allowed
    <3>2. b \in Allowed
      BY <2>2, <3>1, BalanceBeforeIn
    <3> QED BY <3>1, <3>2
  <2>4. /\ mv.added \in Nat /\ mv.trimmed \in Nat /\ mv.used \in Nat
        /\ mv.out = b + mv.added - mv.used
    BY <2>1, <2>3, MovementAdds
  <2>5. ledger' = ledger \o (ReverseTo(ledger, month, b) \o ApplyComputation(month, b, mv))
    BY DEF Recompute, RecomputeRows, ClosingRows
  <2> HIDE DEF mv, b
  <2>6. Threaded(reversed, Len(ledger)) /\ CurrentBalance(reversed) = b
    BY <2>2, <2>3, ReversalThreads
  <2>7. ledger' = reversed \o ApplyComputation(month, b, mv)
    <3>1. ReverseTo(ledger, month, b) \in Seq(RowsOver({month}, Int))
      <4>1. 0 \in Int /\ b \in Int
        BY <2>3
      <4> QED BY <2>2, <4>1, ReverseToRows DEF AnyRow
    <3>2. ApplyComputation(month, b, mv) \in Seq(RowsOver({month}, Int))
      <4>1. b \in Int /\ mv.used \in Int /\ b + mv.added \in Int /\ b + mv.added - mv.used \in Int
        BY <2>3, <2>4
      <4> QED BY <2>4, <4>1, ApplyComputationRows
    <3>3. RowsOver({month}, Int) \subseteq AnyRow
      BY DEF AnyRow, RowsOver
    <3>4. ReverseTo(ledger, month, b) \in Seq(AnyRow) /\ ApplyComputation(month, b, mv) \in Seq(AnyRow)
      BY <3>1, <3>2, <3>3, SeqMonotonic
    <3> QED BY <2>2, <2>5, <3>4, ConcatAssociative
  <2> HIDE DEF reversed
  <2>8. ThreadedAfter(ledger', Len(ledger)) /\ CurrentBalance(ledger') = b + mv.added - mv.used
    BY <2>3, <2>4, <2>6, <2>7, ComputationThreads
  <2> QED BY <2>4, <2>8 DEF mv, b
<1>2. Spec => []TypeOK
  BY TypeCorrect
<1>3. Spec => []InRange
  BY AllRowsInRange
<1> QED BY <1>1, <1>2, <1>3, PTL DEF Spec, RecomputeExact

-----------------------------------------------------------------------------
(* Rows of a month appended at the end change nothing that an earlier       *)
(* month, or the month itself, starts from.                                 *)
LEMMA AppendKeepsEarlier ==
    ASSUME NEW rows \in Seq(RowsOver(Months, Int)), NEW month \in Months,
           NEW new \in Seq(RowsOver({month}, Int)), NEW k \in 1 .. month
    PROVE  BalanceBefore(rows \o new, k) = BalanceBefore(rows, k)
<1> DEFINE all == rows \o new
<1>1. /\ Len(rows) \in Nat
      /\ Len(new) \in Nat
      /\ Len(all) = Len(rows) + Len(new)
      /\ \A i \in 1 .. Len(rows) : all[i] = rows[i]
      /\ \A i \in Len(rows) + 1 .. Len(all) : all[i] = new[i - Len(rows)]
  <2>1. new \in Seq(RowsOver(Months, Int))
    <3>1. RowsOver({month}, Int) \subseteq RowsOver(Months, Int)
      BY DEF RowsOver
    <3> QED BY <3>1, SeqMonotonic
  <2> QED BY <2>1, ConcatProperties, LenProperties
<1>2. \A i \in Len(rows) + 1 .. Len(all) : ~ (all[i].month < k)
  <2> SUFFICES ASSUME NEW i \in Len(rows) + 1 .. Len(all)
               PROVE  ~ (all[i].month < k)
    OBVIOUS
  <2>1. i - Len(rows) \in 1 .. Len(new)
    BY <1>1
  <2>2. new[i - Len(rows)] \in RowsOver({month}, Int)
    BY <2>1, ElementOfSeq
  <2>3. all[i].month = month
    BY <1>1, <2>2 DEF RowsOver
  <2> QED BY <2>3, LedgerAssumption DEF LedgerAssumption, Months
<1> HIDE DEF all
<1>3. EarlierRows(all, k) = EarlierRows(rows, k)
  BY <1>1, <1>2 DEF EarlierRows
<1>4. CASE EarlierRows(rows, k) = {}
  BY <1>3, <1>4 DEF BalanceBefore, all
<1>5. CASE EarlierRows(rows, k) # {}
  <2>1. LatestOf(EarlierRows(rows, k)) \in 1 .. Len(rows)
    <3>1. EarlierRows(rows, k) \in SUBSET (1 .. Len(rows))
      BY DEF EarlierRows
    <3> QED BY <1>1, <1>5, <3>1, LatestOfPositions
  <2> QED BY <1>1, <1>3, <1>5, <2>1 DEF BalanceBefore, all
<1> QED BY <1>4, <1>5

(* The ledger is append-only, and closing or recomputing a month never      *)
(* changes what that month or an earlier one is computed from: the reason   *)
(* recompute_from may run forward from the corrected month.                 *)
THEOREM AppendOnly == Spec => EarlierCarryKept
<1> DEFINE Kept(month) ==
               /\ Len(ledger) <= Len(ledger')
               /\ SubSeq(ledger', 1, Len(ledger)) = ledger
               /\ \A k \in 1 .. month :
                      BalanceBefore(ledger', k) = BalanceBefore(ledger, k)
<1>1. ASSUME TypeOK, NEW month \in Months, Books(month)
      PROVE  Kept(month)
  <2>1. PICK new \in Seq(RowsOver({month}, Int)) : ledger' = ledger \o new
    <3>0. /\ ledger \in Seq(RowsOver(Months, Int))
          /\ cap \in Nat
          /\ Nets \subseteq Int
      BY <1>1, LedgerAssumption DEF LedgerAssumption, TypeOK, Row, RowsOver
    <3>1. PICK net \in Nets : Close(month, net) \/ Recompute(month, net)
      BY <1>1 DEF Books
    <3>2. CASE Close(month, net)
      BY <3>0, <3>2, ClosingRowsType DEF Close
    <3>3. CASE Recompute(month, net)
      BY <3>0, <3>3, RecomputeRowsType DEF Recompute
    <3> QED BY <3>1, <3>2, <3>3
  <2>2. ledger \in Seq(RowsOver(Months, Int))
    BY <1>1 DEF TypeOK, Row, RowsOver
  <2>3. SubSeq(ledger', 1, Len(ledger)) = ledger
    <3>1. new \in Seq(RowsOver(Months, Int))
      <4>1. RowsOver({month}, Int) \subseteq RowsOver(Months, Int)
        BY DEF RowsOver
      <4> QED BY <4>1, SeqMonotonic
    <3>2. /\ Len(ledger) \in Nat
          /\ \A i \in 1 .. Len(ledger) : ledger'[i] = ledger[i]
      BY <2>1, <2>2, <3>1, ConcatProperties, LenProperties
    <3>3. \A i \in 1 .. Len(ledger) : ledger'[i] \in RowsOver(Months, Int)
      BY <2>2, <3>2, ElementOfSeq
    <3>4. /\ SubSeq(ledger', 1, Len(ledger)) \in Seq(RowsOver(Months, Int))
          /\ Len(SubSeq(ledger', 1, Len(ledger))) = Len(ledger)
          /\ \A i \in 1 .. Len(ledger) :
                 SubSeq(ledger', 1, Len(ledger))[i] = ledger[i]
      BY <3>2, <3>3, SubSeqProperties
    <3> QED BY <2>2, <3>4, SeqEqual
  <2>4. \A k \in 1 .. month :
            BalanceBefore(ledger', k) = BalanceBefore(ledger, k)
    BY <2>1, <2>2, AppendKeepsEarlier
  <2>5. Len(ledger) <= Len(ledger')
    <3>1. Len(ledger') = Len(ledger) + Len(new)
      BY <2>1, <2>2
    <3> QED BY <2>2, <3>1, LenProperties
  <2> QED BY <2>3, <2>4, <2>5
<1>2. TypeOK /\ [Next]_vars
        => [\A month \in Months : Books(month) => Kept(month)]_vars
  BY <1>1
<1> QED BY <1>2, TypeCorrect, PTL DEF Spec, EarlierCarryKept

-----------------------------------------------------------------------------
(* What _apply_balance leaves stays under the greater of the cap and the    *)
(* balance carried in, with negative balances on or off.                    *)
LEMMA MovementCap ==
    ASSUME NEW net \in Int, NEW b \in Int, NEW c \in Nat,
           NEW borrow \in BOOLEAN, NEW mv, mv = ApplyBalance(net, b, c, borrow)
    PROVE  /\ b + mv.added <= Most(c, b)
           /\ mv.used > 0 => b + mv.added - mv.used <= Most(c, b)
<1>1. CASE net > 0
  BY <1>1 DEF ApplyBalance, ExtraMovement, Unmoved, Least, Most
<1>2. CASE net < 0
  BY <1>2 DEF ApplyBalance, ShortfallMovement, Unmoved, Least, Most
<1>3. CASE net = 0
  BY <1>3 DEF ApplyBalance, Unmoved, Most
<1>4. net > 0 \/ net < 0 \/ net = 0
  OBVIOUS
<1> QED BY <1>1, <1>2, <1>3, <1>4, Zenon

\* The balances a month may be given that starts from b under cap c.
UnderCap(c, b) == {x \in Int : x <= Most(c, b)}

(* close_month books no balance above the cap or the one carried in.        *)
LEMMA ClosingRowsUnderCap ==
    ASSUME NEW month, NEW net \in Int, NEW c \in Nat,
           NEW rows \in Seq(RowsOver(Months, Int))
    PROVE  ClosingRows(rows, month, net, c)
               \in Seq(RowsOver({month}, UnderCap(c, BalanceBefore(rows, month))))
<1> DEFINE b == BalanceBefore(rows, month)
           mv == ApplyBalance(net, b, c, AllowNegative)
           B == UnderCap(c, b)
<1>0. AllowNegative \in BOOLEAN
  BY LedgerAssumption DEF LedgerAssumption
<1>1. b \in Int
  BY BalanceBeforeIn
<1>2. mv.added \in Nat /\ mv.trimmed \in Nat /\ mv.used \in Int
  BY <1>0, <1>1, MovementType
<1>3. /\ b + mv.added <= Most(c, b)
      /\ mv.used > 0 => b + mv.added - mv.used <= Most(c, b)
  BY <1>0, <1>1, MovementCap
<1>4. ClosingRows(rows, month, net, c) = ApplyComputation(month, b, mv)
  BY DEF ClosingRows
<1> HIDE DEF b, mv
<1>5. b + mv.added \in B /\ (mv.used > 0 => b + mv.added - mv.used \in B)
  BY <1>1, <1>2, <1>3 DEF UnderCap
<1> HIDE DEF B
<1>6. ApplyComputation(month, b, mv) \in Seq(RowsOver({month}, B))
  BY <1>1, <1>2, <1>5, ApplyComputationRows
<1> QED BY <1>4, <1>6 DEF B, b

(* Nor does recompute_from: its reversal returns to the balance carried in. *)
LEMMA RecomputeRowsUnderCap ==
    ASSUME NEW month, NEW net \in Int, NEW c \in Nat,
           NEW rows \in Seq(RowsOver(Months, Int))
    PROVE  RecomputeRows(rows, month, net, c)
               \in Seq(RowsOver({month}, UnderCap(c, BalanceBefore(rows, month))))
<1> DEFINE b == BalanceBefore(rows, month)
           B == UnderCap(c, b)
<1>1. b \in Int
  BY BalanceBeforeIn
<1>2. B \subseteq Int /\ b \in B
  BY <1>1 DEF UnderCap, Most
<1> HIDE DEF b, B
<1>3. ReverseTo(rows, month, b) \in Seq(RowsOver({month}, B))
  <2>1. 0 \in Int /\ Int \subseteq Int
    OBVIOUS
  <2> QED BY <1>2, <2>1, ReverseToRows, Zenon
<1>4. ClosingRows(rows, month, net, c) \in Seq(RowsOver({month}, B))
  BY ClosingRowsUnderCap DEF B, b
<1>5. RecomputeRows(rows, month, net, c) \in Seq(RowsOver({month}, B))
  BY <1>3, <1>4, ConcatProperties DEF RecomputeRows, b
<1> QED BY <1>5 DEF B, b

(* "Add to balance up to the cap": no operation on a month books a balance  *)
(* above the cap, except one the month already started from, though the cap *)
(* may have been lowered any number of times before.                        *)
THEOREM CapStaysRespected == Spec => CapRespected
<1> DEFINE Capped(month) ==
               \A i \in (Len(ledger) + 1) .. Len(ledger') :
                   ledger'[i].balance <= Most(cap, BalanceBefore(ledger, month))
<1>1. ASSUME TypeOK, NEW month \in Months, Books(month)
      PROVE  Capped(month)
  <2> DEFINE B == UnderCap(cap, BalanceBefore(ledger, month))
  <2>0. /\ ledger \in Seq(RowsOver(Months, Int))
        /\ cap \in Nat
        /\ Nets \subseteq Int
    BY <1>1, LedgerAssumption DEF LedgerAssumption, TypeOK, Row, RowsOver
  <2>1. PICK new \in Seq(RowsOver({month}, B)) : ledger' = ledger \o new
    <3>1. PICK net \in Nets : Close(month, net) \/ Recompute(month, net)
      BY <1>1 DEF Books
    <3>2. CASE Close(month, net)
      BY <2>0, <3>2, ClosingRowsUnderCap DEF Close
    <3>3. CASE Recompute(month, net)
      BY <2>0, <3>3, RecomputeRowsUnderCap DEF Recompute
    <3> QED BY <3>1, <3>2, <3>3
  <2> SUFFICES ASSUME NEW i \in (Len(ledger) + 1) .. Len(ledger')
               PROVE  ledger'[i].balance
                        <= Most(cap, BalanceBefore(ledger, month))
    OBVIOUS
  <2>2. i - Len(ledger) \in 1 .. Len(new) /\ ledger'[i] = new[i - Len(ledger)]
    BY <2>0, <2>1
  <2>3. new[i - Len(ledger)] \in RowsOver({month}, B)
    BY <2>2, ElementOfSeq
  <2>4. ledger'[i].balance \in B
    BY <2>2, <2>3 DEF RowsOver
  <2> QED BY <2>4 DEF UnderCap
<1>2. TypeOK /\ [Next]_vars
        => [\A month \in Months : Books(month) => Capped(month)]_vars
  BY <1>1
<1> QED BY <1>2, TypeCorrect, PTL DEF Spec, CapRespected

-----------------------------------------------------------------------------
(* Fees.                                                                    *)

FeeRow == [amount : Nat, due : Int, status : Unpaid \cup {"PAID"}, paid : Nat, deleted : BOOLEAN]
FeeProfile == [student : Student, agreed : Nat, paid : Nat, pending : Int, plan : Seq(FeeRow),
            deleted : BOOLEAN]
Till == {NotPaying}
        \cup [phase : {"installment"}, of : Nat \X Nat, row : FeeRow, amount : Nat]
        \cup [phase : {"profile"}, of : Nat \X Nat, row : FeeRow, amount : Nat, paid : Nat, pending : Int]

FeesTypes ==
    /\ profiles \in Seq(FeeProfile)
    /\ received \in [Installments -> Nat]
    /\ till \in [Clerk -> Till]
    /\ sweeping \subseteq Installments
    /\ day \in Nat /\ stale \in BOOLEAN

\* The installments of a profile are voided with it, and its plan is the fee.
PlansHold ==
    \A p \in Profiles :
        LET plan == profiles[p].plan
        IN  /\ \A n \in DOMAIN plan : plan[n].deleted = profiles[p].deleted
            /\ SumFunction([n \in DOMAIN plan |-> plan[n].amount]) = profiles[p].agreed

\* A clerk's reading of an installment leaves room for the amount, and promises
\* no more than was received; that of a profile balances.
TillKnows ==
    \A c \in Clerk : till[c] # NotPaying =>
        LET t == till[c]
        IN  /\ t.of \in Installments
            /\ t.amount > 0 /\ t.row.paid + t.amount <= t.row.amount
            /\ t.row.amount = Installment(t.of).amount
            /\ t.row.paid <= received[t.of]
            /\ t.phase = "profile" => t.paid + t.pending = profiles[t.of[1]].agreed

FeesInv == FeesTypes /\ PlansHold /\ TillKnows /\ TotalsBalance /\ BookedWithinReceived /\ PaymentsBooked

-----------------------------------------------------------------------------
\* An installment is named by its profile and its place in the plan.
LEMMA InstallmentIs ==
    \A i : i \in Installments <=> \E p \in Profiles : \E n \in DOMAIN profiles[p].plan : i = <<p, n>>
BY DEF Installments

\* What is read of the tables has their types.
LEMMA ProfileIs ==
    ASSUME FeesTypes
    PROVE  /\ \A p \in Profiles : profiles[p] \in FeeProfile /\ p \in Nat
           /\ \A p \in Profiles : \A n \in DOMAIN profiles[p].plan :
                 profiles[p].plan[n] \in FeeRow /\ n \in Nat
           /\ Profiles = 1 .. Len(profiles) /\ Len(profiles) \in Nat
<1>1. profiles \in Seq(FeeProfile)
  BY DEF FeesTypes
<1>2. Profiles = 1 .. Len(profiles) /\ Len(profiles) \in Nat
  BY <1>1 DEF Profiles
<1>3. \A p \in Profiles : profiles[p] \in FeeProfile /\ p \in Nat
  BY <1>1, <1>2
<1>4. ASSUME NEW p \in Profiles, NEW n \in DOMAIN profiles[p].plan
      PROVE  profiles[p].plan[n] \in FeeRow /\ n \in Nat
  <2> PICK s : s = profiles[p].plan
    OBVIOUS
  <2>1. s \in Seq(FeeRow)
    BY <1>3 DEF FeeProfile
  <2> QED
    BY <2>1
<1> QED
  BY <1>2, <1>3, <1>4

\* The same of an installment named by a pair.
LEMMA InstallmentType ==
    ASSUME FeesTypes
    PROVE  \A i \in Installments : /\ Installment(i) \in FeeRow /\ received[i] \in Nat
                                   /\ i \in Nat \X Nat /\ i[1] \in Profiles
                                   /\ i[2] \in DOMAIN profiles[i[1]].plan
<1> SUFFICES ASSUME NEW i \in Installments
             PROVE  /\ Installment(i) \in FeeRow /\ received[i] \in Nat
                    /\ i \in Nat \X Nat /\ i[1] \in Profiles
                    /\ i[2] \in DOMAIN profiles[i[1]].plan
  OBVIOUS
<1>1. PICK p \in Profiles : \E n \in DOMAIN profiles[p].plan : i = <<p, n>>
  BY InstallmentIs
<1>2. PICK n \in DOMAIN profiles[p].plan : i = <<p, n>>
  BY <1>1
<1>3. profiles[p].plan[n] \in FeeRow /\ n \in Nat /\ p \in Nat
  BY ProfileIs
<1> QED
  BY <1>2, <1>3 DEF Installment, FeesTypes

\* What a clerk is doing, by the phase.
LEMMA TillIs ==
    ASSUME FeesTypes, NEW c \in Clerk
    PROVE  /\ till[c].phase = "idle" <=> till[c] = NotPaying
           /\ till[c] # NotPaying =>
                 /\ till[c].phase \in {"installment", "profile"}
                 /\ till[c].of \in Nat \X Nat /\ till[c].row \in FeeRow /\ till[c].amount \in Nat
           /\ till[c].phase = "profile" => till[c].paid \in Nat /\ till[c].pending \in Int
<1>1. till[c] \in Till
  BY DEF FeesTypes
<1> QED
  BY <1>1 DEF Till, NotPaying

\* The invariant holds of empty tables.
THEOREM FeesInvInit == FeesInit => FeesInv
<1> SUFFICES ASSUME FeesInit PROVE FeesInv
  OBVIOUS
<1>1. profiles = <<>> /\ Profiles = {} /\ Installments = {} /\ sweeping = {}
  BY DEF FeesInit, Profiles, Installments
<1>2. FeesTypes
  <2>1. profiles \in Seq(FeeProfile)
    BY <1>1
  <2>2. received \in [Installments -> Nat]
    BY <1>1 DEF FeesInit
  <2>3. till \in [Clerk -> Till]
    BY DEF FeesInit, Till
  <2> QED
    BY <1>1, <2>1, <2>2, <2>3 DEF FeesInit, FeesTypes
<1>3. PlansHold /\ TotalsBalance /\ BookedWithinReceived /\ PaymentsBooked
  BY <1>1 DEF PlansHold, TotalsBalance, BookedWithinReceived, PaymentsBooked
<1>4. TillKnows
  BY DEF TillKnows, FeesInit
<1> QED
  BY <1>2, <1>3, <1>4 DEF FeesInv

\* Everything that is summed over is finite.
LEMMA TablesFinite ==
    ASSUME FeesTypes
    PROVE  /\ IsFiniteSet(Profiles) /\ IsFiniteSet(Live)
           /\ \A p \in Profiles : IsFiniteSet(DOMAIN profiles[p].plan)
<1>1. Profiles = 1 .. Len(profiles) /\ Len(profiles) \in Nat
  BY ProfileIs
<1>2. IsFiniteSet(Profiles)
  BY <1>1, FS_Interval
<1>3. IsFiniteSet(Live)
  <2>1. Live \subseteq Profiles
    BY DEF Live
  <2> QED
    BY <1>2, <2>1, FS_Subset
<1>4. ASSUME NEW p \in Profiles PROVE IsFiniteSet(DOMAIN profiles[p].plan)
  <2> PICK s : s = profiles[p].plan
    OBVIOUS
  <2>1. s \in Seq(FeeRow)
    BY ProfileIs DEF FeeProfile
  <2>2. DOMAIN s = 1 .. Len(s) /\ Len(s) \in Nat
    BY <2>1
  <2> QED
    BY <2>2, FS_Interval
<1> QED
  BY <1>2, <1>3, <1>4

\* The live installments are those of the live profiles (void_fee_profile voids
\* both), so a sum over them is a sum over profiles.
LEMMA LiveInstallmentIs ==
    ASSUME FeesTypes, PlansHold
    PROVE  LiveInstallments = Pairs(Live, [p \in Live |-> DOMAIN profiles[p].plan])
<1> PICK D : D = [p \in Live |-> DOMAIN profiles[p].plan]
  OBVIOUS
<1>1. ASSUME NEW i \in LiveInstallments PROVE i \in Pairs(Live, D)
  <2>1. PICK p \in Profiles : \E n \in DOMAIN profiles[p].plan : i = <<p, n>>
    BY InstallmentIs DEF LiveInstallments
  <2>2. PICK n \in DOMAIN profiles[p].plan : i = <<p, n>>
    BY <2>1
  <2>3. ~ profiles[p].plan[n].deleted
    BY <2>2 DEF LiveInstallments, Installment
  <2>4. p \in Live
    BY <2>3 DEF PlansHold, Live
  <2> QED
    BY <2>2, <2>4 DEF Pairs
<1>2. ASSUME NEW i \in Pairs(Live, D) PROVE i \in LiveInstallments
  <2>1. PICK p \in Live : i \in {p} \X D[p]
    BY DEF Pairs
  <2>2. PICK n \in DOMAIN profiles[p].plan : i = <<p, n>>
    BY <2>1
  <2>3. p \in Profiles /\ ~ profiles[p].deleted
    BY DEF Live
  <2>4. ~ profiles[p].plan[n].deleted
    BY <2>3 DEF PlansHold
  <2>5. i \in Installments
    BY <2>2, <2>3, InstallmentIs
  <2> QED
    BY <2>2, <2>4, <2>5 DEF LiveInstallments, Installment
<1> QED
  BY <1>1, <1>2

\* What is booked is what was received: so is what is to come.
LEMMA ListComplete ==
    ASSUME FeesInv
    PROVE  WorklistComplete
<1> SUFFICES ASSUME ~ stale, NEW i \in LiveInstallments,
                    Installment(i).due <= day, received[i] < Installment(i).amount
             PROVE  i \in Dues \cup Overdue
  BY DEF WorklistComplete
<1>1. i \in Installments
  BY DEF LiveInstallments
<1>2. Installment(i) \in FeeRow /\ received[i] \in Nat /\ day \in Nat
  BY <1>1, InstallmentType DEF FeesInv, FeesTypes
<1>3. /\ Installment(i).paid = received[i]
      /\ Installment(i).status = "PAID" => Installment(i).paid = Installment(i).amount
  BY <1>1 DEF FeesInv, PaymentsBooked
<1> PICK r : r = Installment(i)
  OBVIOUS
<1>4. r.amount \in Nat /\ r.due \in Int /\ r.paid \in Nat /\ r.status \in Unpaid \cup {"PAID"}
  BY <1>2 DEF FeeRow
<1>5. r.status # "PAID"
  BY <1>2, <1>3
<1>6. r.amount - r.paid > 0
  BY <1>2, <1>3, <1>4
<1>7. i \in Collectable
  BY <1>4, <1>5, <1>6 DEF Collectable, Balance
<1>8. r.due = day \/ r.due < day
  BY <1>2, <1>4
<1> QED
  BY <1>7, <1>8 DEF Dues, Overdue

\* The balances of a live profile add up to what it has pending.
LEMMA ProfilePending ==
    ASSUME FeesInv, ~ stale, NEW p \in Profiles, NEW D, D = DOMAIN profiles[p].plan,
           NEW b, \A n \in D : b[n] = profiles[p].plan[n].amount - profiles[p].plan[n].paid
    PROVE  Total(b, D) = profiles[p].pending
<1> PICK a, r, g : /\ a = [n \in D |-> profiles[p].plan[n].amount]
                   /\ g = [n \in D |-> received[<<p, n>>]]
                   /\ r = profiles[p]
  OBVIOUS
<1>1. r \in FeeProfile /\ \A n \in D : r.plan[n] \in FeeRow
  BY ProfileIs DEF FeesInv
<1>2. IsFiniteSet(D)
  BY TablesFinite DEF FeesInv
<1>3. SumFunction(a) = r.agreed
  BY DEF FeesInv, PlansHold
<1>4. SumFunction(g) = r.paid
  BY DEF FeesInv, PaymentsBooked
<1>5. DOMAIN a = D /\ DOMAIN g = D
  OBVIOUS
<1>6. Total(a, D) = r.agreed /\ Total(g, D) = r.paid
  BY <1>3, <1>4, <1>5, SumOfAll
<1>7. \A n \in D : a[n] \in Int /\ g[n] \in Int /\ b[n] = a[n] - g[n]
  <2>1. ASSUME NEW n \in D PROVE a[n] \in Int /\ g[n] \in Int /\ b[n] = a[n] - g[n]
    <3> PICK i : i = <<p, n>>
      OBVIOUS
    <3>1. i \in Installments /\ Installment(i) = r.plan[n]
      BY InstallmentIs DEF Installment
    <3>2. r.plan[n].paid = received[i] /\ received[i] \in Nat
      BY <3>1, InstallmentType DEF FeesInv, PaymentsBooked
    <3>3. r.plan[n].amount \in Nat
      BY <1>1 DEF FeeRow
    <3> QED
      BY <3>2, <3>3
  <2> QED
    BY <2>1
<1>8. Total(b, D) = Total(a, D) - Total(g, D)
  BY ONLY <1>2, <1>7, TotalLess
<1>9. r.agreed \in Nat /\ r.paid \in Nat /\ r.pending \in Int
  BY <1>1 DEF FeeProfile
<1>10. r.paid + r.pending = r.agreed
  BY DEF FeesInv, TotalsBalance
<1> QED
  BY <1>6, <1>8, <1>9, <1>10

\* forecast_range sums balances of installments and overall_summary what profiles
\* have pending: term by term the same, the paid installments adding zero.
LEMMA ForecastIsPending ==
    ASSUME FeesInv
    PROVE  ForecastAgrees
<1> SUFFICES ASSUME ~ stale PROVE Forecast = TotalPending
  BY DEF ForecastAgrees
<1> PICK L : L = LiveInstallments
  OBVIOUS
<1> PICK f : f = [i \in L |-> Balance(i)]
  OBVIOUS
<1> PICK T : T = {i \in L : Installment(i).status # "PAID" /\ Balance(i) > 0}
  OBVIOUS
<1> PICK D : D = [p \in Live |-> DOMAIN profiles[p].plan]
  OBVIOUS
<1>0. FeesTypes /\ PlansHold
  BY DEF FeesInv
<1>1. Forecast = Total(f, T)
  BY SumIs DEF Forecast
<1>2. ASSUME NEW i \in L
      PROVE  f[i] \in Int /\ (i \notin T => f[i] = 0)
  <2>1. i \in Installments /\ f[i] = Balance(i)
    BY DEF LiveInstallments
  <2> PICK r : r = Installment(i)
    OBVIOUS
  <2>2. r \in FeeRow /\ received[i] \in Nat
    BY <1>0, <2>1, InstallmentType
  <2>3. r.amount \in Nat /\ r.paid \in Nat
    BY <2>2 DEF FeeRow
  <2>4. r.paid <= r.amount /\ (r.status = "PAID" => r.paid = r.amount)
    BY <2>1 DEF FeesInv, BookedWithinReceived, PaymentsBooked
  <2>5. f[i] = r.amount - r.paid
    BY <2>1 DEF Balance
  <2>6. i \notin T => r.status = "PAID" \/ ~ (r.amount - r.paid > 0)
    BY <2>1 DEF Balance
  <2> QED
    BY <2>3, <2>4, <2>5, <2>6
<1>3. L = Pairs(Live, D)
  BY <1>0, LiveInstallmentIs
<1>4. IsFiniteSet(Live) /\ \A p \in Live : IsFiniteSet(D[p])
  BY <1>0, TablesFinite DEF Live
<1>5. \A p \in Live : \A n \in D[p] : <<p, n>> \in L
  BY <1>3 DEF Pairs
<1>6. \A p \in Live : \A n \in D[p] : f[<<p, n>>] \in Int
  BY <1>2, <1>5
<1> PICK g : g = [p \in Live |-> Total([n \in D[p] |-> f[<<p, n>>]], D[p])]
  OBVIOUS
<1>7. /\ IsFiniteSet(Pairs(Live, D))
      /\ Total(f, Pairs(Live, D)) = Total([p \in Live |-> Total([n \in D[p] |-> f[<<p, n>>]], D[p])], Live)
  BY ONLY <1>4, <1>6, TotalPairs
<1>8. Total(f, T) = Total(f, L)
  <2>1. IsFiniteSet(L) /\ T \in SUBSET L
    BY <1>3, <1>7
  <2>2. (\A i \in L : f[i] \in Int) /\ (\A i \in L \ T : f[i] = 0)
    BY <1>2
  <2> QED
    BY <2>1, <2>2, TotalWithoutZeros
<1> PICK h : h = [p \in Live |-> profiles[p].pending]
  OBVIOUS
<1>9. ASSUME NEW p \in Live PROVE g[p] = h[p]
  <2>1. p \in Profiles /\ D[p] = DOMAIN profiles[p].plan
    BY DEF Live
  <2> PICK b : b = [n \in D[p] |-> f[<<p, n>>]]
    OBVIOUS
  <2>2. \A n \in D[p] : b[n] = profiles[p].plan[n].amount - profiles[p].plan[n].paid
    BY <1>5 DEF Balance, Installment
  <2>3. Total(b, D[p]) = profiles[p].pending
    BY <2>1, <2>2, ProfilePending
  <2> QED
    BY <2>3
<1>10. Total(g, Live) = Total(h, Live)
  BY <1>4, <1>9, TotalSame
<1>11. TotalPending = Total(h, Live)
  <2>1. TotalPending = SumFunction(h) /\ DOMAIN h = Live
    BY DEF TotalPending
  <2> QED
    BY <2>1, SumOfAll
<1> QED
  BY <1>1, <1>3, <1>7, <1>8, <1>10, <1>11

\* The invariant gives what the runs check.
LEMMA InvGives == FeesInv => BookedSoundly /\ BooksAgree
BY ListComplete, ForecastIsPending DEF FeesInv, BookedSoundly, BooksAgree

\* A step that leaves the two tables alone leaves what is said of them.
LEMMA TablesAlone ==
    ASSUME FeesInv, UNCHANGED <<profiles, received, stale>>
    PROVE  /\ Profiles' = Profiles /\ Installments' = Installments
           /\ PlansHold' /\ TotalsBalance' /\ BookedWithinReceived' /\ PaymentsBooked'
<1>1. Profiles' = Profiles
  BY DEF Profiles
<1>2. Installments' = Installments
  BY <1>1 DEF Installments
<1>3. PlansHold'
  BY <1>1 DEF FeesInv, PlansHold
<1>4. TotalsBalance'
  BY <1>1 DEF FeesInv, TotalsBalance
<1>5. BookedWithinReceived'
  BY <1>2 DEF FeesInv, BookedWithinReceived, Installment
<1>6. PaymentsBooked'
  BY <1>1, <1>2 DEF FeesInv, PaymentsBooked, Installment
<1> QED
  BY <1>1, <1>2, <1>3, <1>4, <1>5, <1>6

\* A clerk who has read keeps the invariant if what was read is as TillKnows says.
LEMMA TillSteps ==
    ASSUME FeesInv, UNCHANGED <<profiles, received, stale>>, day' \in Nat,
           sweeping' \subseteq Installments, NEW c \in Clerk, NEW t \in Till,
           till' = [till EXCEPT ![c] = t],
           t # NotPaying =>
               /\ t.of \in Installments
               /\ t.amount > 0 /\ t.row.paid + t.amount <= t.row.amount
               /\ t.row.amount = Installment(t.of).amount
               /\ t.row.paid <= received[t.of]
               /\ t.phase = "profile" => t.paid + t.pending = profiles[t.of[1]].agreed
    PROVE  FeesInv'
<1>1. /\ Profiles' = Profiles /\ Installments' = Installments
      /\ PlansHold' /\ TotalsBalance' /\ BookedWithinReceived' /\ PaymentsBooked'
  BY TablesAlone
<1>2. till \in [Clerk -> Till]
  BY DEF FeesInv, FeesTypes
<1>3. FeesTypes'
  BY <1>1, <1>2 DEF FeesInv, FeesTypes
<1>4. till'[c] = t /\ \A d \in Clerk : d # c => till'[d] = till[d]
  BY <1>2
<1>5. TillKnows'
  <2>1. ASSUME NEW d \in Clerk, till'[d] # NotPaying
        PROVE  /\ till'[d].of \in Installments
               /\ till'[d].amount > 0 /\ till'[d].row.paid + till'[d].amount <= till'[d].row.amount
               /\ till'[d].row.amount = Installment(till'[d].of).amount
               /\ till'[d].row.paid <= received[till'[d].of]
               /\ till'[d].phase = "profile"
                     => till'[d].paid + till'[d].pending = profiles[till'[d].of[1]].agreed
    <3>1. CASE d = c
      BY <2>1, <3>1, <1>4
    <3>2. CASE d # c
      BY <2>1, <3>2, <1>4 DEF FeesInv, TillKnows
    <3> QED
      BY <3>1, <3>2
  <2> QED
    BY <2>1, <1>1 DEF TillKnows, Installment
<1> QED
  BY <1>1, <1>3, <1>5 DEF FeesInv

\* The balance test leaves room for the amount.
LEMMA ReadInstallmentKeeps ==
    ASSUME FeesInv, NEW c \in Clerk, NEW i \in Installments,
           NEW amount \in 1 .. Installment(i).amount, ReadInstallment(c, i, amount)
    PROVE  FeesInv'
<1>0. FeesTypes
  BY DEF FeesInv
<1> PICK r : r = Installment(i)
  OBVIOUS
<1>1. r \in FeeRow /\ i \in Nat \X Nat
  BY <1>0, InstallmentType
<1>2. r.amount \in Nat /\ r.paid \in Nat
  BY <1>1 DEF FeeRow
<1>3. amount \in Nat /\ amount > 0 /\ r.paid + amount <= r.amount
  BY <1>2 DEF ReadInstallment, Payable, Balance
<1>4. r.paid <= received[i]
  BY DEF FeesInv, BookedWithinReceived
<1> PICK t : t = [phase |-> "installment", of |-> i, row |-> r, amount |-> amount]
  OBVIOUS
<1>5. t \in Till
  BY <1>1, <1>3 DEF Till
<1>6. till' = [till EXCEPT ![c] = t]
  BY DEF ReadInstallment
<1>7. /\ t.of \in Installments
      /\ t.amount > 0 /\ t.row.paid + t.amount <= t.row.amount
      /\ t.row.amount = Installment(t.of).amount
      /\ t.row.paid <= received[t.of]
      /\ t.phase = "profile" => t.paid + t.pending = profiles[t.of[1]].agreed
  BY <1>3, <1>4
<1>8. UNCHANGED <<profiles, received, stale>> /\ day' \in Nat /\ sweeping' \subseteq Installments
  BY <1>0 DEF ReadInstallment, FeesTypes
<1> QED
  BY ONLY FeesInv, <1>5, <1>6, <1>7, <1>8, TillSteps

\* The totals that are read balance.
LEMMA ReadProfileKeeps ==
    ASSUME FeesInv, NEW c \in Clerk, ReadProfile(c)
    PROVE  FeesInv'
<1>0. FeesTypes
  BY DEF FeesInv
<1> PICK u, p : u = till[c] /\ p = profiles[till[c].of[1]]
  OBVIOUS
<1>1. u # NotPaying /\ u.phase = "installment"
  BY DEF ReadProfile, NotPaying
<1>2. /\ u.of \in Installments
      /\ u.amount > 0 /\ u.row.paid + u.amount <= u.row.amount
      /\ u.row.amount = Installment(u.of).amount
      /\ u.row.paid <= received[u.of]
  BY <1>1 DEF FeesInv, TillKnows
<1>3. u.of \in Nat \X Nat /\ u.row \in FeeRow /\ u.amount \in Nat
  BY <1>0, <1>1, TillIs
<1>4. u.of[1] \in Profiles
  BY <1>0, <1>2, InstallmentType
<1>5. p \in FeeProfile
  BY <1>0, <1>4, ProfileIs
<1>6. p.paid \in Nat /\ p.pending \in Int /\ p.paid + p.pending = p.agreed
  BY <1>4, <1>5 DEF FeesInv, TotalsBalance, FeeProfile
<1> PICK t : t = [phase |-> "profile", of |-> u.of, row |-> u.row, amount |-> u.amount,
                  paid |-> p.paid, pending |-> p.pending]
  OBVIOUS
<1>7. t \in Till
  BY <1>3, <1>6 DEF Till
<1>8. till' = [till EXCEPT ![c] = t]
  BY DEF ReadProfile
<1>9. /\ t.of \in Installments
      /\ t.amount > 0 /\ t.row.paid + t.amount <= t.row.amount
      /\ t.row.amount = Installment(t.of).amount
      /\ t.row.paid <= received[t.of]
      /\ t.phase = "profile" => t.paid + t.pending = profiles[t.of[1]].agreed
  BY <1>2, <1>6
<1>10. UNCHANGED <<profiles, received, stale>> /\ day' \in Nat /\ sweeping' \subseteq Installments
  BY <1>0 DEF ReadProfile, FeesTypes
<1> QED
  BY ONLY FeesInv, <1>7, <1>8, <1>9, <1>10, TillSteps

\* A request that fails has written nothing.
LEMMA DropKeeps ==
    ASSUME FeesInv, NEW c \in Clerk, Drop(c)
    PROVE  FeesInv'
<1>1. NotPaying \in Till
  BY DEF Till
<1>2. till' = [till EXCEPT ![c] = NotPaying]
  BY DEF Drop
<1>3. UNCHANGED <<profiles, received, stale>> /\ day' \in Nat /\ sweeping' \subseteq Installments
  BY DEF Drop, FeesInv, FeesTypes
<1> QED
  BY <1>1, <1>2, <1>3, TillSteps

\* The steps that touch neither tables nor tills.
LEMMA OthersKeep ==
    ASSUME FeesInv, UNCHANGED <<profiles, received, stale, till>>, day' \in Nat,
           sweeping' \subseteq Installments
    PROVE  FeesInv'
<1>1. /\ Profiles' = Profiles /\ Installments' = Installments
      /\ PlansHold' /\ TotalsBalance' /\ BookedWithinReceived' /\ PaymentsBooked'
  BY TablesAlone
<1>2. FeesTypes'
  BY <1>1 DEF FeesInv, FeesTypes
<1>3. TillKnows'
  BY <1>1 DEF FeesInv, TillKnows, Installment
<1> QED
  BY <1>1, <1>2, <1>3 DEF FeesInv

\* What the void and the sweep leave alone: every amount.
AmountsKept ==
    /\ Profiles' = Profiles
    /\ \A p \in Profiles :
          /\ profiles'[p].agreed = profiles[p].agreed /\ profiles'[p].paid = profiles[p].paid
          /\ profiles'[p].pending = profiles[p].pending
          /\ DOMAIN profiles'[p].plan = DOMAIN profiles[p].plan
          /\ \A n \in DOMAIN profiles[p].plan :
                /\ profiles'[p].plan[n].amount = profiles[p].plan[n].amount
                /\ profiles'[p].plan[n].paid = profiles[p].plan[n].paid

\* Profiles and plans of the same size have the same installments.
LEMMA SameInstallments ==
    ASSUME Profiles' = Profiles,
           \A p \in Profiles : DOMAIN profiles'[p].plan = DOMAIN profiles[p].plan
    PROVE  Installments' = Installments
<1>1. Installments' = UNION {{p} \X DOMAIN profiles'[p].plan : p \in Profiles}
  BY DEF Installments
<1>2. {{p} \X DOMAIN profiles'[p].plan : p \in Profiles} = {{p} \X DOMAIN profiles[p].plan : p \in Profiles}
  OBVIOUS
<1> QED
  BY <1>1, <1>2 DEF Installments

\* What only relates amounts survives a step that keeps them.
LEMMA AmountsHold ==
    ASSUME FeesInv, AmountsKept, UNCHANGED <<received, till>>
    PROVE  /\ Installments' = Installments
           /\ TillKnows' /\ TotalsBalance' /\ BookedWithinReceived'
           /\ \A i \in Installments : /\ Installment(i)'.amount = Installment(i).amount
                                      /\ Installment(i)'.paid = Installment(i).paid
           /\ \A p \in Profiles :
                 SumFunction([n \in DOMAIN profiles'[p].plan |-> profiles'[p].plan[n].amount])
                    = profiles'[p].agreed
<1>0. FeesTypes
  BY DEF FeesInv
<1>1. Installments' = Installments
  BY SameInstallments DEF AmountsKept
<1>2. ASSUME NEW i \in Installments
      PROVE  /\ profiles'[i[1]].plan[i[2]].amount = Installment(i).amount
             /\ profiles'[i[1]].plan[i[2]].paid = Installment(i).paid
             /\ profiles'[i[1]].agreed = profiles[i[1]].agreed
  <2>1. i[1] \in Profiles /\ i[2] \in DOMAIN profiles[i[1]].plan
    BY <1>0, InstallmentType
  <2> QED
    BY <2>1 DEF AmountsKept, Installment
<1>3. TillKnows'
  BY <1>1, <1>2 DEF FeesInv, TillKnows, Installment
<1>4. TotalsBalance'
  BY DEF FeesInv, TotalsBalance, AmountsKept
<1>5. BookedWithinReceived'
  BY <1>1, <1>2 DEF FeesInv, BookedWithinReceived, Installment
<1>6. ASSUME NEW p \in Profiles
      PROVE  SumFunction([n \in DOMAIN profiles'[p].plan |-> profiles'[p].plan[n].amount])
                = profiles'[p].agreed
  <2>1. [n \in DOMAIN profiles'[p].plan |-> profiles'[p].plan[n].amount]
          = [n \in DOMAIN profiles[p].plan |-> profiles[p].plan[n].amount]
    BY DEF AmountsKept
  <2>2. SumFunction([n \in DOMAIN profiles[p].plan |-> profiles[p].plan[n].amount]) = profiles[p].agreed
    BY DEF FeesInv, PlansHold
  <2> QED
    BY <2>1, <2>2 DEF AmountsKept
<1> QED
  BY <1>1, <1>2, <1>3, <1>4, <1>5, <1>6 DEF Installment

\* So do the books, if no status turned to PAID or back.
LEMMA AmountsBooked ==
    ASSUME FeesInv, AmountsKept, UNCHANGED <<received, till>>, ~ stale' => ~ stale,
           ~ stale' => \A i \in Installments : Installment(i)'.status = "PAID" <=> Installment(i).status = "PAID"
    PROVE  PaymentsBooked'
<1> SUFFICES ASSUME ~ stale'
             PROVE  /\ \A i \in Installments' :
                          /\ Installment(i)'.paid = received[i]
                          /\ Installment(i)'.status = "PAID"
                                <=> (Installment(i)'.paid = Installment(i)'.amount /\ received[i] > 0)
                    /\ \A p \in Profiles' : profiles'[p].paid
                          = SumFunction([n \in DOMAIN profiles'[p].plan |-> received[<<p, n>>]])
  BY DEF PaymentsBooked
<1>1. /\ Installments' = Installments
      /\ \A i \in Installments : /\ Installment(i)'.amount = Installment(i).amount
                                 /\ Installment(i)'.paid = Installment(i).paid
  BY AmountsHold
<1>2. \A i \in Installments : /\ Installment(i).paid = received[i]
                              /\ Installment(i).status = "PAID"
                                    <=> (Installment(i).paid = Installment(i).amount /\ received[i] > 0)
  BY DEF FeesInv, PaymentsBooked
<1>3. ASSUME NEW p \in Profiles
      PROVE  profiles'[p].paid = SumFunction([n \in DOMAIN profiles'[p].plan |-> received[<<p, n>>]])
  <2>1. profiles[p].paid = SumFunction([n \in DOMAIN profiles[p].plan |-> received[<<p, n>>]])
    BY DEF FeesInv, PaymentsBooked
  <2> QED
    BY <2>1 DEF AmountsKept
<1>4. Profiles' = Profiles
  BY DEF AmountsKept
<1> QED
  BY <1>1, <1>2, <1>3, <1>4

\* What is put in the place of every element of a sequence makes one.
LEMMA MapIsSeq ==
    ASSUME NEW S, NEW s \in Seq(S), NEW T, NEW t, t = [n \in DOMAIN s |-> t[n]],
           \A n \in DOMAIN s : t[n] \in T
    PROVE  t \in Seq(T)
<1> PICK k : k = Len(s)
  OBVIOUS
<1>1. DOMAIN s = 1 .. k /\ k \in Nat
  OBVIOUS
<1>2. t \in [1 .. k -> T]
  BY <1>1
<1> QED
  BY <1>1, <1>2, SeqDef

\* Voiding marks the profile and its installments.
LEMMA VoidKeeps ==
    ASSUME FeesInv, NEW p \in Profiles, Void(p)
    PROVE  FeesInv'
<1>0. FeesTypes
  BY DEF FeesInv
<1> PICK r : r = profiles[p]
  OBVIOUS
<1> PICK plan : plan = [n \in DOMAIN r.plan |-> [r.plan[n] EXCEPT !.deleted = TRUE]]
  OBVIOUS
<1> PICK v : v = [r EXCEPT !.deleted = TRUE, !.plan = plan]
  OBVIOUS
<1>1. r \in FeeProfile /\ r.plan \in Seq(FeeRow) /\ \A n \in DOMAIN r.plan : r.plan[n] \in FeeRow
  BY <1>0, ProfileIs DEF FeeProfile
<1>2. profiles' = [profiles EXCEPT ![p] = v]
  <2>1. profiles' = [profiles EXCEPT ![p].deleted = TRUE,
            ![p].plan = [n \in DOMAIN @ |-> [@[n] EXCEPT !.deleted = TRUE]]]
    BY DEF Void
  <2> QED
    BY <2>1, <1>1 DEF FeeProfile
<1>3. \A n \in DOMAIN r.plan : /\ plan[n] \in FeeRow /\ plan[n].deleted = TRUE
                               /\ plan[n].amount = r.plan[n].amount /\ plan[n].paid = r.plan[n].paid
                               /\ plan[n].status = r.plan[n].status
  BY <1>1 DEF FeeRow
<1>4. DOMAIN plan = DOMAIN r.plan /\ plan \in Seq(FeeRow)
  <2> PICK s : s = r.plan
    OBVIOUS
  <2>1. s \in Seq(FeeRow) /\ plan = [n \in DOMAIN s |-> plan[n]] /\ \A n \in DOMAIN s : plan[n] \in FeeRow
    BY <1>1, <1>3
  <2>2. plan \in Seq(FeeRow)
    BY <2>1, MapIsSeq
  <2> QED
    BY <2>2
<1>5. /\ v \in FeeProfile /\ v.deleted = TRUE /\ v.plan = plan /\ v.agreed = r.agreed /\ v.paid = r.paid
      /\ v.pending = r.pending
  BY <1>1, <1>4 DEF FeeProfile
<1>6. profiles \in Seq(FeeProfile)
  BY <1>0 DEF FeesTypes
<1>7. profiles' \in Seq(FeeProfile) /\ Profiles' = Profiles
  BY <1>2, <1>5, <1>6 DEF Profiles
<1>8. profiles'[p] = v /\ \A q \in Profiles : q # p => profiles'[q] = profiles[q]
  BY <1>2 DEF Profiles
<1>9. AmountsKept
  <2>1. ASSUME NEW q \in Profiles
        PROVE /\ profiles'[q].agreed = profiles[q].agreed /\ profiles'[q].paid = profiles[q].paid
              /\ profiles'[q].pending = profiles[q].pending
              /\ DOMAIN profiles'[q].plan = DOMAIN profiles[q].plan
              /\ \A n \in DOMAIN profiles[q].plan :
                    /\ profiles'[q].plan[n].amount = profiles[q].plan[n].amount
                    /\ profiles'[q].plan[n].paid = profiles[q].plan[n].paid
    <3>1. CASE q = p
      <4>1. profiles'[q].plan = plan /\ profiles[q].plan = r.plan
        BY <3>1, <1>5, <1>8
      <4>2. \A n \in DOMAIN profiles[q].plan :
                    /\ profiles'[q].plan[n].amount = profiles[q].plan[n].amount
                    /\ profiles'[q].plan[n].paid = profiles[q].plan[n].paid
        BY <4>1, <1>3
      <4>3. DOMAIN profiles'[q].plan = DOMAIN profiles[q].plan
        BY <4>1, <1>4
      <4> QED
        BY <3>1, <4>2, <4>3, <1>5, <1>8
    <3>2. CASE q # p
      BY <3>2, <1>8
    <3> QED
      BY <3>1, <3>2
  <2> QED
    BY <1>7, <2>1 DEF AmountsKept
<1>10. UNCHANGED <<received, till>> /\ stale' = stale /\ sweeping' = sweeping /\ day' = day
  BY DEF Void
<1>11. /\ Installments' = Installments
       /\ TillKnows' /\ TotalsBalance' /\ BookedWithinReceived'
       /\ \A q \in Profiles :
             SumFunction([n \in DOMAIN profiles'[q].plan |-> profiles'[q].plan[n].amount])
                = profiles'[q].agreed
  BY <1>9, <1>10, AmountsHold
<1>12. FeesTypes'
  BY <1>0, <1>7, <1>10, <1>11 DEF FeesTypes
<1>13. PlansHold'
  <2>1. ASSUME NEW q \in Profiles, NEW n \in DOMAIN profiles'[q].plan
        PROVE  profiles'[q].plan[n].deleted = profiles'[q].deleted
    <3>1. CASE q = p
      <4>1. profiles'[q].plan = plan /\ profiles'[q].deleted = TRUE
        BY <3>1, <1>5, <1>8
      <4>2. n \in DOMAIN r.plan
        BY <4>1, <1>4
      <4> QED
        BY <4>1, <4>2, <1>3
    <3>2. CASE q # p
      BY <3>2, <1>8 DEF FeesInv, PlansHold
    <3> QED
      BY <3>1, <3>2
  <2> QED
    BY <1>7, <1>11, <2>1 DEF PlansHold
<1>14. \A i \in Installments : Installment(i)'.status = "PAID" <=> Installment(i).status = "PAID"
  <2>1. ASSUME NEW i \in Installments PROVE Installment(i)'.status = Installment(i).status
    <3>1. i[1] \in Profiles /\ i[2] \in DOMAIN profiles[i[1]].plan
      BY <1>0, InstallmentType
    <3>2. CASE i[1] = p
      <4>1. Installment(i)' = plan[i[2]] /\ Installment(i) = r.plan[i[2]]
        BY <3>2, <1>5, <1>8 DEF Installment
      <4> QED
        BY <3>1, <3>2, <4>1, <1>3
    <3>3. CASE i[1] # p
      BY <3>1, <3>3, <1>8 DEF Installment
    <3> QED
      BY <3>2, <3>3
  <2> QED
    BY <2>1
<1>15. PaymentsBooked'
  BY <1>9, <1>10, <1>14, AmountsBooked
<1> QED
  BY <1>11, <1>12, <1>13, <1>15 DEF FeesInv

\* The sweep writes a status; of a row that is no longer pending only stale.
LEMMA MarkOverdueKeeps ==
    ASSUME FeesInv, MarkOverdue
    PROVE  FeesInv'
<1>0. FeesTypes
  BY DEF FeesInv
<1> DEFINE Swept(p) == [n \in DOMAIN profiles[p].plan |->
                IF <<p, n>> \in sweeping THEN [profiles[p].plan[n] EXCEPT !.status = "OVERDUE"]
                ELSE profiles[p].plan[n]]
           After(p) == [profiles[p] EXCEPT !.plan = Swept(p)]
<1>1. profiles' = [p \in Profiles |-> After(p)]
  BY DEF MarkOverdue
<1>2. ASSUME NEW p \in Profiles
      PROVE  /\ After(p) \in FeeProfile /\ After(p).agreed = profiles[p].agreed
             /\ After(p).paid = profiles[p].paid /\ After(p).pending = profiles[p].pending
             /\ After(p).deleted = profiles[p].deleted
             /\ DOMAIN After(p).plan = DOMAIN profiles[p].plan
             /\ \A n \in DOMAIN profiles[p].plan :
                   /\ After(p).plan[n].amount = profiles[p].plan[n].amount
                   /\ After(p).plan[n].paid = profiles[p].plan[n].paid
                   /\ After(p).plan[n].deleted = profiles[p].plan[n].deleted
                   /\ After(p).plan[n].status
                        = IF <<p, n>> \in sweeping THEN "OVERDUE" ELSE profiles[p].plan[n].status
  <2> PICK r, s : r = profiles[p] /\ s = Swept(p)
    OBVIOUS
  <2>1. r \in FeeProfile /\ r.plan \in Seq(FeeRow) /\ \A n \in DOMAIN r.plan : r.plan[n] \in FeeRow
    BY <1>0, ProfileIs DEF FeeProfile
  <2>2. DOMAIN s = DOMAIN r.plan
    OBVIOUS
  <2>3. ASSUME NEW n \in DOMAIN r.plan
        PROVE /\ s[n] \in FeeRow /\ s[n].amount = r.plan[n].amount /\ s[n].paid = r.plan[n].paid
              /\ s[n].deleted = r.plan[n].deleted
              /\ s[n].status = IF <<p, n>> \in sweeping THEN "OVERDUE" ELSE r.plan[n].status
    <3>1. s[n] = IF <<p, n>> \in sweeping THEN [r.plan[n] EXCEPT !.status = "OVERDUE"] ELSE r.plan[n]
      OBVIOUS
    <3> QED
      BY <2>1, <3>1 DEF FeeRow, Unpaid
  <2>4. s \in Seq(FeeRow)
    <3> PICK t : t = r.plan
      OBVIOUS
    <3>1. t \in Seq(FeeRow) /\ s = [n \in DOMAIN t |-> s[n]] /\ \A n \in DOMAIN t : s[n] \in FeeRow
      BY <2>1, <2>3
    <3> QED
      BY <3>1, MapIsSeq
  <2>5. After(p) = [r EXCEPT !.plan = s]
    OBVIOUS
  <2> HIDE DEF After
  <2>6. /\ After(p) \in FeeProfile /\ After(p).agreed = r.agreed
        /\ After(p).paid = r.paid /\ After(p).pending = r.pending
        /\ After(p).deleted = r.deleted /\ After(p).plan = s
    BY <2>1, <2>4, <2>5 DEF FeeProfile
  <2> QED
    BY <2>2, <2>3, <2>6
<1> HIDE DEF After
<1>3. Profiles' = Profiles /\ \A p \in Profiles : profiles'[p] = After(p)
  BY <1>1 DEF Profiles
<1>4. profiles' \in Seq(FeeProfile)
  <2>1. Profiles = 1 .. Len(profiles) /\ Len(profiles) \in Nat
    BY <1>0, ProfileIs
  <2>2. profiles' = [p \in 1 .. Len(profiles) |-> After(p)]
    BY <1>1, <2>1
  <2> QED
    BY <1>2, <2>1, <2>2
<1>5. AmountsKept
  BY <1>2, <1>3 DEF AmountsKept
<1>6. UNCHANGED <<received, till>> /\ sweeping' = {} /\ day' = day
  BY DEF MarkOverdue
<1>7. /\ Installments' = Installments
      /\ TillKnows' /\ TotalsBalance' /\ BookedWithinReceived'
      /\ \A q \in Profiles :
             SumFunction([n \in DOMAIN profiles'[q].plan |-> profiles'[q].plan[n].amount])
                = profiles'[q].agreed
  BY <1>5, <1>6, AmountsHold
<1>8. stale' \in BOOLEAN /\ (~ stale' => ~ stale)
  BY <1>0 DEF FeesTypes, MarkOverdue
<1>9. FeesTypes'
  BY <1>0, <1>4, <1>6, <1>7, <1>8 DEF FeesTypes
<1>10. PlansHold'
  <2>1. ASSUME NEW q \in Profiles, NEW n \in DOMAIN profiles'[q].plan
        PROVE  profiles'[q].plan[n].deleted = profiles'[q].deleted
    <3>1. /\ n \in DOMAIN profiles[q].plan /\ profiles'[q] = After(q)
          /\ After(q).plan[n].deleted = profiles[q].plan[n].deleted
          /\ After(q).deleted = profiles[q].deleted
      BY <1>2, <1>3
    <3>2. profiles[q].plan[n].deleted = profiles[q].deleted
      BY <3>1 DEF FeesInv, PlansHold
    <3> QED
      BY <3>1, <3>2
  <2> QED
    BY <1>3, <1>7, <2>1 DEF PlansHold
<1>11. ASSUME ~ stale', NEW i \in Installments
       PROVE  Installment(i)'.status = "PAID" <=> Installment(i).status = "PAID"
  <2>1. i[1] \in Profiles /\ i[2] \in DOMAIN profiles[i[1]].plan /\ i \in Nat \X Nat
    BY <1>0, InstallmentType
  <2>2. i = <<i[1], i[2]>>
    BY <2>1
  <2>3. i \in sweeping => Installment(i).status = "PENDING"
    BY <1>11 DEF MarkOverdue
  <2>4. Installment(i)'.status = IF i \in sweeping THEN "OVERDUE" ELSE Installment(i).status
    BY <2>1, <2>2, <1>2, <1>3 DEF Installment
  <2> QED
    BY <2>3, <2>4
<1>12. PaymentsBooked'
  BY <1>5, <1>6, <1>8, <1>11, AmountsBooked
<1> QED
  BY <1>7, <1>9, <1>10, <1>12 DEF FeesInv

\* What one payment writes.
Posted(c, p, n) ==
    /\ UNCHANGED <<sweeping, day>>
    /\ profiles' \in Seq(FeeProfile) /\ Profiles' = Profiles /\ Installments' = Installments
    /\ \A q \in Profiles : q # p => profiles'[q] = profiles[q]
    /\ profiles'[p].agreed = profiles[p].agreed /\ profiles'[p].deleted = profiles[p].deleted
    /\ profiles'[p].paid = till[c].paid + till[c].amount
    /\ profiles'[p].pending = till[c].pending - till[c].amount
    /\ DOMAIN profiles'[p].plan = DOMAIN profiles[p].plan
    /\ \A m \in DOMAIN profiles[p].plan : m # n => profiles'[p].plan[m] = profiles[p].plan[m]
    /\ profiles'[p].plan[n] = PaidRow(till[c], profiles[p].plan[n])
    /\ PaidRow(till[c], profiles[p].plan[n]) \in FeeRow
    /\ received' = [received EXCEPT ![<<p, n>>] = received[<<p, n>>] + till[c].amount]
    /\ till' = [till EXCEPT ![c] = NotPaying]

\* What a payment makes of the installment it was read for.
LEMMA PaidRowIs ==
    ASSUME NEW t \in Till, t.phase = "profile", NEW w \in FeeRow
    PROVE  /\ PaidRow(t, w) \in FeeRow
           /\ PaidRow(t, w).amount = w.amount /\ PaidRow(t, w).deleted = w.deleted
           /\ PaidRow(t, w).paid = t.row.paid + t.amount
           /\ PaidRow(t, w).status
                = LET status == IF t.row.paid + t.amount >= t.row.amount THEN "PAID" ELSE "PARTIAL"
                  IN  IF status = t.row.status THEN w.status ELSE status
<1>1. t.row \in FeeRow /\ t.amount \in Nat
  BY DEF Till, NotPaying
<1> PICK paid : paid = t.row.paid + t.amount
  OBVIOUS
<1>2. paid \in Nat
  BY <1>1 DEF FeeRow
<1> PICK status : status = IF t.row.paid + t.amount >= t.row.amount THEN "PAID" ELSE "PARTIAL"
  OBVIOUS
<1> PICK s : s = IF status = t.row.status THEN w.status ELSE status
  OBVIOUS
<1>3. s \in Unpaid \cup {"PAID"}
  BY DEF FeeRow, Unpaid
<1>4. PaidRow(t, w) = [w EXCEPT !.paid = paid, !.status = s]
  BY DEF PaidRow, FeeRow
<1> QED
  BY <1>2, <1>3, <1>4 DEF FeeRow

\* The payment is posted on the profile and the installment that were read.
LEMMA PostWrites ==
    ASSUME FeesInv, NEW c \in Clerk, Post(c)
    PROVE  \E p \in Profiles : \E n \in DOMAIN profiles[p].plan :
              till[c].of = <<p, n>> /\ <<p, n>> \in Installments /\ Posted(c, p, n)
<1>0. FeesTypes
  BY DEF FeesInv
<1> PICK t : t = till[c]
  OBVIOUS
<1>1. t # NotPaying /\ t.phase = "profile" /\ t \in Till
  BY <1>0 DEF Post, NotPaying, FeesTypes
<1>2. t.paid \in Nat /\ t.pending \in Int /\ t.amount \in Nat
  BY <1>0, <1>1, TillIs
<1>3. t.of \in Installments
  BY <1>1 DEF FeesInv, TillKnows
<1>4. PICK p \in Profiles : \E n \in DOMAIN profiles[p].plan : t.of = <<p, n>>
  BY <1>3, InstallmentIs
<1>5. PICK n \in DOMAIN profiles[p].plan : t.of = <<p, n>>
  BY <1>4
<1> PICK r, w : r = profiles[p] /\ w = profiles[p].plan[n]
  OBVIOUS
<1>6. r \in FeeProfile /\ w \in FeeRow /\ r.plan \in Seq(FeeRow)
  BY <1>0, ProfileIs DEF FeeProfile
<1> PICK x : x = PaidRow(t, w)
  OBVIOUS
<1>7. x \in FeeRow
  BY <1>1, <1>6, PaidRowIs
<1> PICK plan : plan = [r.plan EXCEPT ![n] = x]
  OBVIOUS
<1>8. /\ plan \in Seq(FeeRow) /\ DOMAIN plan = DOMAIN r.plan /\ plan[n] = x
      /\ \A m \in DOMAIN r.plan : m # n => plan[m] = r.plan[m]
  BY <1>6, <1>7
<1> PICK v : v = [r EXCEPT !.paid = t.paid + t.amount, !.pending = t.pending - t.amount, !.plan = plan]
  OBVIOUS
<1>9. t.paid + t.amount \in Nat /\ t.pending - t.amount \in Int
  BY <1>2
<1>10. /\ v \in FeeProfile /\ v.agreed = r.agreed /\ v.deleted = r.deleted
       /\ v.paid = t.paid + t.amount /\ v.pending = t.pending - t.amount /\ v.plan = plan
  BY <1>6, <1>8, <1>9 DEF FeeProfile
<1>11. profiles' = [profiles EXCEPT ![p] = v]
  <2>1. profiles' = [profiles EXCEPT ![p] = PaidProfile(t, r)]
    <3>1. profiles' = [profiles EXCEPT ![till[c].of[1]] = PaidProfile(till[c], @)]
      BY DEF Post
    <3>2. till[c] = t /\ t.of[1] = p
      BY <1>5
    <3> QED
      BY <3>1, <3>2
  <2> PICK y : y = PaidTotals(t, r)
    OBVIOUS
  <2>2. y = [r EXCEPT !.paid = t.paid + t.amount, !.pending = t.pending - t.amount]
    BY DEF PaidTotals
  <2>3. y \in FeeProfile /\ y.plan = r.plan
    BY <1>6, <1>9, <2>2 DEF FeeProfile
  <2>4. [y EXCEPT !.plan[n] = PaidRow(t, @)] = [y EXCEPT !.plan = plan]
    BY <2>3
  <2>5. v = [y EXCEPT !.plan = plan]
    BY <1>6, <2>2 DEF FeeProfile
  <2>6. PaidProfile(t, r) = v
    <3>1. PaidProfile(t, r) = [y EXCEPT !.plan[t.of[2]] = PaidRow(t, @)]
      BY DEF PaidProfile
    <3>2. t.of[2] = n
      BY <1>5
    <3> QED
      BY <2>4, <2>5, <3>1, <3>2
  <2> QED
    BY <2>1, <2>6
<1>12. profiles' \in Seq(FeeProfile) /\ Profiles' = Profiles
  <2>1. profiles \in Seq(FeeProfile)
    BY <1>0 DEF FeesTypes
  <2> QED
    BY <1>10, <1>11, <2>1 DEF Profiles
<1>13. profiles'[p] = v /\ \A q \in Profiles : q # p => profiles'[q] = profiles[q]
  BY <1>11 DEF Profiles
<1>14. Installments' = Installments
  <2>1. \A q \in Profiles : DOMAIN profiles'[q].plan = DOMAIN profiles[q].plan
    <3>1. ASSUME NEW q \in Profiles PROVE DOMAIN profiles'[q].plan = DOMAIN profiles[q].plan
      <4>1. CASE q = p
        BY <4>1, <1>8, <1>10, <1>13
      <4>2. CASE q # p
        BY <4>2, <1>13
      <4> QED
        BY <4>1, <4>2
    <3> QED
      BY <3>1
  <2> QED
    BY <1>12, <2>1, SameInstallments
<1>15. /\ received' = [received EXCEPT ![<<p, n>>] = received[<<p, n>>] + till[c].amount]
       /\ till' = [till EXCEPT ![c] = NotPaying] /\ UNCHANGED <<sweeping, day>>
  BY <1>5 DEF Post
<1>16. Posted(c, p, n)
  BY <1>7, <1>8, <1>10, <1>12, <1>13, <1>14, <1>15 DEF Posted
<1> QED
  BY <1>3, <1>5, <1>16

\* Posting: the booked amount is that of the row read and so within its amount and
\* the receipts, whatever was written since; and if nothing was, installment,
\* profile and receipts grow by the same amount.
LEMMA PostKeeps ==
    ASSUME FeesInv, NEW c \in Clerk, Post(c)
    PROVE  FeesInv'
<1>0. FeesTypes
  BY DEF FeesInv
<1>1. PICK p \in Profiles : \E n \in DOMAIN profiles[p].plan :
              till[c].of = <<p, n>> /\ <<p, n>> \in Installments /\ Posted(c, p, n)
  BY PostWrites
<1>2. PICK n \in DOMAIN profiles[p].plan :
              till[c].of = <<p, n>> /\ <<p, n>> \in Installments /\ Posted(c, p, n)
  BY <1>1
<1> PICK t, r, w, x, j : /\ t = till[c] /\ r = profiles[p] /\ w = profiles[p].plan[n]
                         /\ x = PaidRow(till[c], profiles[p].plan[n]) /\ j = <<p, n>>
  OBVIOUS
<1>3. t \in Till /\ t # NotPaying /\ t.phase = "profile" /\ t.of = j /\ j \in Installments
  BY <1>0, <1>2 DEF Post, NotPaying, FeesTypes
<1>4. t.paid \in Nat /\ t.pending \in Int /\ t.amount \in Nat /\ t.row \in FeeRow
  BY <1>0, <1>3, TillIs
<1>5. r \in FeeProfile /\ w \in FeeRow /\ Installment(j) = w /\ received[j] \in Nat
  BY <1>0, <1>3, ProfileIs, InstallmentType DEF Installment
<1>6. /\ x \in FeeRow /\ x.amount = w.amount /\ x.deleted = w.deleted /\ x.paid = t.row.paid + t.amount
      /\ x.status = LET status == IF t.row.paid + t.amount >= t.row.amount THEN "PAID" ELSE "PARTIAL"
                    IN  IF status = t.row.status THEN w.status ELSE status
  BY <1>3, <1>5, PaidRowIs
<1>7. /\ t.amount > 0 /\ t.row.paid + t.amount <= t.row.amount /\ t.row.amount = w.amount
      /\ t.row.paid <= received[j] /\ t.paid + t.pending = r.agreed
  BY <1>3, <1>5 DEF FeesInv, TillKnows
<1>8. /\ Profiles' = Profiles /\ Installments' = Installments /\ profiles' \in Seq(FeeProfile)
      /\ \A q \in Profiles : q # p => profiles'[q] = profiles[q]
      /\ profiles'[p].agreed = r.agreed /\ profiles'[p].deleted = r.deleted
      /\ profiles'[p].paid = t.paid + t.amount /\ profiles'[p].pending = t.pending - t.amount
      /\ DOMAIN profiles'[p].plan = DOMAIN r.plan
      /\ \A m \in DOMAIN r.plan : m # n => profiles'[p].plan[m] = r.plan[m]
      /\ profiles'[p].plan[n] = x
      /\ UNCHANGED <<sweeping, day>>
  BY <1>2 DEF Posted
<1>9. received' = [received EXCEPT ![j] = received[j] + t.amount] /\ till' = [till EXCEPT ![c] = NotPaying]
  BY <1>2 DEF Posted
<1>10. received \in [Installments -> Nat] /\ till \in [Clerk -> Till]
  BY <1>0 DEF FeesTypes
<1>11. /\ received' \in [Installments -> Nat] /\ received'[j] = received[j] + t.amount
       /\ \A i \in Installments : i # j => received'[i] = received[i]
  <2>1. received[j] + t.amount \in Nat
    BY <1>4, <1>5
  <2> QED
    BY <1>3, <1>9, <1>10, <2>1
<1>12. till' \in [Clerk -> Till] /\ till'[c] = NotPaying /\ \A d \in Clerk : d # c => till'[d] = till[d]
  <2>1. NotPaying \in Till
    BY DEF Till
  <2> QED
    BY <1>9, <1>10, <2>1
<1>13. stale' \in BOOLEAN /\ (~ stale' => ~ stale /\ t.row = w /\ t.paid = r.paid)
  <2>1. stale' = (stale \/ t.row # Installment(t.of) \/ t.paid # profiles[t.of[1]].paid)
    BY DEF Post
  <2>2. t.of[1] = p /\ Installment(t.of) = w
    BY <1>3, <1>5
  <2>3. stale' = (stale \/ t.row # w \/ t.paid # r.paid)
    BY <2>1, <2>2
  <2>4. stale \in BOOLEAN
    BY <1>0 DEF FeesTypes
  <2> QED
    BY <2>3, <2>4
<1>14. FeesTypes'
  BY <1>0, <1>8, <1>11, <1>12, <1>13 DEF FeesTypes
\* The other installments are as they were.
<1>15. Installment(j)' = x /\ \A i \in Installments : i # j => Installment(i)' = Installment(i)
  <2>1. ASSUME NEW i \in Installments, i # j PROVE Installment(i)' = Installment(i)
    <3>1. i[1] \in Profiles /\ i[2] \in DOMAIN profiles[i[1]].plan /\ i = <<i[1], i[2]>>
      BY <1>0, InstallmentType
    <3>2. CASE i[1] = p
      BY <2>1, <3>1, <3>2, <1>8 DEF Installment
    <3>3. CASE i[1] # p
      BY <3>1, <3>3, <1>8 DEF Installment
    <3> QED
      BY <3>2, <3>3
  <2>2. Installment(j)' = x
    BY <1>8 DEF Installment
  <2> QED
    BY <2>1, <2>2
<1>16. \A i \in Installments : Installment(i)'.amount = Installment(i).amount
  BY <1>5, <1>6, <1>15
<1>17. PlansHold'
  <2>1. ASSUME NEW q \in Profiles
        PROVE  /\ \A m \in DOMAIN profiles'[q].plan : profiles'[q].plan[m].deleted = profiles'[q].deleted
               /\ SumFunction([m \in DOMAIN profiles'[q].plan |-> profiles'[q].plan[m].amount])
                    = profiles'[q].agreed
    <3>1. /\ \A m \in DOMAIN profiles[q].plan : profiles[q].plan[m].deleted = profiles[q].deleted
          /\ SumFunction([m \in DOMAIN profiles[q].plan |-> profiles[q].plan[m].amount])
                    = profiles[q].agreed
      BY DEF FeesInv, PlansHold
    <3>2. CASE q # p
      BY <3>1, <3>2, <1>8
    <3>3. CASE q = p
      <4>1. DOMAIN profiles'[q].plan = DOMAIN profiles[q].plan
        BY <3>3, <1>8
      <4>2. \A m \in DOMAIN profiles[q].plan :
               /\ profiles'[q].plan[m].amount = profiles[q].plan[m].amount
               /\ profiles'[q].plan[m].deleted = profiles[q].plan[m].deleted
        BY <3>3, <1>6, <1>8
      <4>3. [m \in DOMAIN profiles'[q].plan |-> profiles'[q].plan[m].amount]
               = [m \in DOMAIN profiles[q].plan |-> profiles[q].plan[m].amount]
        BY <4>1, <4>2
      <4>4. profiles'[q].agreed = profiles[q].agreed /\ profiles'[q].deleted = profiles[q].deleted
        BY <3>3, <1>8
      <4> QED
        BY <3>1, <4>1, <4>2, <4>3, <4>4
    <3> QED
      BY <3>2, <3>3
  <2> QED
    BY <2>1, <1>8 DEF PlansHold
<1>18. TillKnows'
  <2>1. ASSUME NEW d \in Clerk, till'[d] # NotPaying
        PROVE  /\ till'[d].of \in Installments
               /\ till'[d].amount > 0 /\ till'[d].row.paid + till'[d].amount <= till'[d].row.amount
               /\ till'[d].row.amount = profiles'[till'[d].of[1]].plan[till'[d].of[2]].amount
               /\ till'[d].row.paid <= received'[till'[d].of]
               /\ till'[d].phase = "profile"
                     => till'[d].paid + till'[d].pending = profiles'[till'[d].of[1]].agreed
    <3> PICK u, i : u = till[d] /\ i = till[d].of
      OBVIOUS
    <3>1. d # c /\ till'[d] = u /\ u # NotPaying
      BY <2>1, <1>12
    <3>2. /\ i \in Installments
          /\ u.amount > 0 /\ u.row.paid + u.amount <= u.row.amount
          /\ u.row.amount = Installment(i).amount
          /\ u.row.paid <= received[i]
          /\ u.phase = "profile" => u.paid + u.pending = profiles[i[1]].agreed
      BY <3>1 DEF FeesInv, TillKnows
    <3>3. u.row \in FeeRow /\ u.row.paid \in Nat
      BY <3>1, <1>0, TillIs DEF FeeRow
    <3>4. u.row.paid <= received'[i]
      BY <3>2, <3>3, <1>4, <1>5, <1>11
    <3>5. profiles'[i[1]].plan[i[2]].amount = Installment(i).amount
      BY <3>2, <1>16 DEF Installment
    <3>6. profiles'[i[1]].agreed = profiles[i[1]].agreed
      <4>1. i[1] \in Profiles
        BY <3>2, <1>0, InstallmentType
      <4> QED
        BY <4>1, <1>8
    <3> QED
      BY <3>1, <3>2, <3>4, <3>5, <3>6
  <2> QED
    BY <2>1, <1>8 DEF TillKnows, Installment
<1>19. TotalsBalance'
  <2>1. ASSUME NEW q \in Profiles PROVE profiles'[q].paid + profiles'[q].pending = profiles'[q].agreed
    <3>1. CASE q # p
      BY <3>1, <1>8 DEF FeesInv, TotalsBalance
    <3>2. CASE q = p
      <4>1. (t.paid + t.amount) + (t.pending - t.amount) = t.paid + t.pending
        BY <1>4
      <4> QED
        BY <3>2, <4>1, <1>7, <1>8
    <3> QED
      BY <3>1, <3>2
  <2> QED
    BY <2>1, <1>8 DEF TotalsBalance
<1>20. BookedWithinReceived'
  <2>1. ASSUME NEW i \in Installments
        PROVE  Installment(i)'.paid <= Installment(i)'.amount /\ Installment(i)'.paid <= received'[i]
    <3>1. CASE i # j
      BY <3>1, <1>11, <1>15 DEF FeesInv, BookedWithinReceived
    <3>2. CASE i = j
      <4>1. t.row.paid \in Nat
        BY <1>4 DEF FeeRow
      <4>2. t.row.paid + t.amount <= received[j] + t.amount
        BY <4>1, <1>4, <1>5, <1>7
      <4> QED
        BY <3>2, <4>2, <1>6, <1>7, <1>11, <1>15
    <3> QED
      BY <3>1, <3>2
  <2> QED
    BY <2>1, <1>8 DEF BookedWithinReceived, Installment
<1>21. ASSUME ~ stale', NEW i \in Installments
       PROVE  /\ Installment(i)'.paid = received'[i]
              /\ Installment(i)'.status = "PAID"
                    <=> (Installment(i)'.paid = Installment(i)'.amount /\ received'[i] > 0)
  <2>1. /\ Installment(i).paid = received[i]
        /\ Installment(i).status = "PAID"
              <=> (Installment(i).paid = Installment(i).amount /\ received[i] > 0)
    BY <1>13, <1>21 DEF FeesInv, PaymentsBooked
  <2>2. CASE i # j
    BY <2>1, <2>2, <1>11, <1>15
  <2>3. CASE i = j
    <3>1. t.row = w /\ w.paid = received[j]
      BY <1>5, <1>13, <1>21, <2>1, <2>3
    <3>2. x.paid = received'[j]
      BY <3>1, <1>6, <1>11
    <3>3. /\ received'[j] > 0
          /\ (received[j] + t.amount >= w.amount) <=> (x.paid = w.amount)
      <4>1. w.amount \in Nat
        BY <1>5 DEF FeeRow
      <4> QED
        BY <3>1, <3>2, <4>1, <1>4, <1>5, <1>7, <1>11
    <3>4. x.status = "PAID" <=> x.paid = w.amount
      <4>1. x.status = IF received[j] + t.amount >= w.amount THEN "PAID" ELSE "PARTIAL"
        BY <3>1, <1>6
      <4> QED
        BY <3>3, <4>1
    <3> QED
      BY <2>3, <3>2, <3>3, <3>4, <1>6, <1>15
  <2> QED
    BY <2>2, <2>3
<1>22. ASSUME ~ stale', NEW q \in Profiles
       PROVE  profiles'[q].paid = SumFunction([m \in DOMAIN profiles'[q].plan |-> received'[<<q, m>>]])
  <2> PICK D, g, h : /\ D = DOMAIN profiles[q].plan
                     /\ g = [m \in D |-> received[<<q, m>>]]
                     /\ h = [m \in D |-> received'[<<q, m>>]]
    OBVIOUS
  <2>1. profiles[q].paid = SumFunction(g)
    BY <1>13, <1>22 DEF FeesInv, PaymentsBooked
  <2>2. DOMAIN profiles'[q].plan = D
    BY <1>8
  <2>3. \A m \in D : <<q, m>> \in Installments
    BY InstallmentIs
  <2>4. CASE q # p
    <3>1. g = h
      BY <2>3, <2>4, <1>11
    <3> QED
      BY <2>1, <2>2, <2>4, <3>1, <1>8
  <2>5. CASE q = p
    <3>1. IsFiniteSet(D) /\ DOMAIN g = D /\ DOMAIN h = D
      BY <1>0, TablesFinite
    <3>2. /\ \A m \in D : g[m] \in Int
          /\ h[n] = g[n] + t.amount /\ n \in D
          /\ \A m \in D : m # n => h[m] = g[m]
      <4>1. \A m \in D : received[<<q, m>>] \in Nat
        BY <2>3, <1>10
      <4>2. n \in D /\ <<q, n>> = j
        BY <2>5
      <4>3. h[n] = g[n] + t.amount
        BY <4>2, <1>11
      <4>4. \A m \in D : m # n => h[m] = g[m]
        BY <2>3, <2>5, <1>11
      <4> QED
        BY <4>1, <4>2, <4>3, <4>4
    <3>3. t.amount \in Int
      BY <1>4
    <3>4. Total(h, D) = Total(g, D) + t.amount
      BY ONLY <3>1, <3>2, <3>3, TotalChange
    <3>5. SumFunction(g) = Total(g, D) /\ SumFunction(h) = Total(h, D)
      BY <3>1, SumOfAll
    <3>6. profiles'[q].paid = profiles[q].paid + t.amount
      BY <2>5, <1>8, <1>13, <1>22
    <3> QED
      BY <2>1, <2>2, <3>4, <3>5, <3>6
  <2> QED
    BY <2>4, <2>5
<1>23. PaymentsBooked'
  BY <1>8, <1>21, <1>22 DEF PaymentsBooked, Installment
<1> QED
  BY <1>14, <1>17, <1>18, <1>19, <1>20, <1>23 DEF FeesInv

\* A plan that may be booked: what is paid of a row is paid up front.
NewPlan(plan) ==
    /\ plan \in Seq(FeeRow)
    /\ SumFunction([n \in DOMAIN plan |-> plan[n].paid]) \in Nat
    /\ \A n \in DOMAIN plan :
          /\ plan[n].deleted = FALSE /\ plan[n].paid <= plan[n].amount
          /\ plan[n].status = "PAID" <=> (plan[n].paid = plan[n].amount /\ plan[n].paid > 0)

\* A plan of pending installments has nothing paid.
LEMMA ScheduledIsNew ==
    ASSUME FeesTypes, NEW amounts \in Seq(Nat)
    PROVE  NewPlan(Scheduled(amounts))
<1> PICK plan : plan = Scheduled(amounts)
  OBVIOUS
<1>1. DOMAIN plan = DOMAIN amounts /\ plan = [n \in DOMAIN amounts |-> plan[n]]
  BY DEF Scheduled
<1>2. ASSUME NEW n \in DOMAIN amounts
      PROVE  /\ plan[n] \in FeeRow /\ plan[n].paid = 0 /\ plan[n].status = "PENDING"
             /\ plan[n].deleted = FALSE /\ plan[n].amount \in Nat
  <2>1. amounts[n] \in Nat /\ n \in Nat /\ day \in Nat /\ Interval \in Nat
    BY FeesAssumption DEF FeesTypes
  <2> PICK due : due = DueDate(day, n)
    OBVIOUS
  <2>2. due \in Int
    BY <2>1 DEF DueDate
  <2>3. plan[n] = [amount |-> amounts[n], due |-> due, status |-> "PENDING", paid |-> 0, deleted |-> FALSE]
    BY DEF Scheduled, InstallmentRow
  <2> QED
    BY <2>1, <2>2, <2>3 DEF FeeRow, Unpaid
<1>3. plan \in Seq(FeeRow)
  BY <1>1, <1>2, MapIsSeq
<1>4. SumFunction([n \in DOMAIN plan |-> plan[n].paid]) = 0
  <2> PICK f : f = [n \in DOMAIN plan |-> plan[n].paid]
    OBVIOUS
  <2>1. DOMAIN f = DOMAIN amounts /\ \A n \in DOMAIN amounts : f[n] = 0
    BY <1>1, <1>2
  <2>2. IsFiniteSet(DOMAIN amounts)
    <3>1. DOMAIN amounts = 1 .. Len(amounts) /\ Len(amounts) \in Nat
      OBVIOUS
    <3> QED
      BY <3>1, FS_Interval
  <2>3. Total(f, DOMAIN amounts) = 0
    BY <2>1, <2>2, TotalOfZeros
  <2> QED
    BY <2>1, <2>3, SumOfAll
<1>5. ASSUME NEW n \in DOMAIN plan
      PROVE  /\ plan[n].deleted = FALSE /\ plan[n].paid <= plan[n].amount
             /\ plan[n].status = "PAID" <=> (plan[n].paid = plan[n].amount /\ plan[n].paid > 0)
  <2> PICK x : x = plan[n]
    OBVIOUS
  <2>1. x.paid = 0 /\ x.status = "PENDING" /\ x.amount \in Nat
    BY <1>1, <1>2
  <2>2. x.paid <= x.amount /\ ~ (x.paid > 0)
    BY <2>1
  <2>3. x.deleted = FALSE
    BY <1>1, <1>2
  <2> QED
    BY <2>1, <2>2, <2>3
<1>6. SumFunction([n \in DOMAIN plan |-> plan[n].paid]) \in Nat
  BY <1>4
<1>7. NewPlan(plan)
  BY <1>3, <1>5, <1>6, Zenon DEF NewPlan
<1> QED
  BY <1>7

\* A plan paid at once is one installment, paid.
LEMMA OneTimeIsNew ==
    ASSUME FeesTypes, NEW fee \in Nat, fee > 0
    PROVE  NewPlan(OneTime(fee))
<1> PICK row, plan : row = InstallmentRow(fee, day, "PAID", fee) /\ plan = <<row>>
  OBVIOUS
<1>1. row \in FeeRow /\ row.paid = fee /\ row.amount = fee /\ row.status = "PAID" /\ row.deleted = FALSE
  BY DEF FeesTypes, InstallmentRow, FeeRow
<1>2. plan \in Seq(FeeRow) /\ DOMAIN plan = {1} /\ plan[1] = row
  BY <1>1
<1>3. SumFunction([n \in DOMAIN plan |-> plan[n].paid]) = fee
  <2> PICK f : f = [n \in DOMAIN plan |-> plan[n].paid]
    OBVIOUS
  <2>1. DOMAIN f = {1} /\ f[1] = fee
    BY <1>1, <1>2
  <2>2. Total(f, {1}) = f[1]
    BY <2>1, TotalOfOne
  <2> QED
    BY <2>1, <2>2, SumOfAll
<1>4. NewPlan(plan)
  BY <1>1, <1>2, <1>3 DEF NewPlan
<1> QED
  BY <1>4 DEF OneTime

\* A new profile adds rows that agree with one another to tables that do.
LEMMA CreateKeeps ==
    ASSUME FeesInv, NEW s \in Student, NEW fee \in Int, NEW plan, NewPlan(plan),
           CreateProfile(s, fee, plan)
    PROVE  FeesInv'
<1>0. FeesTypes
  BY DEF FeesInv
<1> PICK k, D, paid : /\ k = Len(profiles) + 1 /\ D = DOMAIN plan
                      /\ paid = SumFunction([n \in DOMAIN plan |-> plan[n].paid])
  OBVIOUS
<1> PICK r : r = [student |-> s, agreed |-> fee, paid |-> paid, pending |-> fee - paid,
                  plan |-> plan, deleted |-> FALSE]
  OBVIOUS
<1>1. /\ plan \in Seq(FeeRow) /\ paid \in Nat
      /\ \A n \in D : /\ plan[n] \in FeeRow /\ plan[n].deleted = FALSE /\ plan[n].paid <= plan[n].amount
                      /\ plan[n].status = "PAID" <=> (plan[n].paid = plan[n].amount /\ plan[n].paid > 0)
  BY DEF NewPlan
<1>2. /\ fee > 0 /\ SumFunction([n \in D |-> plan[n].amount]) = fee
      /\ profiles' = Append(profiles, r)
      /\ received' = [i \in (DOMAIN received) \cup ({k} \X D) |->
                            IF i \in DOMAIN received THEN received[i] ELSE plan[i[2]].paid]
      /\ UNCHANGED <<promise, till, sweeping, day, stale>>
  BY DEF CreateProfile
<1>3. r \in FeeProfile
  BY <1>1, <1>2 DEF FeeProfile
<1>4. profiles \in Seq(FeeProfile) /\ received \in [Installments -> Nat] /\ Profiles = 1 .. Len(profiles)
  BY <1>0, ProfileIs DEF FeesTypes
<1>5. /\ profiles' \in Seq(FeeProfile) /\ Profiles' = Profiles \cup {k} /\ k \notin Profiles
      /\ profiles'[k] = r /\ \A p \in Profiles : profiles'[p] = profiles[p]
  BY <1>2, <1>3, <1>4 DEF Profiles
<1>6. Installments' = Installments \cup ({k} \X D)
  <2>1. Installments' = UNION {{p} \X DOMAIN profiles'[p].plan : p \in Profiles'}
    BY DEF Installments
  <2>2. \A i : i \in Installments' <=> \E p \in Profiles' : i \in {p} \X DOMAIN profiles'[p].plan
    BY <2>1
  <2>3. \A i : i \in Installments <=> \E p \in Profiles : i \in {p} \X DOMAIN profiles[p].plan
    BY DEF Installments
  <2>4. \A i : i \in Installments' <=> i \in Installments \/ i \in {k} \X D
    <3>1. profiles'[k].plan = plan
      BY <1>5
    <3> QED
      BY <2>2, <2>3, <3>1, <1>5
  <2> QED
    BY <2>4
<1>7. \A i \in Installments : i[1] \in Profiles /\ i[2] \in DOMAIN profiles[i[1]].plan /\ Installment(i) \in FeeRow
  BY <1>0, InstallmentType
<1>8. ASSUME NEW i \in {k} \X D
      PROVE  i \notin Installments /\ i[1] = k /\ i[2] \in D /\ i = <<k, i[2]>>
  BY <1>5, <1>7
<1>9. /\ \A i \in Installments : received'[i] = received[i]
      /\ \A i \in {k} \X D : received'[i] = plan[i[2]].paid
      /\ received' \in [Installments' -> Nat]
  <2>1. DOMAIN received = Installments
    BY <1>4
  <2>2. received' = [i \in Installments' |-> IF i \in Installments THEN received[i] ELSE plan[i[2]].paid]
    BY <1>2, <1>6, <2>1
  <2>3. \A i \in Installments : received'[i] = received[i] /\ received[i] \in Nat
    BY <1>4, <1>6, <2>2
  <2>4. ASSUME NEW i \in {k} \X D PROVE received'[i] = plan[i[2]].paid /\ plan[i[2]].paid \in Nat
    BY <1>1, <1>6, <1>8, <2>2 DEF FeeRow
  <2>5. \A i \in Installments' : received'[i] \in Nat
    BY <1>6, <2>3, <2>4
  <2> QED
    BY <2>2, <2>3, <2>4, <2>5
<1>10. /\ \A i \in Installments : Installment(i)' = Installment(i)
       /\ \A i \in {k} \X D : Installment(i)' = plan[i[2]]
  BY <1>5, <1>7, <1>8 DEF Installment
<1>11. FeesTypes'
  BY <1>0, <1>2, <1>5, <1>6, <1>9 DEF FeesTypes
<1>12. PlansHold'
  <2>1. ASSUME NEW p \in Profiles'
        PROVE  /\ \A n \in DOMAIN profiles'[p].plan : profiles'[p].plan[n].deleted = profiles'[p].deleted
               /\ SumFunction([n \in DOMAIN profiles'[p].plan |-> profiles'[p].plan[n].amount])
                    = profiles'[p].agreed
    <3>1. CASE p \in Profiles
      BY <3>1, <1>5 DEF FeesInv, PlansHold
    <3>2. CASE p = k
      <4>1. profiles'[p] = r /\ r.plan = plan /\ r.deleted = FALSE /\ r.agreed = fee
        BY <3>2, <1>5
      <4> QED
        BY <4>1, <1>1, <1>2
    <3> QED
      BY <3>1, <3>2, <1>5
  <2> QED
    BY <2>1 DEF PlansHold
<1>13. TillKnows'
  <2>1. ASSUME NEW d \in Clerk, till'[d] # NotPaying
        PROVE  /\ till'[d].of \in Installments'
               /\ till'[d].amount > 0 /\ till'[d].row.paid + till'[d].amount <= till'[d].row.amount
               /\ till'[d].row.amount = profiles'[till'[d].of[1]].plan[till'[d].of[2]].amount
               /\ till'[d].row.paid <= received'[till'[d].of]
               /\ till'[d].phase = "profile"
                     => till'[d].paid + till'[d].pending = profiles'[till'[d].of[1]].agreed
    <3> PICK u, i : u = till[d] /\ i = till[d].of
      OBVIOUS
    <3>1. till'[d] = u /\ u # NotPaying
      BY <2>1, <1>2
    <3>2. /\ i \in Installments
          /\ u.amount > 0 /\ u.row.paid + u.amount <= u.row.amount
          /\ u.row.amount = Installment(i).amount
          /\ u.row.paid <= received[i]
          /\ u.phase = "profile" => u.paid + u.pending = profiles[i[1]].agreed
      BY <3>1 DEF FeesInv, TillKnows
    <3>3. profiles'[i[1]] = profiles[i[1]] /\ received'[i] = received[i] /\ i \in Installments'
      BY <3>2, <1>5, <1>6, <1>7, <1>9
    <3> QED
      BY <3>1, <3>2, <3>3 DEF Installment
  <2> QED
    BY <2>1 DEF TillKnows, Installment
<1>14. TotalsBalance'
  <2>1. ASSUME NEW p \in Profiles' PROVE profiles'[p].paid + profiles'[p].pending = profiles'[p].agreed
    <3>1. CASE p \in Profiles
      BY <3>1, <1>5 DEF FeesInv, TotalsBalance
    <3>2. CASE p = k
      <4>1. profiles'[p].paid = paid /\ profiles'[p].pending = fee - paid /\ profiles'[p].agreed = fee
        BY <3>2, <1>5
      <4> QED
        BY <4>1, <1>1
    <3> QED
      BY <3>1, <3>2, <1>5
  <2> QED
    BY <2>1 DEF TotalsBalance
<1>15. BookedWithinReceived'
  <2>1. ASSUME NEW i \in Installments'
        PROVE  Installment(i)'.paid <= Installment(i)'.amount /\ Installment(i)'.paid <= received'[i]
    <3>1. CASE i \in Installments
      BY <3>1, <1>9, <1>10 DEF FeesInv, BookedWithinReceived
    <3>2. CASE i \in {k} \X D
      <4> PICK x : x = plan[i[2]]
        OBVIOUS
      <4>1. x \in FeeRow /\ x.paid <= x.amount /\ x.paid \in Nat
        BY <3>2, <1>1, <1>8 DEF FeeRow
      <4> QED
        BY <3>2, <4>1, <1>9, <1>10
    <3> QED
      BY <3>1, <3>2, <1>6
  <2> QED
    BY <2>1 DEF BookedWithinReceived, Installment
<1>16. ASSUME ~ stale', NEW i \in Installments'
       PROVE  /\ Installment(i)'.paid = received'[i]
              /\ Installment(i)'.status = "PAID"
                    <=> (Installment(i)'.paid = Installment(i)'.amount /\ received'[i] > 0)
  <2>1. CASE i \in Installments
    BY <2>1, <1>2, <1>9, <1>10, <1>16 DEF FeesInv, PaymentsBooked
  <2>2. CASE i \in {k} \X D
    BY <2>2, <1>1, <1>8, <1>9, <1>10
  <2> QED
    BY <2>1, <2>2, <1>6
<1>17. ASSUME ~ stale', NEW p \in Profiles'
       PROVE  profiles'[p].paid = SumFunction([n \in DOMAIN profiles'[p].plan |-> received'[<<p, n>>]])
  <2>1. CASE p \in Profiles
    <3>1. profiles[p].paid = SumFunction([n \in DOMAIN profiles[p].plan |-> received[<<p, n>>]])
      BY <2>1, <1>2, <1>17 DEF FeesInv, PaymentsBooked
    <3>2. [n \in DOMAIN profiles[p].plan |-> received[<<p, n>>]]
            = [n \in DOMAIN profiles'[p].plan |-> received'[<<p, n>>]]
      <4>1. \A n \in DOMAIN profiles[p].plan : <<p, n>> \in Installments
        BY <2>1, InstallmentIs
      <4> QED
        BY <2>1, <4>1, <1>5, <1>9
    <3> QED
      BY <2>1, <3>1, <3>2, <1>5
  <2>2. CASE p = k
    <3>1. profiles'[p].plan = plan /\ profiles'[p].paid = paid
      BY <2>2, <1>5
    <3>2. [n \in DOMAIN profiles'[p].plan |-> received'[<<p, n>>]] = [n \in DOMAIN plan |-> plan[n].paid]
      <4>1. \A n \in D : received'[<<k, n>>] = plan[n].paid
        BY <1>9
      <4> QED
        BY <2>2, <3>1, <4>1
    <3> QED
      BY <3>1, <3>2
  <2> QED
    BY <2>1, <2>2, <1>5
<1>18. PaymentsBooked'
  BY <1>16, <1>17 DEF PaymentsBooked, Installment
<1> QED
  BY <1>11, <1>12, <1>13, <1>14, <1>15, <1>18 DEF FeesInv

\* All plans that are created are such.
LEMMA CreateAnyKeeps ==
    ASSUME FeesInv, NEW s \in Student, CreateAny(s)
    PROVE  FeesInv'
<1>0. FeesTypes
  BY DEF FeesInv
<1>1. ASSUME NEW amounts \in Plans PROVE SumFunction(amounts) \in Int /\ amounts \in Seq(Nat)
  <2>1. amounts \in Seq(Nat)
    BY FeesAssumption
  <2> PICK a, D : a = amounts /\ D = DOMAIN amounts
    OBVIOUS
  <2>2. D = 1 .. Len(a) /\ Len(a) \in Nat /\ \A n \in D : a[n] \in Int
    BY <2>1
  <2>3. IsFiniteSet(D)
    BY <2>2, FS_Interval
  <2>4. Total(a, D) \in Int
    BY <2>2, <2>3, TotalIsInt
  <2> QED
    BY <2>1, <2>4, SumOfAll
<1>2. ASSUME NEW amounts \in Plans, CreateProfile(s, SumFunction(amounts), Scheduled(amounts))
      PROVE  FeesInv'
  <2>1. NewPlan(Scheduled(amounts))
    BY <1>0, <1>1, ScheduledIsNew
  <2> QED
    BY <1>1, <1>2, <2>1, CreateKeeps
<1>3. ASSUME NEW amounts \in Plans, CreateProfile(s, SumFunction(amounts), OneTime(SumFunction(amounts)))
      PROVE  FeesInv'
  <2> PICK fee : fee = SumFunction(amounts)
    OBVIOUS
  <2>1. fee \in Int /\ fee > 0
    BY <1>1, <1>3 DEF CreateProfile
  <2>2. fee \in Nat
    BY <2>1
  <2>3. NewPlan(OneTime(fee))
    BY <1>0, <2>1, <2>2, OneTimeIsNew
  <2> QED
    BY <1>3, <2>1, <2>3, CreateKeeps
<1>4. ASSUME NEW g \in FirstParts, CreateProfile(s, g[1], Scheduled(Generated(g[1], g[2], g[3])))
      PROVE  FeesInv'
  <2> PICK amounts : amounts = Generated(g[1], g[2], g[3])
    OBVIOUS
  <2>1. amounts \in Seq(Nat) /\ g[1] \in Int
    BY FeesAssumption, PartsAssumption
  <2>2. NewPlan(Scheduled(amounts))
    BY <1>0, <2>1, ScheduledIsNew
  <2> QED
    BY <1>4, <2>1, <2>2, CreateKeeps
<1> QED
  BY <1>2, <1>3, <1>4 DEF CreateAny

\* Every step keeps the invariant.
LEMMA FeesStep == FeesInv /\ [FeesNext]_feesVars => FeesInv'
<1> SUFFICES ASSUME FeesInv, [FeesNext]_feesVars PROVE FeesInv'
  OBVIOUS
<1>0. day \in Nat /\ sweeping \subseteq Installments
  BY DEF FeesInv, FeesTypes
<1>1. ASSUME NEW s \in Student, CreateAny(s) PROVE FeesInv'
  BY <1>1, CreateAnyKeeps
<1>2. ASSUME NEW p \in Profiles, Void(p) PROVE FeesInv'
  BY <1>2, VoidKeeps
<1>3. ASSUME NEW p \in Profiles, NEW d \in (day + 1 .. LastDay) \cup {NoDate}, Remark(p, d) PROVE FeesInv'
  BY <1>0, <1>3, OthersKeep DEF Remark
<1>4. ASSUME NEW c \in Clerk, NEW i \in Installments, NEW amount \in 1 .. Installment(i).amount,
             ReadInstallment(c, i, amount)
      PROVE  FeesInv'
  BY <1>4, ReadInstallmentKeeps
<1>5. ASSUME NEW c \in Clerk, ReadProfile(c) PROVE FeesInv'
  BY <1>5, ReadProfileKeeps
<1>6. ASSUME NEW c \in Clerk, Post(c) PROVE FeesInv'
  BY <1>6, PostKeeps
<1>7. ASSUME NEW c \in Clerk, Drop(c) PROVE FeesInv'
  BY <1>7, DropKeeps
<1>8. ASSUME SelectOverdue PROVE FeesInv'
  <2>1. sweeping' \subseteq Installments
    BY <1>8 DEF SelectOverdue, LiveInstallments
  <2> QED
    BY <1>0, <1>8, <2>1, OthersKeep DEF SelectOverdue
<1>9. ASSUME MarkOverdue PROVE FeesInv'
  BY <1>9, MarkOverdueKeeps
<1>10. ASSUME NextDay PROVE FeesInv'
  BY <1>0, <1>10, OthersKeep DEF NextDay
<1>11. ASSUME UNCHANGED feesVars PROVE FeesInv'
  BY <1>0, <1>11, OthersKeep DEF feesVars
<1> QED
  BY <1>1, <1>2, <1>3, <1>4, <1>5, <1>6, <1>7, <1>8, <1>9, <1>10, <1>11 DEF FeesNext

\* The invariant, of every behaviour of the fees.
THEOREM FeesHold == FeesSpec => []FeesInv
BY FeesInvInit, FeesStep, PTL DEF FeesSpec

\* However payments, voids and sweeps overlap, paid and pending add up to the agreed
\* fee, and no installment is booked above its amount or its receipts
\* (record_payment).
THEOREM BooksAreSound == FeesSpec => []BookedSoundly
BY FeesHold, InvGives, PTL

\* As long as no request overwrote a row that had changed since it was read, the
\* books agree with the money received, the morning list leaves out nothing that is
\* due, and forecast and summary card give one figure.
THEOREM BooksDoAgree == FeesSpec => []BooksAgree
BY FeesHold, InvGives, PTL

\* The invariant has the types of the tables.
LEMMA InvTyped == FeesInv => FeesTypeOK
<1> SUFFICES ASSUME FeesInv PROVE FeesTypeOK
  OBVIOUS
<1>0. FeesTypes
  BY DEF FeesInv
<1>1. ASSUME NEW p \in Profiles
      PROVE /\ profiles[p].student \in Student
            /\ profiles[p].agreed \in Nat /\ profiles[p].paid \in Nat
            /\ profiles[p].pending \in Int
  BY <1>0, ProfileIs DEF FeeProfile
<1>2. ASSUME NEW i \in Installments
      PROVE /\ Installment(i).status \in Unpaid \cup {"PAID"}
            /\ Installment(i).paid \in Nat /\ received[i] \in Nat
            /\ Installment(i).deleted = profiles[i[1]].deleted
  <2>1. /\ Installment(i) \in FeeRow /\ received[i] \in Nat /\ i[1] \in Profiles
        /\ i[2] \in DOMAIN profiles[i[1]].plan
    BY <1>0, InstallmentType
  <2>2. Installment(i).deleted = profiles[i[1]].deleted
    BY <2>1 DEF FeesInv, PlansHold, Installment
  <2> QED
    BY <2>1, <2>2 DEF FeeRow
<1>3. \A c \in Clerk : till[c] # NotPaying => till[c].of \in Installments
  BY DEF FeesInv, TillKnows
<1> QED
  BY <1>0, <1>1, <1>2, <1>3 DEF FeesTypeOK, FeesTypes

\* The tables of the fees keep their types.
THEOREM FeesTypeCorrect == FeesSpec => []FeesTypeOK
BY FeesHold, InvTyped, PTL
=============================================================================
