---------------------------- MODULE PayrollCalc ----------------------------
(***************************************************************************)
(* The arithmetic of the month-end calculation and of the carry-forward    *)
(* ledger: what one month's net result does to a balance, and which rows   *)
(* are appended for it.  Every quantity is a number of half days, the step *)
(* in which the code counts (payroll_models.py stores one decimal place).  *)
(***************************************************************************)
EXTENDS Integers, Sequences

Least(a, b) == IF a <= b THEN a ELSE b
Most(a, b)  == IF a >= b THEN a ELSE b

(***************************************************************************)
(* _apply_balance: an extra goes to the balance up to the cap and the rest *)
(* is trimmed; a shortfall takes from the balance first and the remainder  *)
(* is uncovered (or, when negative balances are allowed, borrowed).        *)
(***************************************************************************)
Movement == [added: Nat, trimmed: Nat, used: Int, uncovered: Nat, out: Int]

Unmoved(balanceIn) ==
    [added |-> 0, trimmed |-> 0, used |-> 0, uncovered |-> 0, out |-> balanceIn]

\* Mutation: the balance carried in is not counted against the cap.
ExtraOverCap(net, balanceIn, cap) ==
    LET added == Least(net, cap)
    IN  [Unmoved(balanceIn) EXCEPT !.added   = added,
                                   !.trimmed = net - added,
                                   !.out     = balanceIn + added]

ExtraMovement(net, balanceIn, cap) ==
    LET added == Least(net, Most(0, cap - balanceIn))
    IN  [Unmoved(balanceIn) EXCEPT !.added   = added,
                                   !.trimmed = net - added,
                                   !.out     = balanceIn + added]

\* Mutation: the whole shortfall is taken from the balance.
ShortfallOverdrawn(net, balanceIn, allowNegative) ==
    [Unmoved(balanceIn) EXCEPT !.used = -net, !.out = balanceIn + net]

ShortfallMovement(net, balanceIn, allowNegative) ==
    LET used      == Least(balanceIn, -net)
        remaining == -net - used
        borrows   == allowNegative /\ remaining > 0
    IN  [Unmoved(balanceIn) EXCEPT
            !.used      = used,
            !.uncovered = IF borrows THEN 0 ELSE remaining,
            !.out       = balanceIn - used - (IF borrows THEN remaining ELSE 0)]

ApplyBalance(net, balanceIn, cap, allowNegative) ==
    IF net > 0 THEN ExtraMovement(net, balanceIn, cap)
    ELSE IF net < 0 THEN ShortfallMovement(net, balanceIn, allowNegative)
    ELSE Unmoved(balanceIn)

-----------------------------------------------------------------------------
(* The ledger of one staff member is the sequence of its rows; a row's      *)
(* position is the per-staff "seq" that _append assigns.                    *)
EntryTypes == {"extra_added", "cap_trim", "compensation_used", "reversal"}

Entry(month, type, days, balance) ==
    [month |-> month, type |-> type, days |-> days, balance |-> balance]

CurrentBalance(rows) == IF rows = <<>> THEN 0 ELSE rows[Len(rows)].balance

EarlierRows(rows, month) == {i \in 1 .. Len(rows) : rows[i].month < month}

\* The row of an earlier month with the greatest seq, which need not belong
\* to the month just before.
LatestOf(indices) == CHOOSE i \in indices : \A j \in indices : j <= i

BalanceBefore(rows, month) ==
    LET earlier == EarlierRows(rows, month)
    IN  IF earlier = {} THEN 0 ELSE rows[LatestOf(earlier)].balance

RowIf(condition, row) == IF condition THEN <<row>> ELSE <<>>

(* apply_computation: running balances are counted from the balance the     *)
(* computation started from, whatever the last row of the ledger says.      *)
ApplyComputation(month, balanceIn, mv) ==
    LET raised == balanceIn + mv.added
    IN  RowIf(mv.added > 0, Entry(month, "extra_added", mv.added, raised))
        \o RowIf(mv.trimmed > 0, Entry(month, "cap_trim", mv.trimmed, raised))
        \o RowIf(mv.used > 0,
                 Entry(month, "compensation_used", -mv.used, raised - mv.used))

(* reverse_to: one row that brings the running balance back to the target.  *)
ReverseTo(rows, month, target) ==
    RowIf(CurrentBalance(rows) # target,
          Entry(month, "reversal", target - CurrentBalance(rows), target))

\* By how much a row moves the balance: a cap_trim row records days that
\* were discarded.
Moves(row) == IF row.type = "cap_trim" THEN 0 ELSE row.days

\* From row n+1 on, every running balance is the one above it plus the move.
ThreadedAfter(rows, n) ==
    \A i \in (n + 1) .. Len(rows) :
        rows[i].balance = CurrentBalance(SubSeq(rows, 1, i - 1)) + Moves(rows[i])
=============================================================================
