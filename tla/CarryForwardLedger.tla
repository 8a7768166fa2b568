------------------------- MODULE CarryForwardLedger -------------------------
(***************************************************************************)
(* The append-only carry-forward ledger of one staff member                *)
(* (payroll/services/ledger_service.py), under every order in which the    *)
(* payroll orchestration may drive it: months are closed in any order,     *)
(* reopened, closed again, and recomputed while closed, each time with     *)
(* whatever net result the attendance of that moment gives.                *)
(***************************************************************************)
EXTENDS PayrollCalc

CONSTANTS LastMonth,      \* months are numbered 1..LastMonth
          Caps,           \* the values carry_forward_cap is given over time
          AllowNegative,  \* allow_negative_balance of the payroll settings
          Nets,           \* the net results a month can have
          MaxRows         \* bound: no operation starts on a longer ledger

ASSUME LedgerAssumption ==
    /\ LastMonth \in Nat
    /\ Caps \subseteq Nat
    /\ AllowNegative \in BOOLEAN
    /\ Nets \subseteq Int
    /\ MaxRows \in Nat

Months == 1 .. LastMonth

VARIABLES ledger,  \* the rows, in seq order
          closed,  \* the months whose lifecycle is CLOSED or LOCKED
          cap      \* carry_forward_cap as the settings have it now

vars == <<ledger, closed, cap>>

Row == [month: Months, type: EntryTypes, days: Int, balance: Int]

Init == ledger = <<>> /\ closed = {} /\ cap \in Caps

\* The rows close_month appends for a month: it starts from the balance of
\* the earlier months and reverses nothing.
ClosingRows(rows, month, net, c) ==
    LET balanceIn == BalanceBefore(rows, month)
    IN  ApplyComputation(month, balanceIn,
                         ApplyBalance(net, balanceIn, c, AllowNegative))

\* Mutation: the reversal is left out.
NoReversal(rows, month, net, c) == ClosingRows(rows, month, net, c)

\* The rows recompute_from appends for one month: a reversal to the balance
\* carried into the month, then the fresh entries.
RecomputeRows(rows, month, net, c) ==
    ReverseTo(rows, month, BalanceBefore(rows, month))
        \o ClosingRows(rows, month, net, c)

Close(month, net) ==
    /\ month \notin closed
    /\ Len(ledger) <= MaxRows
    /\ closed' = closed \cup {month}
    /\ ledger' = ledger \o ClosingRows(ledger, month, net, cap)
    /\ UNCHANGED cap

\* Mutation: the rows of the month are deleted and not reversed.
RecomputeReplaces(month, net) ==
    /\ month \in closed
    /\ Len(ledger) <= MaxRows
    /\ LET others == SelectSeq(ledger, LAMBDA row : row.month # month)
       IN  ledger' = others \o ClosingRows(others, month, net, cap)
    /\ UNCHANGED <<closed, cap>>

Recompute(month, net) ==
    /\ month \in closed
    /\ Len(ledger) <= MaxRows
    /\ ledger' = ledger \o RecomputeRows(ledger, month, net, cap)
    /\ UNCHANGED <<closed, cap>>

\* Reopening leaves the rows of the month in place.
Reopen(month) ==
    /\ month \in closed
    /\ closed' = closed \ {month}
    /\ UNCHANGED <<ledger, cap>>

\* A Super Admin changes the cap; no balance is touched.
SetCap(c) ==
    /\ cap' = c
    /\ UNCHANGED <<ledger, closed>>

Next == \/ \E month \in Months, net \in Nets :
               Close(month, net) \/ Recompute(month, net)
        \/ \E month \in Months : Reopen(month)
        \/ \E c \in Caps : SetCap(c)

Spec == Init /\ [][Next]_vars

-----------------------------------------------------------------------------
Books(month) == \E net \in Nets : Close(month, net) \/ Recompute(month, net)

(* Every row is well formed. *)
TypeOK == /\ ledger \in Seq(Row)
          /\ closed \subseteq Months
          /\ cap \in Caps

(* With negative balances switched off, a running balance is never below    *)
(* zero nor above every cap the settings have had, whichever months are     *)
(* reversed, reopened or closed out of order.                               *)
BalanceInRange ==
    ~AllowNegative =>
        \A i \in 1 .. Len(ledger) :
            ledger[i].balance = 0 \/ \E c \in Caps : ledger[i].balance \in 0 .. c

(* Rows are only ever appended, and the rows of an operation on a month     *)
(* carry that month: what any earlier month, or the month itself, carries   *)
(* in is the same afterwards.                                               *)
EarlierCarryKept ==
    [][\A month \in Months :
          Books(month)
            => /\ Len(ledger) <= Len(ledger')
               /\ SubSeq(ledger', 1, Len(ledger)) = ledger
               /\ \A k \in 1 .. month :
                      BalanceBefore(ledger', k) = BalanceBefore(ledger, k)]_vars

(* No row lifts the balance above the cap of the moment; a balance that a   *)
(* lowered cap left too high is kept but never raised.                      *)
CapRespected ==
    [][\A month \in Months :
          Books(month) =>
              \A i \in (Len(ledger) + 1) .. Len(ledger') :
                  ledger'[i].balance
                    <= Most(cap, BalanceBefore(ledger, month))]_vars

(* Recomputing a month is exact, however tangled the rows before are: from  *)
(* the reversal on every running balance is the previous one plus the row's *)
(* own days, and the last is the one the calculation computed from the      *)
(* balance carried into the month.                                          *)
RecomputeExact ==
    [][\A month \in Months, net \in Nets :
          Recompute(month, net) =>
              /\ ThreadedAfter(ledger', Len(ledger))
              /\ CurrentBalance(ledger')
                   = ApplyBalance(net, BalanceBefore(ledger, month),
                                  cap, AllowNegative).out]_vars
=============================================================================
