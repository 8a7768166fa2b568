------------------------------ MODULE MCOffice ------------------------------
(***************************************************************************)
(* Three desks that share no table, each on an instance of its own: the    *)
(* carry-forward ledger of one staff member, the fees of one student, and  *)
(* one day of attendance.  A behaviour works at one of them, "desk"; what  *)
(* is checked of a desk is checked of every behaviour at it.               *)
(***************************************************************************)
EXTENDS CarryForwardLedger, Fees, DailyAttendance

CONSTANTS w1, w2
VARIABLE open   \* the desk that is open
officeVars == <<vars, feesVars, attendanceVars, open>>

\* Three months, caps of one and two half days, and nets that fall short, break
\* even, fill the balance and overflow it.
MCNets == {-3, -1, 0, 1, 3}

\* Two rupees at once, or one down and two parts of which the last takes less.
MCPlans == {<<2>>}
MCFirstParts == {<<2, 1, 1>>}

\* One lecture, and a punch before and during it.
MCLecture == {[from |-> 1, to |-> 2]}
MCPunches == {<<"asha", 1>>, <<"asha", 2>>}

\* Attendance by one worker with every step; or by two, whose start time is fixed
\* and who leave the raw-punch endpoint and the digest by hand aside, until one
\* has been overtaken and a punch is stored (before that, sweeps go on meeting).
Alone == request'[w2] = Idle
Together ==
    /\ start' = start /\ loose' = {}
    /\ \A s \in Enrolled : \A n \in DOMAIN digests'[s] : digests'[s][n].nightly
    /\ overtaken => \A s \in Enrolled : log[s] = EmptyBag

OfficeInit ==
    /\ Init /\ FeesInit /\ AttendanceInit
    /\ open \in {"ledger", "fees", "attendance", "attendance of two"}
    /\ open # "ledger" => cap = 1
    /\ open # "attendance" => start = 1

Book == open = "ledger" /\ UNCHANGED <<feesVars, attendanceVars, open>>
Cash == open = "fees" /\ UNCHANGED <<vars, attendanceVars, open>>
Register == UNCHANGED <<vars, feesVars, open>>

OfficeNext ==
    \/ Next /\ Book
    \/ FeesNext /\ Cash
    \/ AttendanceNext /\ Register
         /\ \/ open = "attendance" /\ Alone
            \/ open = "attendance of two" /\ Together

\* The beat starts the sweep again and again, and a sweep ends.
OfficeSpec ==
    /\ OfficeInit /\ [][OfficeNext]_officeVars
    /\ WF_officeVars(SelectOverdue /\ Cash) /\ WF_officeVars(MarkOverdue /\ Cash)

\* The tables of every desk are well formed.
OfficeTypeOK == TypeOK /\ FeesTypeOK /\ AttendanceTypeOK
=============================================================================
