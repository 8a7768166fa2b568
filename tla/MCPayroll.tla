----------------------------- MODULE MCPayroll -----------------------------
(***************************************************************************)
(* Instances of Payroll.  A month has one date that may be worked, kept as *)
(* a holiday or required, so that it falls short, breaks even or has an    *)
(* extra day.  Calls that overlap are two fewer; the second session opens  *)
(* a call only beside one of the first, the two being alike.  A call reads *)
(* the attendance when it commits: a correction within a call that is      *)
(* alone is one before it.                                                 *)
(***************************************************************************)
EXTENDS Payroll, TLC

CONSTANTS s1, s2

MCRequired == {0, 1}
UserSymmetry == Permutations(Users)

MCNext ==
    /\ Next
    /\ attended' # attended => calls < MaxCalls /\ (overlapped \/ \A x \in Session : call[x] = Idle)
    /\ overlapped' => calls' < MaxCalls - 1
    /\ \A x \in Session \ {s1} : (call[x] = Idle /\ call'[x] # Idle) => call[s1] # Idle

MCSpec == Init /\ [][MCNext]_vars
=============================================================================
