--------------------------- MODULE MCNotifications ---------------------------
(* Instances of Notifications: an absence is told by WhatsApp and by e-mail, *)
(* a lecture reminder by e-mail, and a punch by no template.                 *)
EXTENDS Notifications, TLC

MCType == {"absent", "reminder", "punch"}
MCTemplate == {"absent_wa", "absent_mail", "reminder_mail"}
MCTypeOf == [t \in MCTemplate |-> IF t = "reminder_mail" THEN "reminder" ELSE "absent"]

\* A smaller instance, of absences alone.
OneType == {"absent"}
OneTemplate == {"absent_wa", "absent_mail"}
OneTypeOf == [t \in OneTemplate |-> "absent"]

WorkerSymmetry == Permutations(Worker)

\* A failing event is consumed again by every run; two copies of its messages
\* are enough to have them sent and settled side by side.
TwoCopies == \A r \in DOMAIN queue : r.copy <= 2
=============================================================================
