------------------------------ MODULE Reminders ------------------------------
(***************************************************************************)
(* The morning reminder of the day's lectures                              *)
(* (attendance/jobs/tasks.py, attendance/services/daily_service.py:        *)
(* run_lecture_reminders) and the batches whose parents may be messaged    *)
(* (notifications: set_whatsapp_batches).  One day of one branch.  The     *)
(* beat fires four times in the hour of the reminders; a firing reads the  *)
(* day, the chosen batches and who was reminded, and stores its events in  *)
(* one commit.  Firings overlap when one lasts longer than a quarter.      *)
(*                                                                         *)
(* Names, numbers and hours of the day are left out; that an event becomes *)
(* a message is the module Notifications.                                  *)
(***************************************************************************)
EXTENDS Integers, Sequences, FiniteSets

CONSTANTS Scholar, Stream, Topic,   \* active students, their batches, the subjects
          Bell,                     \* the firings of the beat that may overlap
          Chooser,                  \* the requests that choose batches
          MaxReminders              \* bound: how often a student is reminded

ASSUME RemindersAssumption == MaxReminders \in Nat

VARIABLES daybook,  \* the day's lectures: the topics of each stream
          joined,   \* student_batch_mappings: the streams of each scholar
          switch,   \* notification_whatsapp_batches: the rows of each stream, live or not
          master,   \* NotificationSettings.whatsapp_enabled
          morning,    \* before, in and after REMINDER_LOCAL_HOUR
          reminders,\* LECTURE_REMINDER events of the day: the topics each names
          firing,   \* what each firing will store
          choosing, \* what each replacement of the chosen batches read
          asked,    \* history: the batches last asked for
          overrun,  \* history: a firing stored while another was under way
          tangled   \* history: a replacement committed while another was under way

remindersVars == <<daybook, joined, switch, master, morning, reminders, firing, choosing, asked, overrun, tangled>>

NotFired == [kind |-> "none"]
NotChoosing == [kind |-> "none"]

\* enabled_whatsapp_batch_ids
Switched == {b \in Stream : \E n \in DOMAIN switch[b] : switch[b][n]}

RemindersInit ==
    /\ daybook \in [Stream -> SUBSET Topic] /\ joined \in [Scholar -> SUBSET Stream]
    /\ switch = [b \in Stream |-> <<>>] /\ master = FALSE /\ morning = "before"
    /\ reminders = [s \in Scholar |-> <<>>]
    /\ firing = [w \in Bell |-> NotFired] /\ choosing = [c \in Chooser |-> NotChoosing]
    /\ asked = {} /\ overrun = FALSE /\ tangled = FALSE

-----------------------------------------------------------------------------
(* The reminders.                                                          *)

\* The day's streams of a scholar that are switched on.
Announced(s) == {b \in joined[s] \cap Switched : daybook[b] # {}}

\* Mutation: an event of another number of topics does not count.
FreshByTopics(s) == \A n \in DOMAIN reminders[s] : reminders[s][n] # UNION {daybook[b] : b \in Announced(s)}

\* Nobody is reminded twice for a day: the date in the events' metadata tells.
Fresh(s) == reminders[s] = <<>>

\* run_lecture_reminders: one event per scholar with the topics of all streams.
\* A lecture that was called off is still on the day.
Due == {s \in Scholar : Announced(s) # {} /\ Fresh(s)}

Fire(w) ==
    /\ firing[w] = NotFired /\ morning = "in" /\ master
    /\ firing' = [firing EXCEPT ![w] = [kind |-> "fired",
          events |-> [s \in Due |-> UNION {daybook[b] : b \in Announced(s)}]]]
    /\ UNCHANGED <<daybook, joined, switch, master, morning, reminders, choosing, asked, overrun, tangled>>

StoreReminders(w) ==
    /\ firing[w] # NotFired
    /\ LET e == firing[w].events
       IN  /\ \A s \in DOMAIN e : Len(reminders[s]) < MaxReminders
           /\ reminders' = [s \in Scholar |->
                 IF s \in DOMAIN e THEN Append(reminders[s], e[s]) ELSE reminders[s]]
    /\ overrun' = (overrun \/ \E x \in Bell \ {w} : firing[x] # NotFired)
    /\ firing' = [firing EXCEPT ![w] = NotFired]
    /\ UNCHANGED <<daybook, joined, switch, master, morning, choosing, asked, tangled>>

\* One branch that fails takes the firing of all branches with it.
DropFiring(w) ==
    /\ firing[w] # NotFired /\ firing' = [firing EXCEPT ![w] = NotFired]
    /\ UNCHANGED <<daybook, joined, switch, master, morning, reminders, choosing, asked, overrun, tangled>>

-----------------------------------------------------------------------------
(* The chosen batches.                                                     *)

\* set_whatsapp_batches with set_enabled_whatsapp_batches: the rows are read, one
\* of each batch that has any is kept at hand,
BeginChoice(c, wanted, pick) ==
    /\ choosing[c] = NotChoosing
    /\ \A b \in Stream : IF switch[b] = <<>> THEN pick[b] = 0 ELSE pick[b] \in DOMAIN switch[b]
    /\ choosing' = [choosing EXCEPT ![c] = [kind |-> "choosing", wanted |-> wanted, pick |-> pick, read |-> switch]]
    /\ UNCHANGED <<daybook, joined, switch, master, morning, reminders, firing, asked, overrun, tangled>>

\* it is written if it must flip; a batch without a row gets one when wanted.
Chosen(v, b) ==
    [n \in DOMAIN switch[b] |->
        IF n = v.pick[b] /\ v.read[b][n] # (b \in v.wanted) THEN b \in v.wanted ELSE switch[b][n]]
    \o IF v.pick[b] = 0 /\ b \in v.wanted THEN <<TRUE>> ELSE <<>>

\* uq_notif_wa_batch_live
OneLive(rows) == \A m, n \in DOMAIN rows : rows[m] /\ rows[n] => m = n

CommitChoice(c) ==
    /\ choosing[c] # NotChoosing
    /\ \A b \in Stream : OneLive(Chosen(choosing[c], b))
    /\ switch' = [b \in Stream |-> Chosen(choosing[c], b)]
    /\ asked' = choosing[c].wanted
    /\ tangled' = (tangled \/ \E d \in Chooser \ {c} : choosing[d] # NotChoosing)
    /\ choosing' = [choosing EXCEPT ![c] = NotChoosing]
    /\ UNCHANGED <<daybook, joined, master, morning, reminders, firing, overrun>>

\* A second live row of a batch, or any other error, rolls the request back.
DropChoice(c) ==
    /\ choosing[c] # NotChoosing /\ choosing' = [choosing EXCEPT ![c] = NotChoosing]
    /\ UNCHANGED <<daybook, joined, switch, master, morning, reminders, firing, asked, overrun, tangled>>

-----------------------------------------------------------------------------
(* The office and the morning.                                               *)

Replan(b, ts) ==
    /\ daybook' = [daybook EXCEPT ![b] = ts]
    /\ UNCHANGED <<joined, switch, master, morning, reminders, firing, choosing, asked, overrun, tangled>>

SetMaster ==
    /\ master' = ~ master
    /\ UNCHANGED <<daybook, joined, switch, morning, reminders, firing, choosing, asked, overrun, tangled>>

Later ==
    /\ morning # "after" /\ morning' = (IF morning = "before" THEN "in" ELSE "after")
    /\ UNCHANGED <<daybook, joined, switch, master, reminders, firing, choosing, asked, overrun, tangled>>

RemindersNext ==
    \/ \E w \in Bell : Fire(w) \/ StoreReminders(w) \/ DropFiring(w)
    \/ \E c \in Chooser : CommitChoice(c) \/ DropChoice(c)
    \/ \E c \in Chooser, wanted \in SUBSET Stream, pick \in [Stream -> 0 .. Cardinality(Chooser)] :
          BeginChoice(c, wanted, pick)
    \/ \E b \in Stream, ts \in SUBSET Topic : Replan(b, ts)
    \/ SetMaster \/ Later

RemindersSpec == RemindersInit /\ [][RemindersNext]_remindersVars

-----------------------------------------------------------------------------
(* Correctness.                                                            *)

\* The day, the rows and what requests hold are well formed.
RemindersTypeOK ==
    /\ daybook \in [Stream -> SUBSET Topic] /\ joined \in [Scholar -> SUBSET Stream]
    /\ switch \in [Stream -> Seq(BOOLEAN)] /\ master \in BOOLEAN /\ morning \in {"before", "in", "after"}
    /\ reminders \in [Scholar -> Seq(SUBSET Topic)] /\ asked \subseteq Stream
    /\ DOMAIN firing = Bell /\ DOMAIN choosing = Chooser
    /\ \A w \in Bell : firing[w] = NotFired
          \/ \E who \in SUBSET Scholar : firing[w] \in [kind : {"fired"}, events : [who -> SUBSET Topic]]
    /\ \A c \in Chooser : choosing[c] = NotChoosing
          \/ choosing[c] \in [kind : {"choosing"}, wanted : SUBSET Stream, pick : [Stream -> Nat],
                             read : [Stream -> Seq(BOOLEAN)]]
    /\ overrun \in BOOLEAN /\ tangled \in BOOLEAN

\* "Repeated morning firings never double-notify", whatever is planned, chosen
\* and switched between them, unless a firing stored beside another.
RemindedOnce == overrun \/ \A s \in Scholar : Len(reminders[s]) <= 1

\* "Make batch_ids the exact enabled set": the parents of exactly the batches
\* last asked for are told, unless one replacement committed beside another.
ChosenAsAsked == tangled \/ Switched = asked

\* The right parents are told, once.
RemindersSound == RemindedOnce /\ ChosenAsAsked
=============================================================================
