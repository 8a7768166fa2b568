---------------------------- MODULE Notifications ----------------------------
(***************************************************************************)
(* The notification pipeline: a periodic job turns the events of the event *)
(* bus into queued messages and delivers what is queued                    *)
(* (notifications/jobs/tasks.py, services/notification_service.py).        *)
(*                                                                         *)
(* One run of the job is one transaction, committed at its very end; runs  *)
(* overlap when delivering takes longer than the period of the beat.  A    *)
(* statement reads what is committed and what its own run wrote.  The      *)
(* provider (WhatsApp) is external, and what it was given stays given.     *)
(***************************************************************************)
EXTENDS Integers, Sequences, FiniteSets, SequencesExt, Functions

CONSTANTS Type, Template, Worker,
          TypeOf,       \* the event type of a template
          WhatsApp,     \* the templates of the WHATSAPP channel
          Malformed,    \* the templates whose condition cannot be evaluated
          Managed,      \* the templates operators switch on and off
          Toggled,      \* whether they move the WhatsApp toggle
          BatchLimit,   \* events and rows taken by one run (100)
          MaxRetries,   \* max_retries of a row (3)
          MaxEvents,    \* bound: events emitted
          MaxAborts     \* bound: runs that die before they commit

ASSUME NotificationAssumption ==
    /\ IsFiniteSet(Template) /\ IsFiniteSet(Worker)
    /\ TypeOf \in [Template -> Type]
    /\ WhatsApp \subseteq Template /\ Malformed \subseteq Template
    /\ Managed \subseteq Template /\ Toggled \in BOOLEAN
    /\ BatchLimit \in Nat \ {0} /\ MaxRetries \in Nat \ {0}
    /\ MaxEvents \in Nat /\ MaxAborts \in Nat

VARIABLES events,     \* academic_events, oldest first
          consumed,   \* processed_events: those marked SUCCESS
          queue,      \* notification_queue: the status and retries per row
          active,     \* the active templates
          enabled,    \* the WhatsApp toggle of the branch
          run,        \* the run each worker is in, with what it has not committed
          accepted,   \* external: how often the provider took a message
          aborts      \* how many runs died

vars == <<events, consumed, queue, active, enabled, run, accepted, aborts>>
tables == <<consumed, queue>>

Events == DOMAIN events

\* A row is named by what it tells; "copy" tells equal messages apart.
Rows == [event : 1..MaxEvents, template : Template, copy : Nat \ {0}]
Pending == [status |-> "PENDING", retries |-> 0]

\* "toggle" and "item" hold one value, or none: the toggle once it was read, and
\* the row whose outcome is not written yet.
Idle == [phase |-> "idle", batch |-> {}, done |-> {}, rows |-> [r \in {} |-> Pending],
         todo |-> {}, loaded |-> [r \in {} |-> Pending], toggle |-> {},
         outcome |-> "none", item |-> {}]

Init ==
    /\ events = <<>>
    /\ consumed = {}
    /\ queue = [r \in {} |-> Pending]
    /\ active = Template
    /\ enabled = TRUE
    /\ run = [w \in Worker |-> Idle]
    /\ accepted = [m \in {} |-> 0]
    /\ aborts = 0

\* f, with the values g gives to the members of its domain.
Over(g, f) == [k \in (DOMAIN f) \cup (DOMAIN g) |-> IF k \in DOMAIN g THEN g[k] ELSE f[k]]

\* The rows a run sees: those committed, and its own changes.
View(w) == Over(run[w].rows, queue)

-----------------------------------------------------------------------------
(* Producers and operators.                                                 *)

\* emit_event, committed; "meets" are the templates whose condition holds.
Emit(type, meets) ==
    /\ Len(events) < MaxEvents
    /\ events' = Append(events, [type |-> type, meets |-> meets])
    /\ UNCHANGED <<tables, active, enabled, run, accepted, aborts>>

Toggle ==
    /\ Toggled /\ enabled' = ~ enabled
    /\ UNCHANGED <<events, tables, active, run, accepted, aborts>>

\* update_template, its is_active.
Activate(t) ==
    /\ active' = IF t \in active THEN active \ {t} ELSE active \cup {t}
    /\ UNCHANGED <<events, tables, enabled, run, accepted, aborts>>

-----------------------------------------------------------------------------
(* consume_events.                                                          *)

\* get_unprocessed_events, of the types that have an active template.
Unprocessed ==
    {e \in Events : /\ e \notin consumed
                    /\ \E t \in active : TypeOf[t] = events[e].type}

Start(w) ==
    /\ run[w].phase = "idle"
    /\ run' = [run EXCEPT ![w] = [Idle EXCEPT
                  !.phase = "consume",
                  !.batch = {e \in Unprocessed :
                      Cardinality({k \in Unprocessed : k < e}) < BatchLimit}]]
    /\ UNCHANGED <<events, tables, active, enabled, accepted, aborts>>

\* Events are consumed oldest first.
Oldest(batch) == {e \in batch : \A k \in batch : e <= k}

\* A name no row has: two runs may queue the same message.
NewRow(e, t) ==
    LET named == (DOMAIN queue) \cup UNION {DOMAIN run[x].rows : x \in Worker}
        used == {r.copy : r \in {s \in named : s.event = e /\ s.template = t}}
        free == (1 .. Cardinality(used) + 1) \ used
    IN  [event |-> e, template |-> t, copy |-> CHOOSE n \in free : TRUE]

Matching(e) == {t \in active : TypeOf[t] = events[e].type}

Enqueued(w, e, templates) ==
    Over([r \in {NewRow(e, t) : t \in templates} |-> Pending], run[w].rows)

\* Mutations: the condition is not evaluated; an event that queues nothing is
\* not marked; an event that failed is marked as if it had not.
ConsumeAll(w) ==
    /\ run[w].phase = "consume"
    /\ \E e \in Oldest(run[w].batch) :
          LET wanted == Matching(e) \ Malformed
          IN  run' = [run EXCEPT ![w].batch = @ \ {e}, ![w].done = @ \cup {e},
                                 ![w].rows = Enqueued(w, e, wanted)]
    /\ UNCHANGED <<events, tables, active, enabled, accepted, aborts>>
ConsumeSilently(w) ==
    /\ run[w].phase = "consume"
    /\ \E e \in Oldest(run[w].batch) :
          LET wanted == Matching(e) \cap events[e].meets
          IN  run' = [run EXCEPT ![w].batch = @ \ {e},
                                 ![w].rows = Enqueued(w, e, wanted),
                                 ![w].done = IF wanted = {} THEN @ ELSE @ \cup {e}]
    /\ UNCHANGED <<events, tables, active, enabled, accepted, aborts>>
ConsumeFailing(w) ==
    /\ run[w].phase = "consume"
    /\ \E e \in Oldest(run[w].batch) :
          LET wanted == (Matching(e) \cap events[e].meets) \ Malformed
          IN  \E before \in SUBSET wanted :
                 /\ Matching(e) \cap Malformed = {} => before = wanted
                 /\ run' = [run EXCEPT ![w].batch = @ \ {e}, ![w].done = @ \cup {e},
                                       ![w].rows = Enqueued(w, e, before)]
    /\ UNCHANGED <<events, tables, active, enabled, accepted, aborts>>

\* process_event and the mark that follows it.  The templates come in no
\* order; a condition that fails ends the event, without undoing the rows it
\* already queued, and the event is recorded as FAILED, not as SUCCESS.
Consume(w) ==
    /\ run[w].phase = "consume"
    /\ \E e \in Oldest(run[w].batch) :
          LET wanted == (Matching(e) \cap events[e].meets) \ Malformed
          IN  \/ /\ Matching(e) \cap Malformed = {}
                 /\ run' = [run EXCEPT ![w].batch = @ \ {e},
                                       ![w].rows = Enqueued(w, e, wanted),
                                       ![w].done = @ \cup {e}]
              \/ /\ Matching(e) \cap Malformed # {}
                 /\ \E before \in SUBSET wanted :
                       run' = [run EXCEPT ![w].batch = @ \ {e},
                                          ![w].rows = Enqueued(w, e, before)]
    /\ UNCHANGED <<events, tables, active, enabled, accepted, aborts>>

-----------------------------------------------------------------------------
(* process_queue.                                                           *)

PendingRows(w) == {r \in DOMAIN View(w) : View(w)[r].status = "PENDING"}

\* get_pending_notifications has a limit and no order.
Fetch(w) ==
    /\ run[w].phase = "consume" /\ run[w].batch = {}
    /\ \E taken \in SUBSET PendingRows(w) :
          /\ \/ Cardinality(taken) = BatchLimit
             \/ Cardinality(taken) < BatchLimit /\ taken = PendingRows(w)
          /\ run' = [run EXCEPT ![w].phase = "deliver", ![w].todo = taken,
                                ![w].loaded = [r \in taken |-> View(w)[r]]]
    /\ UNCHANGED <<events, tables, active, enabled, accepted, aborts>>

Told(r) == <<r.event, r.template>>
Times(m) == IF m \in DOMAIN accepted THEN accepted[m] ELSE 0
Accepted(m) == Over([k \in {m} |-> Times(m) + 1], accepted)

\* Mutation: with the toggle off the message is only logged, and counts as sent.
SendLogged(w, r) ==
    LET toggle == IF run[w].toggle = {} THEN {enabled} ELSE run[w].toggle
    IN  /\ run[w].phase = "deliver" /\ run[w].item = {} /\ r \in run[w].todo
        /\ run' = [run EXCEPT ![w].toggle = toggle, ![w].item = {r},
                              ![w].outcome = "SENT", ![w].todo = @ \ {r}]
        /\ accepted' = IF toggle = {TRUE} THEN Accepted(Told(r)) ELSE accepted
        /\ UNCHANGED <<events, tables, active, enabled, aborts>>

\* send_notification.  The toggle is read at the first row of the run and kept.
\* An error may hide a message the provider took: a timeout (to be retried) or
\* an unexpected success body (not to be).
Send(w, r) ==
    LET toggle == IF run[w].toggle = {} THEN {enabled} ELSE run[w].toggle
        result(outcome) ==
            run' = [run EXCEPT ![w].toggle = toggle, ![w].item = {r},
                               ![w].outcome = outcome, ![w].todo = @ \ {r}]
    IN  /\ run[w].phase = "deliver" /\ run[w].item = {} /\ r \in run[w].todo
        /\ \/ r.template \notin WhatsApp /\ result("SENT") /\ UNCHANGED accepted
           \/ /\ r.template \in WhatsApp /\ toggle = {FALSE}
              /\ run' = [run EXCEPT ![w].toggle = toggle, ![w].todo = @ \ {r}]
              /\ UNCHANGED accepted
           \/ /\ r.template \in WhatsApp /\ toggle = {TRUE}
              /\ \/ result("SENT") /\ accepted' = Accepted(Told(r))
                 \/ /\ \E outcome \in {"RETRY", "FAILED"} : result(outcome)
                    /\ accepted' \in {accepted, Accepted(Told(r))}
        /\ UNCHANGED <<events, tables, active, enabled, aborts>>

\* An uncommitted change of another run locks the row.
Locked(w, r) == \E x \in Worker \ {w} : r \in DOMAIN run[x].rows

\* Mutation: one retry too many.
MarkedLate(w, r) ==
    LET retries == run[w].loaded[r].retries + 1
        row == View(w)[r]
    IN  IF run[w].outcome = "SENT" THEN [row EXCEPT !.status = "SENT"]
        ELSE IF run[w].outcome = "FAILED" \/ retries > MaxRetries
             THEN [status |-> "FAILED", retries |-> retries]
             ELSE [row EXCEPT !.retries = retries]

\* mark_sent, mark_failed: retries are counted from what was loaded, and only
\* the columns that changed are written.
Marked(w, r) ==
    LET retries == run[w].loaded[r].retries + 1
        row == View(w)[r]
    IN  IF run[w].outcome = "SENT" THEN [row EXCEPT !.status = "SENT"]
        ELSE IF run[w].outcome = "FAILED" \/ retries >= MaxRetries
             THEN [status |-> "FAILED", retries |-> retries]
             ELSE [row EXCEPT !.retries = retries]

Settle(w, r) ==
    /\ r \in run[w].item
    /\ ~ Locked(w, r)
    /\ run' = [run EXCEPT ![w].rows = Over([k \in {r} |-> Marked(w, r)], @),
                          ![w].outcome = "none", ![w].item = {}]
    /\ UNCHANGED <<events, tables, active, enabled, accepted, aborts>>

\* Mutation: the events of the run are not marked.
CommitUnmarked(w) ==
    /\ run[w].phase = "deliver" /\ run[w].todo = {} /\ run[w].item = {}
    /\ queue' = View(w)
    /\ run' = [run EXCEPT ![w] = Idle]
    /\ UNCHANGED <<consumed, events, active, enabled, accepted, aborts>>

Commit(w) ==
    /\ run[w].phase = "deliver" /\ run[w].todo = {} /\ run[w].item = {}
    /\ queue' = View(w)
    /\ consumed' = consumed \cup run[w].done
    /\ run' = [run EXCEPT ![w] = Idle]
    /\ UNCHANGED <<events, active, enabled, accepted, aborts>>

\* The worker dies, an error ends the task, or the database aborts the run to
\* break a deadlock: nothing it wrote remains.
Abort(w) ==
    /\ run[w].phase # "idle" /\ aborts < MaxAborts
    /\ run' = [run EXCEPT ![w] = Idle]
    /\ aborts' = aborts + 1
    /\ UNCHANGED <<events, tables, active, enabled, accepted>>

Step(w) ==
    \/ Start(w) \/ Consume(w) \/ Fetch(w) \/ Commit(w)
    \/ \E r \in run[w].todo : Send(w, r)
    \/ \E r \in run[w].item : Settle(w, r)

Next ==
    \/ \E type \in Type, meets \in SUBSET Template : Emit(type, meets)
    \/ Toggle
    \/ \E t \in Managed : Activate(t)
    \/ \E w \in Worker : Step(w) \/ Abort(w)

Spec == Init /\ [][Next]_vars

\* The beat starts the job every few minutes and a run goes on until it ends.
FairSpec == Spec /\ \A w \in Worker : WF_vars(Step(w))

-----------------------------------------------------------------------------
(* Properties.                                                              *)

\* The shape of the tables and of a run.
TypeOK ==
    /\ consumed \subseteq Events
    /\ DOMAIN queue \subseteq Rows
    /\ \A r \in DOMAIN queue :
          /\ queue[r].status \in {"PENDING", "SENT", "FAILED"}
          /\ queue[r].retries \in 0..MaxRetries
    /\ \A w \in Worker : /\ run[w].done \subseteq Events
                         /\ run[w].phase \in {"idle", "consume", "deliver"}
                         /\ run[w].todo \subseteq DOMAIN View(w)

\* However often runs die, an event gives each template one row at most
\* (consume_events: "an event is enqueued at most once even if the drain runs
\* repeatedly").
EnqueuedOnce == \A r, s \in DOMAIN queue : Told(r) = Told(s) => r = s

\* The queue and the marks never part: what is queued, once, was asked for by an
\* event marked as consumed, and every such event has its messages in the queue
\* (of the templates that are active all the time).
QueueMatchesConsumed ==
    /\ EnqueuedOnce
    /\ \A e \in Events, t \in Template \ Managed :
          (\E r \in DOMAIN queue : Told(r) = <<e, t>>)
              <=> (e \in consumed /\ TypeOf[t] = events[e].type /\ t \in events[e].meets)

\* No message is lost: an event counts as consumed only when the messages it
\* asks for are in the queue, even if a condition failed between them, runs
\* overlap or die, and an operator switches the failing template off.
ConsumedWasQueued ==
    \A e \in consumed, t \in Template \ Managed :
        (TypeOf[t] = events[e].type /\ t \in events[e].meets)
            => \E r \in DOMAIN queue : Told(r) = <<e, t>>

\* A row that is SENT on the channel with a provider was taken by the provider.
SentWasAccepted ==
    \A r \in DOMAIN queue :
        (queue[r].status = "SENT" /\ r.template \in WhatsApp) => Times(Told(r)) > 0

\* A parent gets a message no more often than the retries allow, and once more
\* for each run that died after it had sent and before it had committed.
RepeatsBounded == \A m \in DOMAIN accepted : accepted[m] <= MaxRetries + aborts

\* An event that has an active template is eventually consumed, whatever other
\* events there are and although runs die.
EventsConsumed ==
    \A e \in 1..MaxEvents :
        (e \in Events /\ \E t \in Template : TypeOf[t] = events[e].type)
            ~> e \in consumed

\* The comment of consume_events: a failing event is recorded and passed over,
\* and so does not keep the events whose templates are sound from being consumed.
DrainNotWedged ==
    \A e \in 1..MaxEvents :
        (/\ e \in Events
         /\ \E t \in Template : TypeOf[t] = events[e].type
         /\ \A t \in Malformed : TypeOf[t] # events[e].type)
            ~> e \in consumed
=============================================================================
