------------------------- MODULE Notifications_proofs -------------------------
(***************************************************************************)
(* For any number of events, templates, workers, aborted runs and retries: *)
(* the tables of the pipeline keep their shape, no message is lost, and    *)
(* nothing counts as sent that the provider did not take, however runs     *)
(* overlap and die.  Where runs do not overlap and every condition can be  *)
(* evaluated, an event gives a template one row, and a parent hears of it  *)
(* no more often than retries and aborted runs allow.                      *)
(***************************************************************************)
EXTENDS Notifications, FiniteSetTheorems, TLAPS

RowStates == [status: {"PENDING", "SENT", "FAILED"}, retries: 0 .. MaxRetries]

\* A table of rows: finite, and what waits may still be tried.
IsRows(f) ==
    /\ DOMAIN f \subseteq Rows /\ IsFiniteSet(DOMAIN f)
    /\ \A r \in DOMAIN f : /\ f[r] \in RowStates
                           /\ f[r].status = "PENDING" => f[r].retries < MaxRetries

\* A run has its fields and no others.
Whole(x) ==
    x = [phase |-> x.phase, batch |-> x.batch, done |-> x.done, rows |-> x.rows,
         todo |-> x.todo, loaded |-> x.loaded, toggle |-> x.toggle,
         outcome |-> x.outcome, item |-> x.item]

\* What a run has loaded is a row it sees, and was waiting.
RunOK(w) ==
    /\ Whole(run[w])
    /\ run[w].phase \in {"idle", "consume", "deliver"}
    /\ run[w].phase = "idle" => run[w] = Idle
    /\ run[w].phase = "consume" => run[w].item = {}
    /\ run[w].batch \subseteq Events /\ run[w].done \subseteq Events
    /\ IsRows(run[w].rows)
    /\ run[w].item \cup run[w].todo \subseteq DOMAIN run[w].loaded
    /\ DOMAIN run[w].loaded \subseteq (DOMAIN queue) \cup DOMAIN run[w].rows
    /\ IsRows(run[w].loaded)
    /\ \A r \in DOMAIN run[w].loaded : run[w].loaded[r].status = "PENDING"

TablesOK ==
    /\ events \in Seq([type: Type, meets: SUBSET Template]) /\ Len(events) <= MaxEvents
    /\ consumed \subseteq Events
    /\ IsRows(queue)
    /\ active \subseteq Template /\ Template \ Managed \subseteq active
    /\ \A m \in DOMAIN accepted : accepted[m] \in Nat
    /\ aborts \in Nat

\* The typing invariant.
Typed == TablesOK /\ DOMAIN run = Worker /\ \A w \in Worker : RunOK(w)

-----------------------------------------------------------------------------
(* Rows and tables of rows.                                                 *)

LEMMA OverValues ==
    ASSUME NEW f, NEW g
    PROVE  /\ DOMAIN Over(g, f) = (DOMAIN f) \cup (DOMAIN g)
           /\ \A k \in DOMAIN g : Over(g, f)[k] = g[k]
           /\ \A k \in (DOMAIN f) \ DOMAIN g : Over(g, f)[k] = f[k]
BY DEF Over

LEMMA OverRows ==
    ASSUME NEW f, NEW g, IsRows(f), IsRows(g)
    PROVE  IsRows(Over(g, f))
<1>1. IsFiniteSet((DOMAIN f) \cup (DOMAIN g))
  BY FS_Union DEF IsRows
<1>2. /\ DOMAIN Over(g, f) = (DOMAIN f) \cup (DOMAIN g)
      /\ \A k \in DOMAIN g : Over(g, f)[k] = g[k]
      /\ \A k \in (DOMAIN f) \ DOMAIN g : Over(g, f)[k] = f[k]
  BY OverValues
<1>3. \A r \in DOMAIN Over(g, f) :
          /\ r \in Rows
          /\ Over(g, f)[r] \in RowStates
          /\ Over(g, f)[r].status = "PENDING" => Over(g, f)[r].retries < MaxRetries
  BY <1>2 DEF IsRows
<1> QED BY <1>1, <1>2, <1>3 DEF IsRows

LEMMA NoRows == \A x : IsRows([r \in {} |-> x])
BY FS_EmptySet DEF IsRows

\* A new row is one that nobody has.
LEMMA Fresh ==
    ASSUME Typed, NEW e \in Events, NEW t \in Template
    PROVE  /\ NewRow(e, t) \in Rows
           /\ NewRow(e, t).event = e /\ NewRow(e, t).template = t
           /\ NewRow(e, t) \notin DOMAIN queue
           /\ \A x \in Worker : NewRow(e, t) \notin DOMAIN run[x].rows
<1> DEFINE changed == {DOMAIN run[x].rows : x \in Worker}
           named == (DOMAIN queue) \cup UNION {DOMAIN run[x].rows : x \in Worker}
           same == {s \in named : s.event = e /\ s.template = t}
           used == {r.copy : r \in same}
           free == (1 .. Cardinality(used) + 1) \ used
           n == CHOOSE k \in free : TRUE
<1>1. IsFiniteSet(named)
  <2> DEFINE rows == [x \in Worker |-> DOMAIN run[x].rows]
  <2>1. rows \in Surjection(Worker, changed)
    BY DEF Surjection
  <2>2. IsFiniteSet(changed)
    BY <2>1, FS_Surjection, NotificationAssumption
  <2>3. \A s \in changed : IsFiniteSet(s)
    BY DEF Typed, RunOK, IsRows
  <2>4. IsFiniteSet(UNION changed) /\ IsFiniteSet(DOMAIN queue)
    BY <2>2, <2>3, FS_UNION DEF Typed, TablesOK, IsRows
  <2> QED BY <2>4, FS_Union
<1>2. IsFiniteSet(used)
  <2> DEFINE copy == [r \in same |-> r.copy]
  <2>1. IsFiniteSet(same)
    BY <1>1, FS_Subset
  <2>2. copy \in Surjection(same, used)
    BY DEF Surjection
  <2> QED BY <2>1, <2>2, FS_Surjection
<1>3. free # {}
  <2>1. Cardinality(used) \in Nat
    BY <1>2, FS_CardinalityType
  <2>2. Cardinality(1 .. Cardinality(used) + 1) = Cardinality(used) + 1
    BY <2>1, FS_Interval
  <2>3. SUFFICES ASSUME 1 .. Cardinality(used) + 1 \subseteq used
                 PROVE  FALSE
    OBVIOUS
  <2>4. Cardinality(1 .. Cardinality(used) + 1) <= Cardinality(used)
    BY <1>2, <2>3, FS_Subset
  <2> QED BY <2>1, <2>2, <2>4
<1>4. n \in 1 .. Cardinality(used) + 1 /\ n \notin used
  <2> HIDE DEF used
  <2>1. PICK k : k \in free
    BY <1>3
  <2>2. n \in free
    <3> HIDE DEF free
    <3> QED BY <2>1
  <2> HIDE DEF n
  <2> QED BY <2>2
<1>5. NewRow(e, t) = [event |-> e, template |-> t, copy |-> n]
  BY DEF NewRow
<1>6. n \in Nat \ {0}
  <2>1. Cardinality(used) \in Nat
    BY <1>2, FS_CardinalityType
  <2> HIDE DEF n, used
  <2> QED BY <1>4, <2>1
<1>7. e \in 1 .. MaxEvents
  <2>1. events \in Seq([type: Type, meets: SUBSET Template]) /\ Len(events) <= MaxEvents
    BY DEF Typed, TablesOK
  <2>2. e \in 1 .. Len(events) /\ Len(events) \in Nat
    BY <2>1 DEF Events
  <2> QED BY <2>1, <2>2, NotificationAssumption
<1>8. [event |-> e, template |-> t, copy |-> n] \notin named
  <2> HIDE DEF n
  <2>1. SUFFICES ASSUME [event |-> e, template |-> t, copy |-> n] \in named
                 PROVE  FALSE
    OBVIOUS
  <2>2. [event |-> e, template |-> t, copy |-> n] \in same
    BY <2>1
  <2>3. [event |-> e, template |-> t, copy |-> n].copy \in used
    BY <2>2
  <2> QED BY <1>4, <2>3
<1> HIDE DEF n, named
<1>9. NewRow(e, t) \in Rows /\ NewRow(e, t).event = e /\ NewRow(e, t).template = t
  BY <1>5, <1>6, <1>7 DEF Rows
<1>10. NewRow(e, t) \notin named
  BY <1>5, <1>8
<1> QED BY <1>9, <1>10 DEF named

LEMMA NewRowsOK ==
    ASSUME Typed, NEW w \in Worker, NEW e \in Events, NEW templates \in SUBSET Template
    PROVE  /\ IsRows(Enqueued(w, e, templates))
           /\ DOMAIN Enqueued(w, e, templates)
                = (DOMAIN run[w].rows) \cup {NewRow(e, t) : t \in templates}
           /\ \A t \in templates : Enqueued(w, e, templates)[NewRow(e, t)] = Pending
           /\ \A r \in DOMAIN run[w].rows : Enqueued(w, e, templates)[r] = run[w].rows[r]
<1> DEFINE new == {NewRow(e, t) : t \in templates}
           rows == [r \in new |-> Pending]
<1>1. IsFiniteSet(new)
  <2> DEFINE name == [t \in templates |-> NewRow(e, t)]
  <2>1. name \in Surjection(templates, new)
    BY DEF Surjection
  <2>2. IsFiniteSet(templates)
    BY FS_Subset, NotificationAssumption
  <2> QED BY <2>1, <2>2, FS_Surjection
<1>2. new \subseteq Rows /\ new \cap DOMAIN run[w].rows = {}
  BY Fresh
<1>3. Pending \in RowStates /\ Pending.status = "PENDING" /\ Pending.retries < MaxRetries
  BY NotificationAssumption DEF Pending, RowStates
<1>4. IsRows(rows)
  BY <1>1, <1>2, <1>3 DEF IsRows
<1>5. IsRows(run[w].rows)
  BY DEF Typed, RunOK
<1>6. Enqueued(w, e, templates) = Over(rows, run[w].rows)
  BY DEF Enqueued
<1>7. IsRows(Over(rows, run[w].rows))
  BY <1>4, <1>5, OverRows
<1>8. DOMAIN rows = new /\ \A r \in new : rows[r] = Pending
  OBVIOUS
<1>9. /\ DOMAIN Over(rows, run[w].rows) = (DOMAIN run[w].rows) \cup new
      /\ \A r \in new : Over(rows, run[w].rows)[r] = Pending
      /\ \A r \in DOMAIN run[w].rows : Over(rows, run[w].rows)[r] = run[w].rows[r]
  <2> DEFINE all == Over(rows, run[w].rows)
  <2>1. /\ DOMAIN all = (DOMAIN run[w].rows) \cup (DOMAIN rows)
        /\ \A k \in DOMAIN rows : all[k] = rows[k]
        /\ \A k \in (DOMAIN run[w].rows) \ DOMAIN rows : all[k] = run[w].rows[k]
    BY OverValues
  <2> HIDE DEF rows, new, all
  <2>2. /\ DOMAIN all = (DOMAIN run[w].rows) \cup new
        /\ \A r \in new : all[r] = Pending
        /\ \A r \in DOMAIN run[w].rows : all[r] = run[w].rows[r]
    BY <1>2, <1>8, <2>1
  <2> QED BY <2>2 DEF all
<1> QED BY <1>6, <1>7, <1>9

LEMMA ViewOK ==
    ASSUME Typed, NEW w \in Worker
    PROVE  /\ IsRows(View(w))
           /\ DOMAIN View(w) = (DOMAIN queue) \cup DOMAIN run[w].rows
           /\ \A r \in DOMAIN run[w].rows : View(w)[r] = run[w].rows[r]
           /\ \A r \in (DOMAIN queue) \ DOMAIN run[w].rows : View(w)[r] = queue[r]
<1>1. IsRows(queue) /\ IsRows(run[w].rows)
  BY DEF Typed, TablesOK, RunOK
<1>2. IsRows(Over(run[w].rows, queue))
  BY <1>1, OverRows
<1>3. /\ DOMAIN Over(run[w].rows, queue) = (DOMAIN queue) \cup DOMAIN run[w].rows
      /\ \A r \in DOMAIN run[w].rows : Over(run[w].rows, queue)[r] = run[w].rows[r]
      /\ \A r \in (DOMAIN queue) \ DOMAIN run[w].rows :
            Over(run[w].rows, queue)[r] = queue[r]
  BY OverValues
<1> QED BY <1>2, <1>3 DEF View

-----------------------------------------------------------------------------
(* What the steps of a run do, field by field.                              *)

Others(w) == DOMAIN run' = Worker /\ \A x \in Worker \ {w} : run'[x] = run[x]

LEMMA StartEffect ==
    ASSUME Typed, NEW w \in Worker, Start(w)
    PROVE  /\ Others(w) /\ run[w] = Idle /\ run'[w].batch \subseteq Unprocessed
           /\ Whole(run'[w]) /\ run'[w].phase = "consume"
           /\ run'[w].done = {} /\ run'[w].rows = [r \in {} |-> Pending]
           /\ run'[w].todo = {} /\ run'[w].loaded = [r \in {} |-> Pending]
           /\ run'[w].toggle = {} /\ run'[w].outcome = "none"
           /\ run'[w].item = {}
           /\ UNCHANGED <<events, tables, active, enabled, accepted, aborts>>
<1> DEFINE batch == {e \in Unprocessed : Cardinality({k \in Unprocessed : k < e}) < BatchLimit}
<1>1. DOMAIN run = Worker /\ run[w] = Idle
  BY DEF Typed, RunOK, Start
<1>2. run' = [run EXCEPT ![w] = [Idle EXCEPT !.phase = "consume", !.batch = batch]]
  BY DEF Start
<1>3. batch \subseteq Unprocessed
  OBVIOUS
<1> HIDE DEF batch
<1>4. run'[w] = [Idle EXCEPT !.phase = "consume", !.batch = batch]
  BY <1>1, <1>2
<1>5. /\ Whole(run'[w]) /\ run'[w].phase = "consume" /\ run'[w].batch = batch
      /\ run'[w].done = {} /\ run'[w].rows = [r \in {} |-> Pending]
      /\ run'[w].todo = {} /\ run'[w].loaded = [r \in {} |-> Pending]
      /\ run'[w].toggle = {} /\ run'[w].outcome = "none" /\ run'[w].item = {}
  <2> DEFINE nothing == [r \in {} |-> Pending]
  <2>1. Idle = [phase |-> "idle", batch |-> {}, done |-> {}, rows |-> nothing, todo |-> {},
                loaded |-> nothing, toggle |-> {}, outcome |-> "none", item |-> {}]
    BY DEF Idle
  <2> HIDE DEF nothing
  <2>2. /\ Whole(run'[w]) /\ run'[w].phase = "consume" /\ run'[w].batch = batch
        /\ run'[w].done = {} /\ run'[w].rows = nothing
        /\ run'[w].todo = {} /\ run'[w].loaded = nothing
        /\ run'[w].toggle = {} /\ run'[w].outcome = "none" /\ run'[w].item = {}
    BY <1>4, <2>1 DEF Whole
  <2> QED BY <2>2 DEF nothing
<1>6. Others(w)
  BY <1>1, <1>2 DEF Others
<1> QED BY <1>1, <1>3, <1>5, <1>6 DEF Start

\* The templates that got a row are all that were wanted, or a condition failed
\* and the event is not done.
LEMMA ConsumeEffect ==
    ASSUME Typed, NEW w \in Worker, Consume(w)
    PROVE  \E e \in run[w].batch : \E asked \in SUBSET (Matching(e) \cap events[e].meets) :
              /\ Others(w) /\ run[w].phase = "consume"
              /\ Whole(run'[w]) /\ run'[w].phase = run[w].phase
              /\ run'[w].batch = run[w].batch \ {e}
              /\ run'[w].rows = Enqueued(w, e, asked)
              /\ run'[w].todo = run[w].todo
              /\ run'[w].loaded = run[w].loaded
              /\ run'[w].toggle = run[w].toggle
              /\ run'[w].outcome = run[w].outcome
              /\ run'[w].item = run[w].item
              /\ \/ /\ run'[w].done = run[w].done \cup {e}
                    /\ asked = Matching(e) \cap events[e].meets
                 \/ run'[w].done = run[w].done /\ Malformed # {}
              /\ UNCHANGED <<events, tables, active, enabled, accepted, aborts>>
<1>1. DOMAIN run = Worker /\ Whole(run[w])
  BY DEF Typed, RunOK
<1>0. run[w].phase = "consume" /\ UNCHANGED <<events, tables, active, enabled, accepted, aborts>>
  BY DEF Consume
<1>2. PICK e \in run[w].batch :
          \/ /\ Matching(e) \cap Malformed = {}
             /\ run' = [run EXCEPT ![w].batch = @ \ {e},
                    ![w].rows = Enqueued(w, e, (Matching(e) \cap events[e].meets) \ Malformed),
                    ![w].done = @ \cup {e}]
          \/ /\ Matching(e) \cap Malformed # {}
             /\ \E before \in SUBSET ((Matching(e) \cap events[e].meets) \ Malformed) :
                    run' = [run EXCEPT ![w].batch = @ \ {e}, ![w].rows = Enqueued(w, e, before)]
  BY DEF Consume, Oldest
<1>3. ASSUME NEW b, NEW rows, NEW done,
             run' = [run EXCEPT ![w].batch = b, ![w].rows = rows, ![w].done = done]
      PROVE  /\ Others(w)
             /\ Whole(run'[w]) /\ run'[w].phase = run[w].phase
             /\ run'[w].batch = b /\ run'[w].done = done
             /\ run'[w].rows = rows /\ run'[w].todo = run[w].todo
             /\ run'[w].loaded = run[w].loaded
             /\ run'[w].toggle = run[w].toggle
             /\ run'[w].outcome = run[w].outcome
             /\ run'[w].item = run[w].item
  BY <1>1, <1>3 DEF Whole, Others
<1>4. ASSUME NEW b, NEW rows,
             run' = [run EXCEPT ![w].batch = b, ![w].rows = rows]
      PROVE  /\ Others(w)
             /\ Whole(run'[w]) /\ run'[w].phase = run[w].phase
             /\ run'[w].batch = b /\ run'[w].done = run[w].done
             /\ run'[w].rows = rows /\ run'[w].todo = run[w].todo
             /\ run'[w].loaded = run[w].loaded
             /\ run'[w].toggle = run[w].toggle
             /\ run'[w].outcome = run[w].outcome
             /\ run'[w].item = run[w].item
  BY <1>1, <1>4 DEF Whole, Others
<1>5. CASE /\ Matching(e) \cap Malformed = {}
           /\ run' = [run EXCEPT ![w].batch = @ \ {e},
                  ![w].rows = Enqueued(w, e, (Matching(e) \cap events[e].meets) \ Malformed),
                  ![w].done = @ \cup {e}]
  <2> DEFINE asked == Matching(e) \cap events[e].meets
  <2>1. asked \ Malformed = asked
    BY <1>5
  <2>2. run' = [run EXCEPT ![w].batch = run[w].batch \ {e}, ![w].rows = Enqueued(w, e, asked),
                           ![w].done = run[w].done \cup {e}]
    BY <1>5, <2>1
  <2> DEFINE b == run[w].batch \ {e}
             rows == Enqueued(w, e, asked)
             done == run[w].done \cup {e}
  <2> HIDE DEF asked, b, rows, done
  <2>7. run' = [run EXCEPT ![w].batch = b, ![w].rows = rows, ![w].done = done]
    BY <2>2 DEF b, rows, done
  <2>8. /\ Others(w) /\ Whole(run'[w]) /\ run'[w].phase = run[w].phase
        /\ run'[w].batch = b /\ run'[w].done = done /\ run'[w].rows = rows
        /\ run'[w].todo = run[w].todo /\ run'[w].loaded = run[w].loaded
        /\ run'[w].toggle = run[w].toggle
        /\ run'[w].outcome = run[w].outcome /\ run'[w].item = run[w].item
    BY <1>3, <2>7
  <2>3. /\ Others(w) /\ Whole(run'[w]) /\ run'[w].phase = run[w].phase
        /\ run'[w].batch = run[w].batch \ {e}
        /\ run'[w].done = run[w].done \cup {e}
        /\ run'[w].rows = Enqueued(w, e, asked)
        /\ run'[w].todo = run[w].todo /\ run'[w].loaded = run[w].loaded
        /\ run'[w].toggle = run[w].toggle
        /\ run'[w].outcome = run[w].outcome /\ run'[w].item = run[w].item
    BY <2>8 DEF b, rows, done
  <2>4. run'[w].done = run[w].done \cup {e}
    BY <2>3
  <2>5. asked \in SUBSET (Matching(e) \cap events[e].meets)
    BY DEF asked
  <2>6. asked = Matching(e) \cap events[e].meets
    BY DEF asked
  <2> QED BY <1>0, <2>3, <2>4, <2>5, <2>6
<1>6. CASE /\ Matching(e) \cap Malformed # {}
           /\ \E before \in SUBSET ((Matching(e) \cap events[e].meets) \ Malformed) :
                 run' = [run EXCEPT ![w].batch = @ \ {e}, ![w].rows = Enqueued(w, e, before)]
  <2>1. PICK asked \in SUBSET ((Matching(e) \cap events[e].meets) \ Malformed) :
            run' = [run EXCEPT ![w].batch = run[w].batch \ {e}, ![w].rows = Enqueued(w, e, asked)]
    BY <1>6
  <2>2. /\ Others(w)
        /\ Whole(run'[w]) /\ run'[w].phase = run[w].phase
        /\ run'[w].batch = run[w].batch \ {e} /\ run'[w].done = run[w].done
        /\ run'[w].rows = Enqueued(w, e, asked)
        /\ run'[w].todo = run[w].todo /\ run'[w].loaded = run[w].loaded
        /\ run'[w].toggle = run[w].toggle
        /\ run'[w].outcome = run[w].outcome /\ run'[w].item = run[w].item
    BY <1>4, <2>1
  <2>3. run'[w].done = run[w].done /\ Malformed # {}
    BY <1>6, <2>2
  <2>4. asked \in SUBSET (Matching(e) \cap events[e].meets)
    OBVIOUS
  <2> QED BY <1>0, <2>2, <2>3, <2>4
<1> QED BY <1>2, <1>5, <1>6

LEMMA FetchEffect ==
    ASSUME Typed, NEW w \in Worker, Fetch(w)
    PROVE  \E taken \in SUBSET PendingRows(w) :
              /\ Others(w) /\ run[w].phase = "consume" /\ run[w].batch = {}
              /\ Whole(run'[w]) /\ run'[w].phase = "deliver"
              /\ run'[w].batch = run[w].batch /\ run'[w].done = run[w].done
              /\ run'[w].rows = run[w].rows /\ run'[w].todo = taken
              /\ run'[w].loaded = [r \in taken |-> View(w)[r]]
              /\ run'[w].toggle = run[w].toggle
              /\ run'[w].outcome = run[w].outcome
              /\ run'[w].item = run[w].item
              /\ UNCHANGED <<events, tables, active, enabled, accepted, aborts>>
<1>1. DOMAIN run = Worker /\ Whole(run[w])
  BY DEF Typed, RunOK
<1>2. PICK taken \in SUBSET PendingRows(w) :
          run' = [run EXCEPT ![w].phase = "deliver", ![w].todo = taken,
                             ![w].loaded = [r \in taken |-> View(w)[r]]]
  BY DEF Fetch
<1> DEFINE rows == [r \in taken |-> View(w)[r]]
<1>3. run' = [run EXCEPT ![w].phase = "deliver", ![w].todo = taken, ![w].loaded = rows]
  BY <1>2
<1>4. /\ run[w].phase = "consume" /\ run[w].batch = {}
      /\ UNCHANGED <<events, tables, active, enabled, accepted, aborts>>
  BY DEF Fetch
<1> HIDE DEF rows
<1>5. /\ Others(w)
      /\ Whole(run'[w]) /\ run'[w].phase = "deliver"
      /\ run'[w].batch = run[w].batch /\ run'[w].done = run[w].done
      /\ run'[w].rows = run[w].rows /\ run'[w].todo = taken
      /\ run'[w].loaded = rows /\ run'[w].toggle = run[w].toggle
      /\ run'[w].outcome = run[w].outcome /\ run'[w].item = run[w].item
  BY <1>1, <1>3 DEF Whole, Others
<1> QED BY <1>4, <1>5 DEF rows

\* A row with an outcome was the last one taken up; without one it is skipped.
LEMMA SendEffect ==
    ASSUME Typed, NEW w \in Worker, NEW r \in run[w].todo, Send(w, r)
    PROVE  /\ Others(w) /\ run[w].phase = "deliver" /\ run[w].item = {}
           /\ Whole(run'[w]) /\ run'[w].phase = run[w].phase
           /\ run'[w].batch = run[w].batch /\ run'[w].done = run[w].done
           /\ run'[w].rows = run[w].rows
           /\ run'[w].todo = run[w].todo \ {r}
           /\ run'[w].loaded = run[w].loaded
           /\ \/ run'[w].item = {r}
              \/ run'[w].item = {} /\ accepted' = accepted
           /\ accepted' \in {accepted, Accepted(Told(r))}
           /\ (run'[w].item = {r} /\ run'[w].outcome = "SENT" /\ r.template \in WhatsApp)
                 => accepted' = Accepted(Told(r))
           /\ UNCHANGED <<events, tables, active, enabled, aborts>>
<1> DEFINE toggle == IF run[w].toggle = {} THEN {enabled} ELSE run[w].toggle
<1>1. DOMAIN run = Worker /\ Whole(run[w])
  BY DEF Typed, RunOK
<1>2. /\ run[w].phase = "deliver" /\ run[w].item = {}
      /\ UNCHANGED <<events, tables, active, enabled, aborts>>
      /\ \/ /\ r.template \notin WhatsApp /\ accepted' = accepted
            /\ run' = [run EXCEPT ![w].toggle = toggle, ![w].item = {r},
                                  ![w].outcome = "SENT", ![w].todo = @ \ {r}]
         \/ /\ accepted' = accepted
            /\ run' = [run EXCEPT ![w].toggle = toggle, ![w].todo = @ \ {r}]
         \/ /\ accepted' = Accepted(Told(r))
            /\ run' = [run EXCEPT ![w].toggle = toggle, ![w].item = {r},
                                  ![w].outcome = "SENT", ![w].todo = @ \ {r}]
         \/ /\ accepted' \in {accepted, Accepted(Told(r))}
            /\ \E outcome \in {"RETRY", "FAILED"} :
                  run' = [run EXCEPT ![w].toggle = toggle, ![w].item = {r},
                                     ![w].outcome = outcome, ![w].todo = @ \ {r}]
  BY DEF Send
<1>3. ASSUME NEW outcome, NEW kept,
             run' = [run EXCEPT ![w].toggle = kept, ![w].item = {r},
                                ![w].outcome = outcome, ![w].todo = @ \ {r}]
      PROVE  /\ Others(w)
             /\ Whole(run'[w]) /\ run'[w].phase = run[w].phase
             /\ run'[w].batch = run[w].batch /\ run'[w].done = run[w].done
             /\ run'[w].rows = run[w].rows
             /\ run'[w].todo = run[w].todo \ {r}
             /\ run'[w].loaded = run[w].loaded /\ run'[w].toggle = kept
             /\ run'[w].outcome = outcome /\ run'[w].item = {r}
  BY <1>1, <1>3 DEF Whole, Others
<1>4. ASSUME NEW kept, run' = [run EXCEPT ![w].toggle = kept, ![w].todo = @ \ {r}]
      PROVE  /\ Others(w)
             /\ Whole(run'[w]) /\ run'[w].phase = run[w].phase
             /\ run'[w].batch = run[w].batch /\ run'[w].done = run[w].done
             /\ run'[w].rows = run[w].rows
             /\ run'[w].todo = run[w].todo \ {r}
             /\ run'[w].loaded = run[w].loaded /\ run'[w].toggle = kept
             /\ run'[w].outcome = run[w].outcome
             /\ run'[w].item = run[w].item
  BY <1>1, <1>4 DEF Whole, Others
<1> HIDE DEF toggle
<1>5. CASE /\ accepted' = accepted
           /\ run' = [run EXCEPT ![w].toggle = toggle, ![w].todo = @ \ {r}]
  <2>1. /\ Others(w)
        /\ Whole(run'[w]) /\ run'[w].phase = run[w].phase
        /\ run'[w].batch = run[w].batch /\ run'[w].done = run[w].done
        /\ run'[w].rows = run[w].rows /\ run'[w].todo = run[w].todo \ {r}
        /\ run'[w].loaded = run[w].loaded /\ run'[w].toggle = toggle
        /\ run'[w].outcome = run[w].outcome /\ run'[w].item = run[w].item
    BY <1>4, <1>5
  <2>2. /\ run'[w].toggle = toggle /\ run'[w].outcome = run[w].outcome
        /\ run'[w].item = run[w].item
    BY <2>1
  <2>3. run'[w].item = {} /\ {r} # {}
    BY <1>2, <2>2
  <2> QED BY <1>2, <1>5, <2>1, <2>2, <2>3
<1>6. CASE /\ accepted' \in {accepted, Accepted(Told(r))}
           /\ \E outcome \in {"RETRY", "FAILED"} :
                 run' = [run EXCEPT ![w].toggle = toggle, ![w].item = {r},
                                    ![w].outcome = outcome, ![w].todo = @ \ {r}]
  <2>1. PICK outcome \in {"RETRY", "FAILED"} :
            run' = [run EXCEPT ![w].toggle = toggle, ![w].item = {r},
                               ![w].outcome = outcome, ![w].todo = @ \ {r}]
    BY <1>6
  <2>2. /\ Others(w)
        /\ Whole(run'[w]) /\ run'[w].phase = run[w].phase
        /\ run'[w].batch = run[w].batch /\ run'[w].done = run[w].done
        /\ run'[w].rows = run[w].rows /\ run'[w].todo = run[w].todo \ {r}
        /\ run'[w].loaded = run[w].loaded /\ run'[w].toggle = toggle
        /\ run'[w].outcome = outcome /\ run'[w].item = {r}
    BY <1>3, <2>1
  <2>3. /\ run'[w].toggle = toggle /\ run'[w].outcome = outcome /\ outcome # "SENT"
        /\ run'[w].item = {r}
    BY <2>2
  <2> QED BY <1>2, <1>6, <2>2, <2>3
<1>7. CASE /\ \/ r.template \notin WhatsApp /\ accepted' = accepted
              \/ accepted' = Accepted(Told(r))
           /\ run' = [run EXCEPT ![w].toggle = toggle, ![w].item = {r},
                                 ![w].outcome = "SENT", ![w].todo = @ \ {r}]
  <2>1. /\ Others(w)
        /\ Whole(run'[w]) /\ run'[w].phase = run[w].phase
        /\ run'[w].batch = run[w].batch /\ run'[w].done = run[w].done
        /\ run'[w].rows = run[w].rows /\ run'[w].todo = run[w].todo \ {r}
        /\ run'[w].loaded = run[w].loaded /\ run'[w].toggle = toggle
        /\ run'[w].outcome = "SENT" /\ run'[w].item = {r}
    BY <1>3, <1>7
  <2>2. /\ run'[w].toggle = toggle /\ run'[w].outcome = "SENT" /\ run'[w].item = {r}
    BY <2>1
  <2> QED BY <1>2, <1>7, <2>1, <2>2
<1> QED BY <1>2, <1>5, <1>6, <1>7

LEMMA SettleEffect ==
    ASSUME Typed, NEW w \in Worker, NEW r \in run[w].item, Settle(w, r)
    PROVE  /\ Others(w)
           /\ Whole(run'[w]) /\ run'[w].phase = run[w].phase
           /\ run'[w].batch = run[w].batch /\ run'[w].done = run[w].done
           /\ run'[w].rows = Over([k \in {r} |-> Marked(w, r)], run[w].rows)
           /\ run'[w].todo = run[w].todo /\ run'[w].loaded = run[w].loaded
           /\ run'[w].toggle = run[w].toggle /\ run'[w].outcome = "none"
           /\ run'[w].item = {}
           /\ UNCHANGED <<events, tables, active, enabled, accepted, aborts>>
<1> DEFINE rows == Over([k \in {r} |-> Marked(w, r)], run[w].rows)
<1>1. DOMAIN run = Worker /\ Whole(run[w])
  BY DEF Typed, RunOK
<1>2. /\ run' = [run EXCEPT ![w].rows = rows, ![w].outcome = "none", ![w].item = {}]
      /\ UNCHANGED <<events, tables, active, enabled, accepted, aborts>>
  BY DEF Settle
<1> HIDE DEF rows
<1>3. /\ Others(w)
      /\ Whole(run'[w]) /\ run'[w].phase = run[w].phase
      /\ run'[w].batch = run[w].batch /\ run'[w].done = run[w].done
      /\ run'[w].rows = rows /\ run'[w].todo = run[w].todo
      /\ run'[w].loaded = run[w].loaded /\ run'[w].toggle = run[w].toggle
      /\ run'[w].outcome = "none" /\ run'[w].item = {}
  BY <1>1, <1>2 DEF Whole, Others
<1> QED BY <1>2, <1>3 DEF rows

\* A run that ends leaves its changes in the tables, or none.
LEMMA EndEffect ==
    ASSUME Typed, NEW w \in Worker, Commit(w) \/ Abort(w)
    PROVE  /\ Others(w) /\ run'[w] = Idle
           /\ UNCHANGED <<events, active, enabled, accepted>>
           /\ \/ /\ run[w].phase = "deliver" /\ run[w].todo = {} /\ run[w].item = {}
                 /\ queue' = View(w) /\ consumed' = consumed \cup run[w].done
                 /\ aborts' = aborts
              \/ queue' = queue /\ consumed' = consumed /\ aborts' = aborts + 1
<1>1. DOMAIN run = Worker
  BY DEF Typed
<1>2. run' = [run EXCEPT ![w] = Idle]
  BY DEF Commit, Abort
<1>3. Others(w) /\ run'[w] = Idle
  BY <1>1, <1>2 DEF Others
<1> QED BY <1>3 DEF Commit, Abort, tables

-----------------------------------------------------------------------------
(* Every step keeps the types.                                              *)

LEMMA TypedImpliesTypeOK == Typed => TypeOK
<1> SUFFICES ASSUME Typed
             PROVE  TypeOK
  OBVIOUS
<1>1. /\ consumed \subseteq Events
      /\ DOMAIN queue \subseteq Rows
      /\ \A r \in DOMAIN queue :
            /\ queue[r].status \in {"PENDING", "SENT", "FAILED"}
            /\ queue[r].retries \in 0..MaxRetries
  BY DEF Typed, TablesOK, IsRows, RowStates
<1>2. ASSUME NEW w \in Worker
      PROVE  /\ run[w].done \subseteq Events
             /\ run[w].phase \in {"idle", "consume", "deliver"}
             /\ run[w].todo \subseteq DOMAIN View(w)
  <2>1. DOMAIN View(w) = (DOMAIN queue) \cup DOMAIN run[w].rows
    BY ViewOK
  <2> QED BY <2>1 DEF Typed, RunOK
<1> QED BY <1>1, <1>2 DEF TypeOK

LEMMA IdleOK ==
    ASSUME NEW w \in Worker, run[w] = Idle
    PROVE  RunOK(w)
<1>1. IsRows([r \in {} |-> Pending])
  BY NoRows
<1> QED BY <1>1 DEF RunOK, Whole, Idle

LEMMA InitTyped == Init => Typed
<1> SUFFICES ASSUME Init
             PROVE  Typed
  OBVIOUS
<1>1. TablesOK
  <2>1. IsRows(queue)
    BY NoRows DEF Init
  <2> QED BY <2>1, NotificationAssumption DEF Init, TablesOK, Events
<1>2. DOMAIN run = Worker /\ \A w \in Worker : RunOK(w)
  BY IdleOK DEF Init
<1> QED BY <1>1, <1>2 DEF Typed

\* A step of one run, which leaves the rows of the queue where they are.
LEMMA OneRun ==
    ASSUME Typed, NEW w \in Worker, Others(w), RunOK(w)', TablesOK',
           events' = events, DOMAIN queue \subseteq DOMAIN queue'
    PROVE  Typed'
<1>1. ASSUME NEW x \in Worker, x # w
      PROVE  RunOK(x)'
  <2>1. run'[x] = run[x] /\ RunOK(x)
    BY <1>1 DEF Others, Typed
  <2> QED BY <2>1 DEF RunOK, Events
<1>2. \A x \in Worker : RunOK(x)'
  BY <1>1
<1> QED BY <1>2 DEF Typed, Others

LEMMA TablesKept ==
    ASSUME Typed, UNCHANGED <<events, tables, active, accepted, aborts>>
    PROVE  TablesOK' /\ DOMAIN queue \subseteq DOMAIN queue'
BY DEF Typed, TablesOK, Events, tables

LEMMA StartTyped ==
    ASSUME Typed, NEW w \in Worker, Start(w)
    PROVE  Typed'
<1>1. TablesOK' /\ DOMAIN queue \subseteq DOMAIN queue' /\ events' = events
  BY StartEffect, TablesKept
<1>2. /\ Others(w) /\ run'[w].batch \subseteq Unprocessed
      /\ Whole(run'[w]) /\ run'[w].phase = "consume" /\ run'[w].done = {}
      /\ run'[w].rows = [r \in {} |-> Pending] /\ run'[w].todo = {}
      /\ run'[w].loaded = [r \in {} |-> Pending] /\ run'[w].toggle = {}
      /\ run'[w].outcome = "none" /\ run'[w].item = {}
  BY StartEffect
<1>3. IsRows([r \in {} |-> Pending])
  BY NoRows
<1>4. RunOK(w)'
  BY <1>1, <1>2, <1>3 DEF RunOK, Whole, Unprocessed, Events
<1> QED BY <1>1, <1>2, <1>4, OneRun

LEMMA ConsumeTyped ==
    ASSUME Typed, NEW w \in Worker, Consume(w)
    PROVE  Typed'
<1>1. PICK e, asked :
          /\ e \in run[w].batch /\ asked \in SUBSET (Matching(e) \cap events[e].meets)
          /\ Others(w) /\ run[w].phase = "consume"
          /\ Whole(run'[w]) /\ run'[w].phase = run[w].phase
          /\ run'[w].batch = run[w].batch \ {e}
          /\ run'[w].rows = Enqueued(w, e, asked)
          /\ run'[w].todo = run[w].todo /\ run'[w].loaded = run[w].loaded
          /\ run'[w].toggle = run[w].toggle
          /\ run'[w].outcome = run[w].outcome /\ run'[w].item = run[w].item
          /\ run'[w].done \in {run[w].done, run[w].done \cup {e}}
          /\ UNCHANGED <<events, tables, active, enabled, accepted, aborts>>
  BY ConsumeEffect
<1>2. TablesOK' /\ DOMAIN queue \subseteq DOMAIN queue' /\ events' = events
  BY <1>1, TablesKept
<1>3. RunOK(w) /\ e \in Events
  BY <1>1 DEF Typed, RunOK
<1>4. asked \subseteq Template
  BY <1>1 DEF Matching, Typed, TablesOK
<1>5. /\ IsRows(Enqueued(w, e, asked))
      /\ DOMAIN run[w].rows \subseteq DOMAIN Enqueued(w, e, asked)
  <2>1. e \in Events /\ asked \in SUBSET Template
    BY <1>3, <1>4
  <2>2. /\ IsRows(Enqueued(w, e, asked))
        /\ DOMAIN Enqueued(w, e, asked)
             = (DOMAIN run[w].rows) \cup {NewRow(e, t) : t \in asked}
    BY <2>1, NewRowsOK
  <2> QED BY <2>2
<1>6. RunOK(w)'
  <2> DEFINE rows == Enqueued(w, e, asked)
  <2> HIDE DEF rows
  <2>1. /\ Whole(run'[w]) /\ run'[w].phase = run[w].phase
        /\ run'[w].batch = run[w].batch \ {e} /\ run'[w].rows = rows
        /\ run'[w].todo = run[w].todo /\ run'[w].loaded = run[w].loaded
        /\ run'[w].toggle = run[w].toggle
        /\ run'[w].outcome = run[w].outcome /\ run'[w].item = run[w].item
        /\ IsRows(rows) /\ DOMAIN run[w].rows \subseteq DOMAIN rows
    BY <1>1, <1>5 DEF rows
  <2> QED BY <1>1, <1>2, <1>3, <2>1 DEF RunOK, Whole, Events
<1> QED BY <1>1, <1>2, <1>6, OneRun

LEMMA FetchTyped ==
    ASSUME Typed, NEW w \in Worker, Fetch(w)
    PROVE  Typed'
<1>1. PICK taken \in SUBSET PendingRows(w) :
          /\ Others(w)
          /\ Whole(run'[w]) /\ run'[w].phase = "deliver"
          /\ run'[w].batch = run[w].batch /\ run'[w].done = run[w].done
          /\ run'[w].rows = run[w].rows /\ run'[w].todo = taken
          /\ run'[w].loaded = [r \in taken |-> View(w)[r]]
          /\ run'[w].toggle = run[w].toggle
          /\ run'[w].outcome = run[w].outcome /\ run'[w].item = run[w].item
          /\ run[w].phase = "consume"
          /\ UNCHANGED <<events, tables, active, enabled, accepted, aborts>>
  BY FetchEffect
<1>2. TablesOK' /\ DOMAIN queue \subseteq DOMAIN queue' /\ events' = events /\ queue' = queue
  BY <1>1, TablesKept DEF tables
<1>3. RunOK(w)
  BY DEF Typed
<1> DEFINE rows == [r \in taken |-> View(w)[r]]
<1>4. /\ IsRows(rows) /\ DOMAIN rows = taken
      /\ \A r \in taken : rows[r].status = "PENDING"
      /\ taken \subseteq (DOMAIN queue) \cup DOMAIN run[w].rows
  <2>1. /\ IsRows(View(w)) /\ taken \subseteq DOMAIN View(w)
        /\ \A r \in taken : View(w)[r].status = "PENDING"
        /\ DOMAIN View(w) = (DOMAIN queue) \cup DOMAIN run[w].rows
    BY ViewOK DEF PendingRows
  <2>2. IsFiniteSet(taken)
    BY <2>1, FS_Subset DEF IsRows
  <2> QED BY <2>1, <2>2 DEF IsRows
<1>5. RunOK(w)'
  <2> HIDE DEF rows
  <2>1. /\ Whole(run'[w]) /\ run'[w].phase = "deliver"
        /\ run'[w].batch = run[w].batch /\ run'[w].done = run[w].done
        /\ run'[w].rows = run[w].rows /\ run'[w].todo = taken
        /\ run'[w].loaded = rows /\ run'[w].toggle = run[w].toggle
        /\ run'[w].outcome = run[w].outcome /\ run'[w].item = run[w].item
    BY <1>1 DEF rows
  <2> QED BY <1>1, <1>2, <1>3, <1>4, <2>1 DEF RunOK, Whole, Events
<1> QED BY <1>1, <1>2, <1>5, OneRun

\* What the provider took only grows.
LEMMA AcceptedGrows ==
    ASSUME Typed, NEW k, accepted' \in {accepted, Accepted(k)}
    PROVE  /\ \A m \in DOMAIN accepted' : accepted'[m] \in Nat
           /\ \A m : Times(m) \in Nat /\ Times(m)' \in Nat /\ Times(m)' >= Times(m)
           /\ \A m : Times(m)' = Times(m) \/ (m = k /\ Times(m)' = Times(m) + 1)
           /\ accepted' = Accepted(k) => Times(k)' = Times(k) + 1
<1>1. \A m \in DOMAIN accepted : accepted[m] \in Nat
  BY DEF Typed, TablesOK
<1>2. \A m : Times(m) \in Nat
  BY <1>1 DEF Times
<1>3. CASE accepted' = accepted /\ accepted' # Accepted(k)
  BY <1>1, <1>2, <1>3 DEF Times
<1>4. CASE accepted' = Accepted(k)
  <2> DEFINE more == [x \in {k} |-> Times(k) + 1]
  <2>1. DOMAIN more = {k} /\ more[k] = Times(k) + 1
    OBVIOUS
  <2>2. accepted' = Over(more, accepted)
    BY <1>4 DEF Accepted
  <2> HIDE DEF more
  <2>5. /\ DOMAIN Over(more, accepted) = (DOMAIN accepted) \cup (DOMAIN more)
        /\ \A x \in DOMAIN more : Over(more, accepted)[x] = more[x]
        /\ \A x \in (DOMAIN accepted) \ DOMAIN more : Over(more, accepted)[x] = accepted[x]
    BY OverValues
  <2>3. /\ DOMAIN accepted' = (DOMAIN accepted) \cup {k} /\ accepted'[k] = Times(k) + 1
        /\ \A x \in (DOMAIN accepted) \ {k} : accepted'[x] = accepted[x]
    BY <2>1, <2>2, <2>5
  <2>4. \A m : Times(m)' = IF m = k THEN Times(k) + 1 ELSE Times(m)
    BY <2>3 DEF Times
  <2> QED BY <1>1, <1>2, <2>3, <2>4
<1> QED BY <1>3, <1>4

LEMMA SendTyped ==
    ASSUME Typed, NEW w \in Worker, NEW r \in run[w].todo, Send(w, r)
    PROVE  Typed'
<1>1. /\ Others(w) /\ run[w].phase = "deliver"
      /\ Whole(run'[w]) /\ run'[w].phase = run[w].phase
      /\ run'[w].batch = run[w].batch /\ run'[w].done = run[w].done
      /\ run'[w].rows = run[w].rows /\ run'[w].todo = run[w].todo \ {r}
      /\ run'[w].loaded = run[w].loaded
      /\ run'[w].item \subseteq {r}
      /\ accepted' \in {accepted, Accepted(Told(r))}
      /\ UNCHANGED <<events, tables, active, enabled, aborts>>
  BY SendEffect
<1>2. \A m \in DOMAIN accepted' : accepted'[m] \in Nat
  BY <1>1, AcceptedGrows
<1>3. TablesOK' /\ DOMAIN queue \subseteq DOMAIN queue' /\ events' = events
  BY <1>1, <1>2 DEF Typed, TablesOK, Events, tables
<1>4. RunOK(w) /\ queue' = queue
  BY <1>1 DEF Typed, tables
<1>5. RunOK(w)'
  BY <1>1, <1>3, <1>4 DEF RunOK, Whole, Events
<1> QED BY <1>1, <1>3, <1>5, OneRun

\* What a row becomes is a row; a retry leaves one try at least.
LEMMA MarkedOK ==
    ASSUME Typed, NEW w \in Worker, NEW r \in run[w].item
    PROVE  /\ r \in DOMAIN View(w)
           /\ Marked(w, r) \in RowStates
           /\ Marked(w, r).status = "PENDING" => Marked(w, r).retries < MaxRetries
<1>1. r \in DOMAIN run[w].loaded /\ r \in DOMAIN View(w)
  BY ViewOK DEF Typed, RunOK
<1>2. run[w].loaded[r] \in RowStates /\ run[w].loaded[r].retries < MaxRetries
  BY <1>1 DEF Typed, RunOK, IsRows
<1>3. /\ View(w)[r] \in RowStates
      /\ View(w)[r].status = "PENDING" => View(w)[r].retries < MaxRetries
  BY <1>1, ViewOK DEF IsRows
<1> DEFINE retries == run[w].loaded[r].retries + 1
           row == View(w)[r]
<1>4. retries \in 0 .. MaxRetries /\ MaxRetries \in Nat
  BY <1>2, NotificationAssumption DEF RowStates
<1>5. Marked(w, r) = IF run[w].outcome = "SENT" THEN [row EXCEPT !.status = "SENT"]
                     ELSE IF run[w].outcome = "FAILED" \/ retries >= MaxRetries
                          THEN [status |-> "FAILED", retries |-> retries]
                          ELSE [row EXCEPT !.retries = retries]
  BY DEF Marked
<1> HIDE DEF retries, row
<1>6. row \in RowStates /\ (row.status = "PENDING" => row.retries < MaxRetries)
  BY <1>3 DEF row
<1>7. CASE run[w].outcome = "SENT"
  <2>1. Marked(w, r) = [row EXCEPT !.status = "SENT"]
    BY <1>4, <1>5, <1>7
  <2> QED BY <1>1, <1>6, <2>1 DEF RowStates
<1>8. CASE run[w].outcome # "SENT" /\ (run[w].outcome = "FAILED" \/ retries >= MaxRetries)
  <2>1. Marked(w, r) = [status |-> "FAILED", retries |-> retries]
    BY <1>4, <1>5, <1>8
  <2> QED BY <1>1, <1>4, <2>1 DEF RowStates
<1>9. CASE run[w].outcome # "SENT" /\ run[w].outcome # "FAILED" /\ ~ (retries >= MaxRetries)
  <2>1. Marked(w, r) = [row EXCEPT !.retries = retries]
    BY <1>4, <1>5, <1>9
  <2>2. retries < MaxRetries
    BY <1>4, <1>9
  <2> QED BY <1>1, <1>4, <1>6, <2>1, <2>2 DEF RowStates
<1> QED BY <1>7, <1>8, <1>9

LEMMA SettleTyped ==
    ASSUME Typed, NEW w \in Worker, NEW r \in run[w].item, Settle(w, r)
    PROVE  Typed'
<1> DEFINE mark == [k \in {r} |-> Marked(w, r)]
           rows == Over(mark, run[w].rows)
<1>1. /\ Others(w)
      /\ Whole(run'[w]) /\ run'[w].phase = run[w].phase
      /\ run'[w].batch = run[w].batch /\ run'[w].done = run[w].done
      /\ run'[w].rows = rows /\ run'[w].todo = run[w].todo
      /\ run'[w].loaded = run[w].loaded /\ run'[w].toggle = run[w].toggle
      /\ run'[w].outcome = "none" /\ run'[w].item = {}
      /\ UNCHANGED <<events, tables, active, enabled, accepted, aborts>>
  BY SettleEffect
<1>2. TablesOK' /\ DOMAIN queue \subseteq DOMAIN queue' /\ events' = events /\ queue' = queue
  BY <1>1, TablesKept DEF tables
<1>3. RunOK(w)
  BY DEF Typed
<1>4. IsRows(mark)
  <2>1. DOMAIN mark = {r} /\ mark[r] = Marked(w, r)
    OBVIOUS
  <2>2. r \in Rows
    BY MarkedOK, ViewOK DEF IsRows
  <2>3. /\ Marked(w, r) \in RowStates
        /\ Marked(w, r).status = "PENDING" => Marked(w, r).retries < MaxRetries
    BY MarkedOK
  <2>4. IsFiniteSet({r})
    BY FS_Singleton
  <2> HIDE DEF mark
  <2> QED BY <2>1, <2>2, <2>3, <2>4 DEF IsRows
<1>5. IsRows(rows) /\ DOMAIN run[w].rows \subseteq DOMAIN rows
  <2>1. IsRows(run[w].rows)
    BY <1>3 DEF RunOK
  <2>2. IsRows(Over(mark, run[w].rows))
    BY <1>4, <2>1, OverRows
  <2>3. DOMAIN Over(mark, run[w].rows) = (DOMAIN run[w].rows) \cup (DOMAIN mark)
    BY OverValues
  <2> QED BY <2>2, <2>3
<1>7. run[w].phase = "deliver"
  BY <1>3 DEF RunOK, Idle
<1>6. RunOK(w)'
  <2> HIDE DEF rows
  <2> QED BY <1>1, <1>2, <1>3, <1>5, <1>7 DEF RunOK, Whole, Events
<1> QED BY <1>1, <1>2, <1>6, OneRun

LEMMA EndTyped ==
    ASSUME Typed, NEW w \in Worker, Commit(w) \/ Abort(w)
    PROVE  Typed'
<1>1. /\ Others(w) /\ run'[w] = Idle
      /\ UNCHANGED <<events, active, enabled, accepted>>
      /\ \/ /\ queue' = View(w) /\ consumed' = consumed \cup run[w].done
            /\ aborts' = aborts
         \/ queue' = queue /\ consumed' = consumed /\ aborts' = aborts + 1
  BY EndEffect
<1>2. /\ IsRows(View(w)) /\ IsRows(queue) /\ run[w].done \subseteq Events
      /\ DOMAIN queue \subseteq DOMAIN View(w)
  BY ViewOK DEF Typed, TablesOK, RunOK
<1>3. IsRows(queue') /\ DOMAIN queue \subseteq DOMAIN queue'
  BY <1>1, <1>2
<1>4. consumed' \subseteq Events /\ aborts' \in Nat /\ events' = events
  BY <1>1, <1>2 DEF Typed, TablesOK
<1>5. TablesOK'
  BY <1>1, <1>3, <1>4 DEF Typed, TablesOK, Events
<1>6. RunOK(w)'
  BY <1>1, NoRows DEF RunOK, Whole, Idle
<1> QED BY <1>1, <1>3, <1>4, <1>5, <1>6, OneRun

\* Producers and operators add events and touch no run.
LEMMA OutsideEffect ==
    ASSUME Typed, \/ \E type \in Type, meets \in SUBSET Template : Emit(type, meets)
                  \/ Toggle
                  \/ \E t \in Managed : Activate(t)
    PROVE  /\ Typed'
           /\ Events \subseteq Events' /\ \A e \in Events : events'[e] = events[e]
           /\ UNCHANGED <<tables, run, accepted, aborts>>
<1>1. /\ events \in Seq([type: Type, meets: SUBSET Template]) /\ Len(events) <= MaxEvents
      /\ active \subseteq Template /\ Template \ Managed \subseteq active
  BY DEF Typed, TablesOK
<1>2. /\ events' \in Seq([type: Type, meets: SUBSET Template]) /\ Len(events') <= MaxEvents
      /\ Events \subseteq Events' /\ \A e \in Events : events'[e] = events[e]
      /\ active' \subseteq Template /\ Template \ Managed \subseteq active'
      /\ UNCHANGED <<tables, run, accepted, aborts>>
  <2>1. CASE \E type \in Type, meets \in SUBSET Template : Emit(type, meets)
    <3>1. PICK type \in Type, meets \in SUBSET Template : Emit(type, meets)
      BY <2>1
    <3> DEFINE event == [type |-> type, meets |-> meets]
    <3>2. event \in [type: Type, meets: SUBSET Template]
      OBVIOUS
    <3>3. /\ events' = Append(events, event) /\ Len(events) < MaxEvents
          /\ UNCHANGED <<tables, active, run, accepted, aborts>>
      BY <3>1 DEF Emit
    <3> HIDE DEF event
    <3>4. /\ events' \in Seq([type: Type, meets: SUBSET Template])
          /\ Len(events') = Len(events) + 1 /\ DOMAIN events' = 1 .. Len(events) + 1
          /\ DOMAIN events = 1 .. Len(events) /\ Len(events) \in Nat
          /\ \A e \in 1 .. Len(events) : events'[e] = events[e]
      BY <1>1, <3>2, <3>3
    <3> QED BY <1>1, <3>3, <3>4, NotificationAssumption DEF Events
  <2>2. CASE Toggle
    BY <1>1, <2>2 DEF Toggle, Events
  <2>3. CASE \E t \in Managed : Activate(t)
    BY <1>1, <2>3, NotificationAssumption DEF Activate, Events
  <2> QED BY <2>1, <2>2, <2>3
<1>3. TablesOK'
  BY <1>2 DEF Typed, TablesOK, tables
<1>4. \A w \in Worker : RunOK(w)'
  BY <1>2 DEF Typed, RunOK, tables
<1> QED BY <1>2, <1>3, <1>4 DEF Typed

LEMMA NextTyped == Typed /\ [Next]_vars => Typed'
<1> SUFFICES ASSUME Typed, [Next]_vars
             PROVE  Typed'
  OBVIOUS
<1>1. CASE \/ \E type \in Type, meets \in SUBSET Template : Emit(type, meets)
           \/ Toggle
           \/ \E t \in Managed : Activate(t)
  BY <1>1, OutsideEffect
<1>2. ASSUME NEW w \in Worker, Step(w) \/ Abort(w)
      PROVE  Typed'
  BY <1>2, StartTyped, ConsumeTyped, FetchTyped, SendTyped, SettleTyped, EndTyped DEF Step
<1>3. CASE UNCHANGED vars
  BY <1>3 DEF vars, tables, Typed, TablesOK, RunOK, Events
<1> QED BY <1>1, <1>2, <1>3 DEF Next

(* The tables and the runs keep their shape: no row is ever tried more      *)
(* often than max_retries, and a run delivers only rows it sees.            *)
THEOREM TypeCorrect == Spec => []TypeOK
<1> QED BY InitTyped, NextTyped, TypedImpliesTypeOK, PTL DEF Spec

-----------------------------------------------------------------------------
(* No message is lost.                                                      *)

Asked(e, t) == TypeOf[t] = events[e].type /\ t \in events[e].meets

\* What a run will mark as consumed, it has queued.
DoneWasQueued ==
    \A w \in Worker : \A e \in run[w].done, t \in Template \ Managed :
        Asked(e, t) => \E r \in DOMAIN run[w].rows : Told(r) = <<e, t>>

LEMMA QueuedKept ==
    ASSUME Typed, ConsumedWasQueued, DoneWasQueued, NEW w \in Worker, Others(w),
           consumed' = consumed, events' = events, DOMAIN queue \subseteq DOMAIN queue',
           run'[w].done = {} \/ (/\ run'[w].done = run[w].done
                                /\ DOMAIN run[w].rows \subseteq DOMAIN run'[w].rows)
    PROVE  ConsumedWasQueued' /\ DoneWasQueued'
<1>1. ConsumedWasQueued'
  BY DEF ConsumedWasQueued
<1>2. ASSUME NEW x \in Worker, NEW e \in run'[x].done, NEW t \in Template \ Managed,
             Asked(e, t)
      PROVE  \E r \in DOMAIN run'[x].rows : Told(r) = <<e, t>>
  <2>1. e \in run[x].done /\ DOMAIN run[x].rows \subseteq DOMAIN run'[x].rows
    BY DEF Others
  <2>2. PICK r \in DOMAIN run[x].rows : Told(r) = <<e, t>>
    BY <1>2, <2>1 DEF DoneWasQueued
  <2> QED BY <2>1, <2>2
<1> QED BY <1>1, <1>2 DEF DoneWasQueued, Asked

LEMMA ConsumeQueued ==
    ASSUME Typed, ConsumedWasQueued, DoneWasQueued, NEW w \in Worker, Consume(w)
    PROVE  ConsumedWasQueued' /\ DoneWasQueued'
<1>1. PICK e, asked :
          /\ e \in run[w].batch /\ asked \in SUBSET (Matching(e) \cap events[e].meets)
          /\ Others(w)
          /\ Whole(run'[w]) /\ run'[w].phase = run[w].phase
          /\ run'[w].batch = run[w].batch \ {e}
          /\ run'[w].rows = Enqueued(w, e, asked)
          /\ run'[w].todo = run[w].todo /\ run'[w].loaded = run[w].loaded
          /\ run'[w].toggle = run[w].toggle
          /\ run'[w].outcome = run[w].outcome /\ run'[w].item = run[w].item
          /\ \/ /\ run'[w].done = run[w].done \cup {e}
                /\ asked = Matching(e) \cap events[e].meets
             \/ run'[w].done = run[w].done
          /\ UNCHANGED <<events, tables, active, enabled, accepted, aborts>>
  BY ConsumeEffect
<1>2. e \in Events /\ asked \in SUBSET Template
  BY <1>1 DEF Typed, RunOK, TablesOK, Matching
<1>3. DOMAIN run'[w].rows = (DOMAIN run[w].rows) \cup {NewRow(e, t) : t \in asked}
  <2>1. run'[w].rows = Enqueued(w, e, asked)
    <3> DEFINE rows == Enqueued(w, e, asked)
    <3> HIDE DEF rows
    <3>1. /\ Whole(run'[w]) /\ run'[w].phase = run[w].phase
          /\ run'[w].batch = run[w].batch \ {e} /\ run'[w].rows = rows
          /\ run'[w].todo = run[w].todo /\ run'[w].loaded = run[w].loaded
          /\ run'[w].toggle = run[w].toggle
          /\ run'[w].outcome = run[w].outcome /\ run'[w].item = run[w].item
      BY <1>1 DEF rows
    <3>2. run'[w].rows = rows
      BY <3>1
    <3> QED BY <3>2 DEF rows
  <2> QED BY <1>2, <2>1, NewRowsOK
<1>4. CASE run'[w].done = run[w].done
  BY <1>1, <1>3, <1>4, QueuedKept DEF tables
<1>5. CASE /\ run'[w].done = run[w].done \cup {e}
           /\ asked = Matching(e) \cap events[e].meets
  <2>1. ConsumedWasQueued'
    BY <1>1 DEF ConsumedWasQueued, tables
  <2>2. ASSUME NEW x \in Worker, NEW k \in run'[x].done, NEW t \in Template \ Managed,
               Asked(k, t)
        PROVE  \E r \in DOMAIN run'[x].rows : Told(r) = <<k, t>>
    <3>1. CASE k \in run[x].done
      <4>1. PICK r \in DOMAIN run[x].rows : Told(r) = <<k, t>>
        BY <2>2, <3>1 DEF DoneWasQueued
      <4>2. r \in DOMAIN run'[x].rows
        BY <1>1, <1>3 DEF Others
      <4> QED BY <4>1, <4>2
    <3>2. CASE x = w /\ k = e
      <4>1. t \in active
        BY DEF Typed, TablesOK
      <4>2. t \in asked
        BY <1>5, <2>2, <3>2, <4>1 DEF Asked, Matching
      <4>3. Told(NewRow(e, t)) = <<e, t>> /\ NewRow(e, t) \in DOMAIN run'[w].rows
        BY <1>2, <1>3, <4>2, Fresh DEF Told
      <4> QED BY <3>2, <4>3
    <3> QED BY <1>1, <1>5, <3>1, <3>2 DEF Others
  <2> QED BY <1>1, <2>1, <2>2 DEF DoneWasQueued, Asked
<1> QED BY <1>1, <1>4, <1>5

LEMMA EndQueued ==
    ASSUME Typed, ConsumedWasQueued, DoneWasQueued, NEW w \in Worker, Commit(w) \/ Abort(w)
    PROVE  ConsumedWasQueued' /\ DoneWasQueued'
<1>1. /\ Others(w) /\ run'[w] = Idle /\ events' = events
      /\ \/ queue' = View(w) /\ consumed' = consumed \cup run[w].done
         \/ queue' = queue /\ consumed' = consumed
  BY EndEffect
<1>2. run'[w].done = {}
  BY <1>1 DEF Idle
<1>3. CASE queue' = queue /\ consumed' = consumed
  BY <1>1, <1>2, <1>3, QueuedKept
<1>4. CASE queue' = View(w) /\ consumed' = consumed \cup run[w].done
  <2>1. DOMAIN queue' = (DOMAIN queue) \cup DOMAIN run[w].rows
    BY <1>4, ViewOK
  <2>2. ASSUME NEW e \in consumed', NEW t \in Template \ Managed, Asked(e, t)
        PROVE  \E r \in DOMAIN queue' : Told(r) = <<e, t>>
    <3>1. CASE e \in consumed
      BY <2>1, <2>2, <3>1 DEF ConsumedWasQueued, Asked
    <3>2. CASE e \in run[w].done
      BY <2>1, <2>2, <3>2 DEF DoneWasQueued
    <3> QED BY <1>4, <3>1, <3>2
  <2>3. ConsumedWasQueued'
    BY <1>1, <2>2 DEF ConsumedWasQueued, Asked
  <2>4. DoneWasQueued'
    BY <1>1, <1>2 DEF DoneWasQueued, Others, Asked
  <2> QED BY <2>3, <2>4
<1> QED BY <1>1, <1>3, <1>4

LEMMA NextQueued ==
    Typed /\ ConsumedWasQueued /\ DoneWasQueued /\ [Next]_vars
        => ConsumedWasQueued' /\ DoneWasQueued'
<1> SUFFICES ASSUME Typed, ConsumedWasQueued, DoneWasQueued, [Next]_vars
             PROVE  ConsumedWasQueued' /\ DoneWasQueued'
  OBVIOUS
<1>1. CASE \/ \E type \in Type, meets \in SUBSET Template : Emit(type, meets)
           \/ Toggle
           \/ \E t \in Managed : Activate(t)
  <2>1. /\ Events \subseteq Events' /\ \A e \in Events : events'[e] = events[e]
        /\ consumed' = consumed /\ queue' = queue /\ run' = run
    BY <1>1, OutsideEffect DEF tables
  <2>2. consumed \subseteq Events /\ \A w \in Worker : run[w].done \subseteq Events
    BY DEF Typed, TablesOK, RunOK
  <2> QED BY <2>1, <2>2 DEF ConsumedWasQueued, DoneWasQueued, Asked
<1>2. ASSUME NEW w \in Worker, Start(w)
      PROVE  ConsumedWasQueued' /\ DoneWasQueued'
  <2>1. /\ Others(w) /\ consumed' = consumed /\ events' = events /\ queue' = queue
        /\ run'[w].done = {}
    BY <1>2, StartEffect DEF tables
  <2> QED BY <2>1, QueuedKept
<1>3. ASSUME NEW w \in Worker, Fetch(w)
      PROVE  ConsumedWasQueued' /\ DoneWasQueued'
  <2>1. /\ Others(w) /\ consumed' = consumed /\ events' = events /\ queue' = queue
        /\ run'[w].done = run[w].done /\ run'[w].rows = run[w].rows
    BY <1>3, FetchEffect DEF tables
  <2> QED BY <2>1, QueuedKept
<1>4. ASSUME NEW w \in Worker, NEW r \in run[w].todo, Send(w, r)
      PROVE  ConsumedWasQueued' /\ DoneWasQueued'
  <2>1. /\ Others(w) /\ consumed' = consumed /\ events' = events /\ queue' = queue
        /\ run'[w].done = run[w].done /\ run'[w].rows = run[w].rows
    BY <1>4, SendEffect DEF tables
  <2> QED BY <2>1, QueuedKept
<1>5. ASSUME NEW w \in Worker, NEW r \in run[w].item, Settle(w, r)
      PROVE  ConsumedWasQueued' /\ DoneWasQueued'
  <2> DEFINE rows == Over([k \in {r} |-> Marked(w, r)], run[w].rows)
  <2>1. DOMAIN run[w].rows \subseteq DOMAIN rows
    BY OverValues
  <2>2. /\ Others(w)
        /\ Whole(run'[w]) /\ run'[w].phase = run[w].phase
        /\ run'[w].batch = run[w].batch /\ run'[w].done = run[w].done
        /\ run'[w].rows = rows /\ run'[w].todo = run[w].todo
        /\ run'[w].loaded = run[w].loaded /\ run'[w].toggle = run[w].toggle
        /\ run'[w].outcome = "none" /\ run'[w].item = {}
        /\ UNCHANGED <<events, tables, active, enabled, accepted, aborts>>
    BY <1>5, SettleEffect
  <2> HIDE DEF rows
  <2>3. run'[w].done = run[w].done /\ run'[w].rows = rows
    BY <2>2
  <2> QED BY <2>1, <2>2, <2>3, QueuedKept DEF tables
<1>6. CASE UNCHANGED vars
  BY <1>6 DEF vars, tables, ConsumedWasQueued, DoneWasQueued, Asked, Events
<1>7. ASSUME NEW w \in Worker, Step(w) \/ Abort(w)
      PROVE  ConsumedWasQueued' /\ DoneWasQueued'
  BY <1>2, <1>3, <1>4, <1>5, <1>7, ConsumeQueued, EndQueued DEF Step
<1> QED BY <1>1, <1>6, <1>7 DEF Next

(* No message is lost: an event is marked as consumed only along with the   *)
(* rows of all the messages it asks for, although conditions fail half way, *)
(* runs overlap and die, and templates are switched on and off.             *)
THEOREM NoMessageIsLost == Spec => []ConsumedWasQueued
<1>1. Init => Typed /\ ConsumedWasQueued /\ DoneWasQueued
  BY InitTyped DEF Init, ConsumedWasQueued, DoneWasQueued, Idle
<1>2. Typed /\ ConsumedWasQueued /\ DoneWasQueued /\ [Next]_vars
        => (Typed /\ ConsumedWasQueued /\ DoneWasQueued)'
  BY NextTyped, NextQueued
<1> QED BY <1>1, <1>2, PTL DEF Spec

-----------------------------------------------------------------------------
(* What counts as sent was taken.                                           *)

TakenOf(f) ==
    \A r \in DOMAIN f : (f[r].status = "SENT" /\ r.template \in WhatsApp) => Times(Told(r)) > 0

TakenIn(w) ==
    /\ TakenOf(run[w].rows)
    /\ run[w].outcome = "SENT" =>
          \A r \in run[w].item : r.template \in WhatsApp => Times(Told(r)) > 0

Taken == TakenOf(queue) /\ \A w \in Worker : TakenIn(w)

LEMMA TakenKept ==
    ASSUME Typed, Taken, NEW w \in Worker, Others(w), queue' = queue,
           \A m : Times(m) \in Nat /\ Times(m)' \in Nat /\ Times(m)' >= Times(m), TakenIn(w)'
    PROVE  Taken'
<1>1. \A f : TakenOf(f) =>
          \A r \in DOMAIN f :
              (f[r].status = "SENT" /\ r.template \in WhatsApp) => Times(Told(r))' > 0
  BY DEF TakenOf
<1>2. TakenOf(queue)'
  BY <1>1 DEF Taken, TakenOf
<1>3. ASSUME NEW x \in Worker, x # w
      PROVE  TakenIn(x)'
  <2>1. run'[x] = run[x] /\ TakenIn(x)
    BY <1>3 DEF Others, Taken
  <2>2. TakenOf(run[x].rows)'
    BY <1>1, <2>1 DEF TakenIn, TakenOf
  <2> QED BY <2>1, <2>2 DEF TakenIn
<1>4. \A x \in Worker : TakenIn(x)'
  BY <1>3
<1> QED BY <1>2, <1>4 DEF Taken

LEMMA TimesStay ==
    ASSUME Typed, accepted' = accepted
    PROVE  \A m : Times(m) \in Nat /\ Times(m)' = Times(m)
BY DEF Times, Typed, TablesOK

LEMMA SettleTaken ==
    ASSUME Typed, Taken, NEW w \in Worker, NEW r \in run[w].item, Settle(w, r)
    PROVE  Taken'
<1> DEFINE mark == [k \in {r} |-> Marked(w, r)]
           rows == Over(mark, run[w].rows)
<1>1. /\ Others(w)
      /\ Whole(run'[w]) /\ run'[w].phase = run[w].phase
      /\ run'[w].batch = run[w].batch /\ run'[w].done = run[w].done
      /\ run'[w].rows = rows /\ run'[w].todo = run[w].todo
      /\ run'[w].loaded = run[w].loaded /\ run'[w].toggle = run[w].toggle
      /\ run'[w].outcome = "none" /\ run'[w].item = {}
      /\ UNCHANGED <<events, tables, active, enabled, accepted, aborts>>
  BY SettleEffect
<1>2. \A m : Times(m) \in Nat /\ Times(m)' = Times(m)
  BY <1>1, TimesStay
<1>3. /\ DOMAIN mark = {r} /\ mark[r] = Marked(w, r)
  OBVIOUS
<1>4. /\ DOMAIN Over(mark, run[w].rows) = (DOMAIN run[w].rows) \cup (DOMAIN mark)
      /\ \A k \in DOMAIN mark : Over(mark, run[w].rows)[k] = mark[k]
      /\ \A k \in (DOMAIN run[w].rows) \ DOMAIN mark :
            Over(mark, run[w].rows)[k] = run[w].rows[k]
  BY OverValues
<1>5. r \in DOMAIN View(w) /\ View(w)[r] \in RowStates
  BY MarkedOK, ViewOK DEF IsRows
<1>6. (View(w)[r].status = "SENT" /\ r.template \in WhatsApp) => Times(Told(r)) > 0
  BY <1>5, ViewOK DEF Taken, TakenIn, TakenOf
<1>7. (Marked(w, r).status = "SENT" /\ r.template \in WhatsApp) => Times(Told(r)) > 0
  <2>1. CASE run[w].outcome = "SENT"
    BY <2>1 DEF Taken, TakenIn
  <2>2. CASE run[w].outcome # "SENT"
    <3>1. Marked(w, r).status = "SENT" => View(w)[r].status = "SENT"
      BY <1>5, <2>2 DEF Marked, RowStates
    <3> QED BY <1>6, <3>1
  <2> QED BY <2>1, <2>2
<1> HIDE DEF mark
<1>8. TakenOf(rows)
  BY <1>3, <1>4, <1>7 DEF Taken, TakenIn, TakenOf
<1> HIDE DEF rows
<1>9. run'[w].rows = rows /\ run'[w].outcome = "none"
  BY <1>1
<1>10. TakenOf(run[w].rows)'
  BY <1>2, <1>8, <1>9 DEF TakenOf
<1>11. TakenIn(w)'
  BY <1>9, <1>10 DEF TakenIn
<1> QED BY <1>1, <1>2, <1>11, TakenKept DEF tables

LEMMA NextTaken == Typed /\ Taken /\ [Next]_vars => Taken'
<1> SUFFICES ASSUME Typed, Taken, [Next]_vars
             PROVE  Taken'
  OBVIOUS
<1>1. CASE \/ \E type \in Type, meets \in SUBSET Template : Emit(type, meets)
           \/ Toggle
           \/ \E t \in Managed : Activate(t)
  <2>1. run' = run /\ queue' = queue /\ accepted' = accepted
    BY <1>1, OutsideEffect DEF tables
  <2> QED BY <2>1 DEF Taken, TakenIn, TakenOf, Times
<1>2. ASSUME NEW w \in Worker, Start(w)
      PROVE  Taken'
  <2>1. /\ Others(w) /\ queue' = queue /\ accepted' = accepted
        /\ run'[w].rows = [r \in {} |-> Pending] /\ run'[w].outcome = "none"
    BY <1>2, StartEffect DEF tables
  <2>2. TakenIn(w)'
    BY <2>1 DEF TakenIn, TakenOf
  <2> QED BY <2>1, <2>2, TimesStay, TakenKept
<1>3. ASSUME NEW w \in Worker, Consume(w)
      PROVE  Taken'
  <2>1. PICK e, asked :
            /\ e \in run[w].batch /\ asked \in SUBSET (Matching(e) \cap events[e].meets)
            /\ Others(w)
            /\ Whole(run'[w]) /\ run'[w].phase = run[w].phase
            /\ run'[w].batch = run[w].batch \ {e}
            /\ run'[w].rows = Enqueued(w, e, asked)
            /\ run'[w].todo = run[w].todo /\ run'[w].loaded = run[w].loaded
            /\ run'[w].toggle = run[w].toggle
            /\ run'[w].outcome = run[w].outcome
            /\ run'[w].item = run[w].item
            /\ UNCHANGED <<events, tables, active, enabled, accepted, aborts>>
    BY <1>3, ConsumeEffect
  <2>2. e \in Events /\ asked \in SUBSET Template
    BY <2>1 DEF Typed, RunOK, TablesOK, Matching
  <2> DEFINE rows == Enqueued(w, e, asked)
  <2>3. /\ DOMAIN rows = (DOMAIN run[w].rows) \cup {NewRow(e, t) : t \in asked}
        /\ \A t \in asked : rows[NewRow(e, t)] = Pending
        /\ \A r \in DOMAIN run[w].rows : rows[r] = run[w].rows[r]
    BY <2>2, NewRowsOK
  <2>4. /\ Whole(run'[w]) /\ run'[w].phase = run[w].phase
        /\ run'[w].batch = run[w].batch \ {e} /\ run'[w].rows = rows
        /\ run'[w].todo = run[w].todo /\ run'[w].loaded = run[w].loaded
        /\ run'[w].toggle = run[w].toggle /\ run'[w].outcome = run[w].outcome
        /\ run'[w].item = run[w].item
    BY <2>1
  <2> HIDE DEF rows
  <2>5. run'[w].rows = rows /\ run'[w].item = run[w].item /\ run'[w].outcome = run[w].outcome
    BY <2>4
  <2>6. \A m : Times(m) \in Nat /\ Times(m)' = Times(m)
    BY <2>1, TimesStay
  <2>7. TakenOf(rows)
    BY <2>3 DEF Taken, TakenIn, TakenOf, Pending
  <2>8. TakenOf(run[w].rows)'
    BY <2>5, <2>6, <2>7 DEF TakenOf
  <2>9. TakenIn(w)'
    BY <2>5, <2>6, <2>8 DEF Taken, TakenIn
  <2> QED BY <2>1, <2>6, <2>9, TakenKept DEF tables
<1>4. ASSUME NEW w \in Worker, Fetch(w)
      PROVE  Taken'
  <2>1. /\ Others(w) /\ queue' = queue /\ accepted' = accepted
        /\ run'[w].rows = run[w].rows /\ run'[w].outcome = run[w].outcome
        /\ run'[w].item = run[w].item
    BY <1>4, FetchEffect DEF tables
  <2>2. TakenIn(w)'
    BY <2>1 DEF Taken, TakenIn, TakenOf, Times
  <2> QED BY <2>1, <2>2, TimesStay, TakenKept
<1>5. ASSUME NEW w \in Worker, NEW r \in run[w].todo, Send(w, r)
      PROVE  Taken'
  <2>1. /\ Others(w) /\ queue' = queue /\ run'[w].rows = run[w].rows
        /\ run'[w].item \subseteq {r}
        /\ accepted' \in {accepted, Accepted(Told(r))}
        /\ (run'[w].item = {r} /\ run'[w].outcome = "SENT" /\ r.template \in WhatsApp)
              => accepted' = Accepted(Told(r))
    BY <1>5, SendEffect DEF tables
  <2>2. /\ \A m : Times(m) \in Nat /\ Times(m)' \in Nat /\ Times(m)' >= Times(m)
        /\ accepted' = Accepted(Told(r)) => Times(Told(r))' = Times(Told(r)) + 1
    BY <2>1, AcceptedGrows
  <2>3. TakenOf(run[w].rows)'
    BY <2>1, <2>2 DEF Taken, TakenIn, TakenOf
  <2>4. TakenIn(w)'
    BY <2>1, <2>2, <2>3 DEF TakenIn
  <2> QED BY <2>1, <2>2, <2>4, TakenKept
<1>6. ASSUME NEW w \in Worker, Commit(w) \/ Abort(w)
      PROVE  Taken'
  <2>1. /\ Others(w) /\ run'[w] = Idle /\ accepted' = accepted
        /\ queue' = View(w) \/ queue' = queue
    BY <1>6, EndEffect
  <2>2. TakenOf(View(w)) /\ TakenOf(queue)
    BY ViewOK DEF Taken, TakenIn, TakenOf
  <2>3. TakenOf(queue)'
    BY <2>1, <2>2 DEF TakenOf, Times
  <2>4. TakenIn(w)'
    BY <2>1 DEF TakenIn, TakenOf, Idle
  <2>5. \A x \in Worker : x # w => TakenIn(x)'
    BY <2>1 DEF Taken, TakenIn, TakenOf, Times, Others
  <2> QED BY <2>3, <2>4, <2>5 DEF Taken
<1>7. CASE UNCHANGED vars
  BY <1>7 DEF vars, Taken, TakenIn, TakenOf, Times
<1>8. ASSUME NEW w \in Worker, Step(w) \/ Abort(w)
      PROVE  Taken'
  BY <1>2, <1>3, <1>4, <1>5, <1>6, <1>8, SettleTaken DEF Step
<1> QED BY <1>1, <1>7, <1>8 DEF Next

(* A WhatsApp message that counts as sent was taken by the provider, also   *)
(* where the toggle moves while a run goes on, where a run dies and its     *)
(* message is sent again, and where two runs settle the same row.           *)
THEOREM SentMeansAccepted == Spec => []SentWasAccepted
<1>1. Init => Typed /\ Taken
  BY InitTyped DEF Init, Taken, TakenIn, TakenOf, Idle
<1>2. Typed /\ Taken /\ [Next]_vars => (Typed /\ Taken)'
  BY NextTyped, NextTaken
<1>3. Taken => SentWasAccepted
  BY DEF Taken, TakenOf, SentWasAccepted
<1> QED BY <1>1, <1>2, <1>3, PTL DEF Spec

-----------------------------------------------------------------------------
(* Runs that do not overlap.                                                *)

\* One run at a time, and every condition can be evaluated.
Alone == Malformed = {} /\ \E w : Worker = {w}

\* A row belongs to an event that is marked, or will be with the row; and no
\* event is in hand again once it is done.
OneRow(w) ==
    /\ \A r \in DOMAIN queue : r.event \in consumed
    /\ (run[w].batch \cup run[w].done) \cap consumed = {}
    /\ run[w].batch \cap run[w].done = {}
    /\ \A r \in DOMAIN run[w].rows : r \in DOMAIN queue \/ r.event \in run[w].done
    /\ \A r, s \in DOMAIN View(w) : Told(r) = Told(s) => r = s
    /\ \A r \in DOMAIN View(w) : Asked(r.event, r.template)
OneRowEach == \A w \in Worker : OneRow(w)

LEMMA ViewAfter ==
    ASSUME NEW w
    PROVE  /\ DOMAIN View(w) = (DOMAIN queue) \cup DOMAIN run[w].rows
           /\ DOMAIN View(w)' = (DOMAIN queue') \cup DOMAIN run'[w].rows
           /\ \A r \in DOMAIN run'[w].rows : View(w)'[r] = run'[w].rows[r]
           /\ \A r \in (DOMAIN queue') \ DOMAIN run'[w].rows : View(w)'[r] = queue'[r]
<1>1. DOMAIN View(w) = (DOMAIN queue) \cup DOMAIN run[w].rows
  BY OverValues DEF View
<1>2. View(w)' = Over(run'[w].rows, queue')
  BY DEF View
<1>3. /\ DOMAIN Over(run'[w].rows, queue') = (DOMAIN queue') \cup DOMAIN run'[w].rows
      /\ \A r \in DOMAIN run'[w].rows : Over(run'[w].rows, queue')[r] = run'[w].rows[r]
      /\ \A r \in (DOMAIN queue') \ DOMAIN run'[w].rows :
            Over(run'[w].rows, queue')[r] = queue'[r]
  BY OverValues
<1> QED BY <1>1, <1>2, <1>3

\* A step that queues nothing and marks nothing.
LEMMA SameRows ==
    ASSUME NEW w, OneRow(w), consumed' = consumed, queue' = queue, events' = events,
           run'[w].batch = run[w].batch, run'[w].done = run[w].done,
           DOMAIN run'[w].rows \subseteq (DOMAIN run[w].rows) \cup DOMAIN queue,
           DOMAIN run[w].rows \subseteq DOMAIN run'[w].rows
    PROVE  OneRow(w)'
<1>1. DOMAIN View(w)' = DOMAIN View(w)
  BY ViewAfter
<1>2. \A r, s \in DOMAIN View(w)' : Told(r) = Told(s) => r = s
  BY <1>1 DEF OneRow
<1>3. \A r \in DOMAIN View(w)' : Asked(r.event, r.template)'
  BY <1>1 DEF OneRow, Asked
<1> QED BY <1>2, <1>3 DEF OneRow

\* What the run sees of the rows, in the terms of the step that consumes.
LEMMA ConsumeRows ==
    ASSUME Typed, Malformed = {}, NEW w \in Worker, Consume(w)
    PROVE  \E e \in run[w].batch : \E new \in SUBSET Rows :
              /\ Others(w) /\ run[w].phase = "consume" /\ e \in Events
              /\ run'[w].phase = "consume" /\ run'[w].batch = run[w].batch \ {e}
              /\ run'[w].done = run[w].done \cup {e}
              /\ run'[w].todo = run[w].todo /\ run'[w].loaded = run[w].loaded
              /\ run'[w].item = run[w].item
              /\ DOMAIN run'[w].rows = (DOMAIN run[w].rows) \cup new
              /\ \A r \in DOMAIN run[w].rows : run'[w].rows[r] = run[w].rows[r]
              /\ \A r \in new : /\ run'[w].rows[r] = Pending
                                /\ r \notin DOMAIN View(w)
                                /\ r.event = e /\ Asked(e, r.template)
                                /\ \A s \in new : Told(s) = Told(r) => s = r
              /\ UNCHANGED <<events, tables, active, enabled, accepted, aborts>>
<1>1. PICK e, asked :
          /\ e \in run[w].batch /\ asked \in SUBSET (Matching(e) \cap events[e].meets)
          /\ Others(w) /\ run[w].phase = "consume"
          /\ Whole(run'[w]) /\ run'[w].phase = run[w].phase
          /\ run'[w].batch = run[w].batch \ {e}
          /\ run'[w].rows = Enqueued(w, e, asked)
          /\ run'[w].todo = run[w].todo /\ run'[w].loaded = run[w].loaded
          /\ run'[w].toggle = run[w].toggle
          /\ run'[w].outcome = run[w].outcome /\ run'[w].item = run[w].item
          /\ \/ /\ run'[w].done = run[w].done \cup {e}
                /\ asked = Matching(e) \cap events[e].meets
             \/ run'[w].done = run[w].done /\ Malformed # {}
          /\ UNCHANGED <<events, tables, active, enabled, accepted, aborts>>
  BY ConsumeEffect
<1>2. /\ e \in Events /\ asked \in SUBSET Template
      /\ \A t \in asked : Asked(e, t)
  BY <1>1 DEF Typed, RunOK, TablesOK, Matching, Asked
<1> DEFINE new == {NewRow(e, t) : t \in asked}
           rows == Enqueued(w, e, asked)
<1>3. /\ DOMAIN rows = (DOMAIN run[w].rows) \cup new
      /\ \A t \in asked : rows[NewRow(e, t)] = Pending
      /\ \A r \in DOMAIN run[w].rows : rows[r] = run[w].rows[r]
  BY <1>2, NewRowsOK
<1>4. \A t \in asked : /\ NewRow(e, t) \in Rows
                       /\ NewRow(e, t).event = e /\ NewRow(e, t).template = t
                       /\ NewRow(e, t) \notin DOMAIN View(w)
  <2>1. DOMAIN View(w) = (DOMAIN queue) \cup DOMAIN run[w].rows
    BY ViewAfter
  <2> QED BY <1>2, <2>1, Fresh
<1>5. /\ new \in SUBSET Rows
      /\ \A r \in new : /\ rows[r] = Pending /\ r \notin DOMAIN View(w)
                        /\ r.event = e /\ Asked(e, r.template)
                        /\ \A s \in new : Told(s) = Told(r) => s = r
  BY <1>2, <1>3, <1>4 DEF Told
<1> HIDE DEF new
<1>6. /\ Others(w) /\ run[w].phase = "consume" /\ e \in Events
      /\ run'[w].phase = "consume" /\ run'[w].batch = run[w].batch \ {e}
      /\ run'[w].done = run[w].done \cup {e}
      /\ run'[w].todo = run[w].todo /\ run'[w].loaded = run[w].loaded
      /\ run'[w].item = run[w].item /\ run'[w].rows = rows
      /\ UNCHANGED <<events, tables, active, enabled, accepted, aborts>>
  BY <1>1, <1>2
<1> HIDE DEF rows
<1>7. e \in run[w].batch
  BY <1>1
<1>8. /\ DOMAIN run'[w].rows = (DOMAIN run[w].rows) \cup new
      /\ \A r \in DOMAIN run[w].rows : run'[w].rows[r] = run[w].rows[r]
      /\ \A r \in new : run'[w].rows[r] = Pending
  BY <1>3, <1>5, <1>6
<1> QED BY <1>5, <1>6, <1>7, <1>8

LEMMA NextOneRow == Alone /\ Typed /\ OneRowEach /\ [Next]_vars => OneRowEach'
<1> SUFFICES ASSUME Alone, Typed, OneRowEach, [Next]_vars
             PROVE  OneRowEach'
  OBVIOUS
<1>0. PICK w : Worker = {w}
  BY DEF Alone
<1> SUFFICES OneRow(w)'
  BY <1>0 DEF OneRowEach
<1> OneRow(w) /\ w \in Worker
  BY <1>0 DEF OneRowEach
<1>a. DOMAIN View(w) = (DOMAIN queue) \cup DOMAIN run[w].rows
  BY ViewAfter
<1>1. CASE \/ \E type \in Type, meets \in SUBSET Template : Emit(type, meets)
           \/ Toggle
           \/ \E t \in Managed : Activate(t)
  <2>1. /\ Events \subseteq Events' /\ \A e \in Events : events'[e] = events[e]
        /\ run' = run /\ queue' = queue /\ consumed' = consumed
    BY <1>1, OutsideEffect DEF tables
  <2>2. DOMAIN View(w)' = DOMAIN View(w)
    BY <2>1, ViewAfter
  <2>3. \A r \in DOMAIN View(w) : r.event \in Events
    BY <1>a DEF OneRow, Typed, RunOK, TablesOK
  <2>4. \A r \in DOMAIN View(w)' : Asked(r.event, r.template)'
    BY <2>1, <2>2, <2>3 DEF OneRow, Asked
  <2>5. \A r, s \in DOMAIN View(w)' : Told(r) = Told(s) => r = s
    BY <2>2 DEF OneRow
  <2> QED BY <2>1, <2>4, <2>5 DEF OneRow
<1>2. CASE Start(w)
  <2>1. /\ run[w] = Idle /\ run'[w].batch \subseteq Unprocessed
        /\ run'[w].done = {} /\ DOMAIN run'[w].rows = {}
        /\ events' = events /\ queue' = queue /\ consumed' = consumed
    BY <1>2, StartEffect DEF tables
  <2>2. DOMAIN run[w].rows = {}
    BY <2>1 DEF Idle
  <2>3. DOMAIN View(w)' = DOMAIN View(w)
    BY <2>1, <2>2, ViewAfter
  <2>4. \A r \in DOMAIN View(w)' : Asked(r.event, r.template)'
    BY <2>1, <2>3 DEF OneRow, Asked
  <2>5. \A r, s \in DOMAIN View(w)' : Told(r) = Told(s) => r = s
    BY <2>3 DEF OneRow
  <2> QED BY <2>1, <2>4, <2>5 DEF OneRow, Unprocessed
<1>3. CASE Consume(w)
  <2>1. PICK e, new :
            /\ e \in run[w].batch
            /\ run'[w].batch = run[w].batch \ {e}
            /\ run'[w].done = run[w].done \cup {e}
            /\ DOMAIN run'[w].rows = (DOMAIN run[w].rows) \cup new
            /\ \A r \in new : /\ r.event = e /\ Asked(e, r.template)
                              /\ \A s \in new : Told(s) = Told(r) => s = r
            /\ UNCHANGED <<events, tables, active, enabled, accepted, aborts>>
    <3>1. Malformed = {}
      BY DEF Alone
    <3> QED BY <1>3, <3>1, ConsumeRows
  <2>2. events' = events /\ queue' = queue /\ consumed' = consumed
    BY <2>1 DEF tables
  <2>3. DOMAIN View(w)' = (DOMAIN View(w)) \cup new
    BY <2>1, <2>2, ViewAfter
  <2>4. \A r \in DOMAIN View(w) : r.event # e
    BY <1>a, <2>1 DEF OneRow
  <2>5. \A r, s \in DOMAIN View(w)' : Told(r) = Told(s) => r = s
    <3>1. \A r \in DOMAIN View(w), s \in new : Told(r) # Told(s)
      BY <2>1, <2>4 DEF Told
    <3> QED BY <2>1, <2>3, <3>1 DEF OneRow
  <2>6. \A r \in DOMAIN View(w)' : Asked(r.event, r.template)'
    BY <2>1, <2>2, <2>3 DEF OneRow, Asked
  <2>7. \A r \in DOMAIN run'[w].rows : r \in DOMAIN queue' \/ r.event \in run'[w].done
    BY <2>1, <2>2 DEF OneRow
  <2>8. /\ (run'[w].batch \cup run'[w].done) \cap consumed' = {}
        /\ run'[w].batch \cap run'[w].done = {}
    BY <2>1, <2>2 DEF OneRow
  <2>9. \A r \in DOMAIN queue' : r.event \in consumed'
    BY <2>2 DEF OneRow
  <2> QED BY <2>5, <2>6, <2>7, <2>8, <2>9 DEF OneRow
<1>4. CASE Fetch(w)
  <2>1. /\ run'[w].rows = run[w].rows /\ run'[w].batch = run[w].batch
        /\ run'[w].done = run[w].done
        /\ events' = events /\ queue' = queue /\ consumed' = consumed
    BY <1>4, FetchEffect DEF tables
  <2> QED BY <2>1, SameRows
<1>5. ASSUME NEW r \in run[w].todo, Send(w, r)
      PROVE  OneRow(w)'
  <2>1. /\ run'[w].rows = run[w].rows /\ run'[w].batch = run[w].batch
        /\ run'[w].done = run[w].done
        /\ events' = events /\ queue' = queue /\ consumed' = consumed
    BY <1>5, SendEffect DEF tables
  <2> QED BY <2>1, SameRows
<1>6. ASSUME NEW r \in run[w].item, Settle(w, r)
      PROVE  OneRow(w)'
  <2> DEFINE mark == [k \in {r} |-> Marked(w, r)]
  <2>1. /\ run'[w].rows = Over(mark, run[w].rows) /\ run'[w].batch = run[w].batch
        /\ run'[w].done = run[w].done
        /\ events' = events /\ queue' = queue /\ consumed' = consumed
    BY <1>6, SettleEffect DEF tables
  <2>2. DOMAIN mark = {r}
    OBVIOUS
  <2> HIDE DEF mark
  <2>3. DOMAIN Over(mark, run[w].rows) = (DOMAIN run[w].rows) \cup {r}
    <3>1. DOMAIN Over(mark, run[w].rows) = (DOMAIN run[w].rows) \cup DOMAIN mark
      BY OverValues
    <3> QED BY <2>2, <3>1
  <2>4. r \in (DOMAIN run[w].rows) \cup DOMAIN queue
    BY DEF Typed, RunOK
  <2>5. DOMAIN run'[w].rows = (DOMAIN run[w].rows) \cup {r}
    BY <2>1, <2>3
  <2> QED BY <2>1, <2>4, <2>5, SameRows
<1>7. CASE Commit(w) \/ Abort(w)
  <2>1. /\ run'[w] = Idle /\ events' = events
        /\ \/ queue' = View(w) /\ consumed' = consumed \cup run[w].done
           \/ queue' = queue /\ consumed' = consumed
    BY <1>7, EndEffect
  <2>2. run'[w].batch = {} /\ run'[w].done = {} /\ DOMAIN run'[w].rows = {}
    BY <2>1 DEF Idle
  <2>3. DOMAIN View(w)' = DOMAIN queue' /\ DOMAIN queue' \subseteq DOMAIN View(w)
    BY <2>1, <2>2, ViewAfter
  <2>4. \A r, s \in DOMAIN View(w)' : Told(r) = Told(s) => r = s
    BY <2>3 DEF OneRow
  <2>5. \A r \in DOMAIN View(w)' : Asked(r.event, r.template)'
    BY <2>1, <2>3 DEF OneRow, Asked
  <2>6. \A r \in DOMAIN queue' : r.event \in consumed'
    BY <1>a, <2>1 DEF OneRow
  <2> QED BY <2>2, <2>4, <2>5, <2>6 DEF OneRow
<1>8. CASE UNCHANGED vars
  BY <1>8, SameRows DEF vars, tables
<1>9. ASSUME Step(w) \/ Abort(w)
      PROVE  OneRow(w)'
  BY <1>2, <1>3, <1>4, <1>5, <1>6, <1>7, <1>9 DEF Step
<1> QED BY <1>0, <1>1, <1>8, <1>9 DEF Next

(* Where runs do not overlap and every condition can be evaluated, an event *)
(* gives a template one row at most, and the queue and the marks never      *)
(* part, although runs die, retry and leave rows behind.                    *)
THEOREM QueueAndMarksAgree == Alone => (Spec => []QueueMatchesConsumed)
<1> SUFFICES ASSUME Alone
             PROVE  Spec => []QueueMatchesConsumed
  OBVIOUS
<1>1. Init => Typed /\ ConsumedWasQueued /\ DoneWasQueued /\ OneRowEach
  <2> SUFFICES ASSUME Init
               PROVE  Typed /\ ConsumedWasQueued /\ DoneWasQueued /\ OneRowEach
    OBVIOUS
  <2>1. /\ \A w \in Worker : /\ run[w].batch = {} /\ run[w].done = {}
                             /\ DOMAIN run[w].rows = {}
        /\ consumed = {} /\ DOMAIN queue = {}
    BY DEF Init, Idle
  <2>2. \A w \in Worker : DOMAIN View(w) = {}
    BY <2>1, ViewAfter
  <2>3. Typed
    BY InitTyped
  <2> QED BY <2>1, <2>2, <2>3 DEF ConsumedWasQueued, DoneWasQueued, OneRowEach, OneRow
<1>2. Typed /\ ConsumedWasQueued /\ DoneWasQueued /\ OneRowEach /\ [Next]_vars
        => (Typed /\ ConsumedWasQueued /\ DoneWasQueued /\ OneRowEach)'
  BY NextTyped, NextQueued, NextOneRow
<1>3. Typed /\ ConsumedWasQueued /\ OneRowEach => QueueMatchesConsumed
  <2> SUFFICES ASSUME Typed, ConsumedWasQueued, OneRowEach
               PROVE  QueueMatchesConsumed
    OBVIOUS
  <2>1. PICK w : Worker = {w}
    BY DEF Alone
  <2>2. OneRow(w) /\ DOMAIN View(w) = (DOMAIN queue) \cup DOMAIN run[w].rows
    BY <2>1, ViewAfter DEF OneRowEach
  <2>3. EnqueuedOnce
    BY <2>2 DEF OneRow, EnqueuedOnce
  <2>4. \A r \in DOMAIN queue : r.event \in consumed /\ Asked(r.event, r.template)
    BY <2>2 DEF OneRow
  <2> QED BY <2>3, <2>4 DEF QueueMatchesConsumed, ConsumedWasQueued, Told, Asked
<1> QED BY <1>1, <1>2, <1>3, PTL DEF Spec

Attempts(row) == IF row.status = "SENT" THEN row.retries + 1 ELSE row.retries

\* A row as it was when the run began, and the rows the run has taken up.
Before(r) == IF r \in DOMAIN queue THEN queue[r] ELSE Pending
Tried(w) == (DOMAIN run[w].loaded) \ run[w].todo

\* A run delivers what it loaded, a row at a time.
Delivers(w) ==
    /\ run[w].phase = "consume" => DOMAIN run[w].loaded = {}
    /\ run[w].item \cap run[w].todo = {}
    /\ \A r, s \in run[w].item : r = s
    /\ \A r \in DOMAIN run[w].loaded : run[w].loaded[r] = Before(r)

\* Every time the provider took the message of a row is an attempt the table
\* shows, the one attempt of this run, or the attempt of a run that died.
CountedRow(w, r) ==
    /\ View(w)[r].status = "SENT" => View(w)[r].retries < MaxRetries
    /\ r \in run[w].item \/ r \notin Tried(w) => View(w)[r] = Before(r)
    /\ r \notin Tried(w) => Times(Told(r)) <= aborts + Attempts(Before(r))
    /\ r \in Tried(w) => Times(Told(r)) <= aborts + Before(r).retries + 1
    /\ r \in Tried(w) \ run[w].item => Times(Told(r)) <= aborts + Attempts(View(w)[r])
CountedIn(w) ==
    /\ Delivers(w)
    /\ \A r \in DOMAIN queue : queue[r].status = "SENT" => queue[r].retries < MaxRetries
    /\ \A m \in DOMAIN accepted :
          (\A r \in DOMAIN View(w) : Told(r) # m) => Times(m) <= aborts
    /\ \A r \in DOMAIN View(w) : CountedRow(w, r)
Counted == \A w \in Worker : CountedIn(w)

LEMMA BeforeOK ==
    ASSUME Typed, NEW r
    PROVE  /\ Before(r) \in RowStates
           /\ Before(r).status = "PENDING" => Before(r).retries < MaxRetries
           /\ Attempts(Before(r)) \in Nat /\ Before(r).retries \in Nat
           /\ Before(r).retries <= Attempts(Before(r))
           /\ aborts \in Nat /\ \A m : Times(m) \in Nat
<1>1. Pending \in RowStates /\ Pending.retries < MaxRetries
  BY NotificationAssumption DEF Pending, RowStates
<1>2. /\ Before(r) \in RowStates
      /\ Before(r).status = "PENDING" => Before(r).retries < MaxRetries
  BY <1>1 DEF Before, Typed, TablesOK, IsRows
<1>3. aborts \in Nat /\ \A m : Times(m) \in Nat
  BY DEF Typed, TablesOK, Times
<1> QED BY <1>2, <1>3, NotificationAssumption DEF Attempts, RowStates

\* A step that leaves what the run changed and the tables alone.
LEMMA CountedKept ==
    ASSUME Typed, NEW w \in Worker, CountedIn(w), queue' = queue, accepted' = accepted,
           aborts' = aborts, run'[w].rows = run[w].rows, run'[w].todo = run[w].todo,
           run'[w].loaded = run[w].loaded, run'[w].item = run[w].item,
           run'[w].phase = run[w].phase
    PROVE  CountedIn(w)'
<1>1. View(w)' = View(w) /\ Tried(w)' = Tried(w)
  BY DEF View, Tried
<1>2. \A r : Before(r)' = Before(r)
  BY DEF Before
<1>3. \A m : Times(m)' = Times(m)
  BY DEF Times
<1>4. Delivers(w)'
  BY <1>2 DEF CountedIn, Delivers
<1>5. \A r \in DOMAIN View(w)' : CountedRow(w, r)'
  BY <1>1, <1>2, <1>3 DEF CountedIn, CountedRow
<1>6. \A m \in DOMAIN accepted' :
          (\A r \in DOMAIN View(w)' : Told(r) # m) => Times(m)' <= aborts'
  BY <1>1, <1>3 DEF CountedIn
<1> QED BY <1>4, <1>5, <1>6 DEF CountedIn

LEMMA StartCounted ==
    ASSUME Typed, NEW w \in Worker, CountedIn(w), Start(w)
    PROVE  CountedIn(w)'
<1>1. /\ run[w] = Idle /\ DOMAIN run'[w].rows = {} /\ DOMAIN run'[w].loaded = {}
      /\ run'[w].todo = {} /\ run'[w].item = {}
      /\ queue' = queue /\ accepted' = accepted /\ aborts' = aborts
  BY StartEffect DEF tables
<1>2. DOMAIN run[w].rows = {} /\ DOMAIN run[w].loaded = {} /\ run[w].item = {}
  BY <1>1 DEF Idle
<1>3. DOMAIN View(w) = DOMAIN queue /\ \A r \in DOMAIN queue : View(w)[r] = queue[r]
  BY <1>2, ViewOK
<1>4. /\ DOMAIN View(w)' = DOMAIN queue
      /\ \A r \in DOMAIN queue : View(w)'[r] = queue[r]
  BY <1>1, ViewAfter
<1>5. \A r : Before(r)' = Before(r)
  BY <1>1 DEF Before
<1>6. \A m : Times(m)' = Times(m)
  BY <1>1 DEF Times
<1>7. Tried(w) = {} /\ Tried(w)' = {}
  BY <1>1, <1>2 DEF Tried
<1>8. \A r \in DOMAIN View(w)' : CountedRow(w, r)'
  BY <1>1, <1>2, <1>3, <1>4, <1>5, <1>6, <1>7 DEF CountedIn, CountedRow
<1>9. \A m \in DOMAIN accepted' :
          (\A r \in DOMAIN View(w)' : Told(r) # m) => Times(m)' <= aborts'
  BY <1>1, <1>3, <1>4, <1>6 DEF CountedIn
<1>10. Delivers(w)'
  BY <1>1 DEF Delivers
<1> QED BY <1>1, <1>8, <1>9, <1>10 DEF CountedIn

LEMMA ConsumeCounted ==
    ASSUME Typed, Malformed = {}, NEW w \in Worker, OneRow(w), CountedIn(w), Consume(w)
    PROVE  CountedIn(w)'
<1>1. PICK e, new :
          /\ e \in run[w].batch /\ run[w].phase = "consume"
          /\ run'[w].phase = "consume"
          /\ run'[w].todo = run[w].todo /\ run'[w].loaded = run[w].loaded
          /\ run'[w].item = run[w].item
          /\ DOMAIN run'[w].rows = (DOMAIN run[w].rows) \cup new
          /\ \A r \in DOMAIN run[w].rows : run'[w].rows[r] = run[w].rows[r]
          /\ \A r \in new : /\ run'[w].rows[r] = Pending
                            /\ r \notin DOMAIN View(w) /\ r.event = e
          /\ UNCHANGED <<events, tables, active, enabled, accepted, aborts>>
  BY ConsumeRows
<1>2. queue' = queue /\ accepted' = accepted /\ aborts' = aborts
  BY <1>1 DEF tables
<1>3. /\ DOMAIN View(w) = (DOMAIN queue) \cup DOMAIN run[w].rows
      /\ \A r \in DOMAIN run[w].rows : View(w)[r] = run[w].rows[r]
      /\ \A r \in (DOMAIN queue) \ DOMAIN run[w].rows : View(w)[r] = queue[r]
  BY ViewOK
<1>4. /\ DOMAIN View(w)' = (DOMAIN queue') \cup DOMAIN run'[w].rows
      /\ \A r \in DOMAIN run'[w].rows : View(w)'[r] = run'[w].rows[r]
      /\ \A r \in (DOMAIN queue') \ DOMAIN run'[w].rows : View(w)'[r] = queue'[r]
  BY ViewAfter
<1>5. /\ DOMAIN View(w)' = (DOMAIN View(w)) \cup new
      /\ \A r \in DOMAIN View(w) : View(w)'[r] = View(w)[r]
      /\ \A r \in new : View(w)'[r] = Pending
  BY <1>1, <1>2, <1>3, <1>4
<1>6. (\A r : Before(r)' = Before(r)) /\ \A m : Times(m)' = Times(m)
  BY <1>2 DEF Before, Times
<1>7. /\ DOMAIN run[w].loaded = {} /\ run[w].item = {} /\ Tried(w) = {} /\ Tried(w)' = {}
  <2>1. DOMAIN run[w].loaded = {}
    BY <1>1 DEF CountedIn, Delivers
  <2>2. run[w].item = {}
    BY <1>1 DEF Typed, RunOK
  <2> QED BY <1>1, <2>1, <2>2 DEF Tried
<1>8. Delivers(w)'
  BY <1>1, <1>7 DEF Delivers
<1>9. \A r \in DOMAIN View(w) : CountedRow(w, r)'
  BY <1>1, <1>2, <1>5, <1>6, <1>7 DEF CountedIn, CountedRow
<1>10. ASSUME NEW r \in new
       PROVE  CountedRow(w, r)'
  <2>1. r \notin DOMAIN queue /\ Before(r) = Pending /\ Attempts(Before(r)) = 0
    BY <1>1, <1>3 DEF Before, Attempts, Pending
  <2>2. \A s \in DOMAIN View(w) : s.event # e
    BY <1>1, <1>3 DEF OneRow
  <2>3. \A s \in DOMAIN View(w) : Told(s) # Told(r)
    BY <1>1, <2>2 DEF Told
  <2>4. Times(Told(r)) <= aborts
    BY <2>3, BeforeOK DEF CountedIn, Times
  <2>5. Times(Told(r)) <= aborts + Attempts(Before(r))
    BY <2>1, <2>4, BeforeOK
  <2>6. View(w)'[r] = Pending
    BY <1>5
  <2>7. Pending.status # "SENT"
    BY DEF Pending
  <2> QED BY <1>1, <1>2, <1>6, <1>7, <2>1, <2>5, <2>6, <2>7 DEF CountedRow
<1>11. \A r \in DOMAIN View(w)' : CountedRow(w, r)'
  BY <1>5, <1>9, <1>10
<1>12. \A m \in DOMAIN accepted' :
          (\A r \in DOMAIN View(w)' : Told(r) # m) => Times(m)' <= aborts'
  BY <1>2, <1>5, <1>6 DEF CountedIn
<1> QED BY <1>2, <1>8, <1>11, <1>12 DEF CountedIn

LEMMA FetchCounted ==
    ASSUME Typed, NEW w \in Worker, CountedIn(w), Fetch(w)
    PROVE  CountedIn(w)'
<1>1. PICK taken \in SUBSET PendingRows(w) :
          /\ run[w].phase = "consume" /\ run'[w].phase = "deliver"
          /\ run'[w].rows = run[w].rows /\ run'[w].todo = taken
          /\ run'[w].loaded = [r \in taken |-> View(w)[r]]
          /\ run'[w].item = run[w].item
          /\ UNCHANGED <<events, tables, active, enabled, accepted, aborts>>
  BY FetchEffect
<1>2. queue' = queue /\ accepted' = accepted /\ aborts' = aborts
  BY <1>1 DEF tables
<1>3. View(w)' = View(w)
  BY <1>1, <1>2 DEF View
<1>4. (\A r : Before(r)' = Before(r)) /\ \A m : Times(m)' = Times(m)
  BY <1>2 DEF Before, Times
<1>5. DOMAIN run[w].loaded = {} /\ run[w].item = {} /\ Tried(w) = {}
  BY <1>1 DEF CountedIn, Delivers, Typed, RunOK, Tried
<1>6. Tried(w)' = {}
  BY <1>1 DEF Tried
<1>7. \A r \in DOMAIN View(w) : View(w)[r] = Before(r)
  BY <1>5 DEF CountedIn, CountedRow
<1>8. Delivers(w)'
  BY <1>1, <1>4, <1>5, <1>7 DEF Delivers, PendingRows
<1>9. \A r \in DOMAIN View(w)' : CountedRow(w, r)'
  BY <1>1, <1>2, <1>3, <1>4, <1>5, <1>6 DEF CountedIn, CountedRow
<1> QED BY <1>2, <1>3, <1>4, <1>8, <1>9 DEF CountedIn

LEMMA SendCounted ==
    ASSUME Typed, NEW w \in Worker, OneRow(w), CountedIn(w),
           NEW r \in run[w].todo, Send(w, r)
    PROVE  CountedIn(w)'
<1>1. /\ run[w].phase = "deliver" /\ run[w].item = {} /\ run'[w].phase = run[w].phase
      /\ run'[w].rows = run[w].rows /\ run'[w].todo = run[w].todo \ {r}
      /\ run'[w].loaded = run[w].loaded
      /\ \/ run'[w].item = {r}
         \/ run'[w].item = {} /\ accepted' = accepted
      /\ accepted' \in {accepted, Accepted(Told(r))}
      /\ queue' = queue /\ aborts' = aborts
  BY SendEffect DEF tables
<1>2. /\ \A m : Times(m) \in Nat /\ Times(m)' \in Nat
      /\ \A m : Times(m)' = Times(m) \/ (m = Told(r) /\ Times(m)' = Times(m) + 1)
  BY <1>1, AcceptedGrows
<1>3. View(w)' = View(w) /\ \A s : Before(s)' = Before(s)
  BY <1>1 DEF View, Before
<1>4. /\ r \in DOMAIN run[w].loaded /\ r \notin Tried(w) /\ Tried(w)' = Tried(w) \cup {r}
      /\ run[w].loaded[r].status = "PENDING" /\ run[w].loaded[r] = Before(r)
  BY <1>1 DEF Tried, CountedIn, Delivers, Typed, RunOK
<1>5. r \in DOMAIN View(w)
  <2>1. DOMAIN View(w) = (DOMAIN queue) \cup DOMAIN run[w].rows
    BY ViewOK
  <2> QED BY <1>4, <2>1 DEF Typed, RunOK
<1>6. Delivers(w)'
  BY <1>1, <1>3 DEF CountedIn, Delivers
<1>7. CountedRow(w, r)'
  <2>1. /\ View(w)[r] = Before(r) /\ Attempts(Before(r)) = Before(r).retries
        /\ Times(Told(r)) <= aborts + Attempts(Before(r))
        /\ View(w)[r].status = "PENDING"
    BY <1>4, <1>5 DEF CountedIn, CountedRow, Attempts
  <2>2. Times(Told(r))' <= aborts + Before(r).retries + 1
    BY <1>2, <2>1, BeforeOK
  <2>3. r \notin run'[w].item => Times(Told(r))' <= aborts + Attempts(View(w)[r])
    <3>1. r \notin run'[w].item => accepted' = accepted
      BY <1>1
    <3>2. accepted' = accepted => Times(Told(r))' = Times(Told(r))
      BY DEF Times
    <3> QED BY <2>1, <3>1, <3>2
  <2> QED BY <1>1, <1>3, <1>4, <2>1, <2>2, <2>3 DEF CountedRow
<1>8. ASSUME NEW s \in DOMAIN View(w), s # r
      PROVE  CountedRow(w, s)'
  <2>1. Told(s) # Told(r)
    BY <1>5, <1>8 DEF OneRow
  <2>2. Times(Told(s))' = Times(Told(s))
    BY <1>2, <2>1
  <2> QED BY <1>1, <1>3, <1>4, <1>8, <2>2 DEF CountedIn, CountedRow
<1>9. \A s \in DOMAIN View(w)' : CountedRow(w, s)'
  BY <1>3, <1>7, <1>8
<1>10. ASSUME NEW m \in DOMAIN accepted', \A s \in DOMAIN View(w)' : Told(s) # m
       PROVE  Times(m)' <= aborts'
  <2>1. m # Told(r) /\ Times(m)' = Times(m)
    BY <1>2, <1>3, <1>5, <1>10
  <2>2. Times(m) <= aborts
    BY <1>3, <1>10, BeforeOK DEF CountedIn, Times
  <2> QED BY <1>1, <2>1, <2>2
<1> QED BY <1>1, <1>6, <1>9, <1>10 DEF CountedIn

LEMMA SettleCounted ==
    ASSUME Typed, NEW w \in Worker, CountedIn(w), NEW r \in run[w].item, Settle(w, r)
    PROVE  CountedIn(w)'
<1> DEFINE mark == [k \in {r} |-> Marked(w, r)]
<1>1. /\ run'[w].rows = Over(mark, run[w].rows) /\ run'[w].phase = run[w].phase
      /\ run'[w].todo = run[w].todo /\ run'[w].loaded = run[w].loaded
      /\ run'[w].item = {}
      /\ queue' = queue /\ accepted' = accepted /\ aborts' = aborts
  BY SettleEffect DEF tables
<1>2. DOMAIN mark = {r} /\ mark[r] = Marked(w, r)
  OBVIOUS
<1> HIDE DEF mark
<1>3. /\ DOMAIN Over(mark, run[w].rows) = (DOMAIN run[w].rows) \cup (DOMAIN mark)
      /\ \A k \in DOMAIN mark : Over(mark, run[w].rows)[k] = mark[k]
      /\ \A k \in (DOMAIN run[w].rows) \ DOMAIN mark :
            Over(mark, run[w].rows)[k] = run[w].rows[k]
  BY OverValues
<1>4. /\ DOMAIN View(w) = (DOMAIN queue) \cup DOMAIN run[w].rows
      /\ \A s \in DOMAIN run[w].rows : View(w)[s] = run[w].rows[s]
      /\ \A s \in (DOMAIN queue) \ DOMAIN run[w].rows : View(w)[s] = queue[s]
  BY ViewOK
<1>5. /\ DOMAIN View(w)' = (DOMAIN queue') \cup DOMAIN run'[w].rows
      /\ \A s \in DOMAIN run'[w].rows : View(w)'[s] = run'[w].rows[s]
      /\ \A s \in (DOMAIN queue') \ DOMAIN run'[w].rows : View(w)'[s] = queue'[s]
  BY ViewAfter
<1>6. r \in DOMAIN run[w].loaded /\ r \in DOMAIN View(w) /\ r \notin run[w].todo
  BY <1>4 DEF Typed, RunOK, CountedIn, Delivers
<1>7. /\ DOMAIN View(w)' = DOMAIN View(w)
      /\ View(w)'[r] = Marked(w, r)
      /\ \A s \in DOMAIN View(w) : s # r => View(w)'[s] = View(w)[s]
  BY <1>1, <1>2, <1>3, <1>4, <1>5, <1>6
<1>8. (\A s : Before(s)' = Before(s)) /\ \A m : Times(m)' = Times(m)
  BY <1>1 DEF Before, Times
<1>9. r \in Tried(w) /\ Tried(w)' = Tried(w) /\ run[w].item = {r}
  BY <1>1, <1>6 DEF Tried, CountedIn, Delivers
<1>10. Delivers(w)'
  BY <1>1, <1>8 DEF CountedIn, Delivers
<1>11. CountedRow(w, r)'
  <2> DEFINE old == Before(r)
             new == Marked(w, r)
  <2>1. /\ run[w].loaded[r] = old /\ View(w)[r] = old /\ old.status = "PENDING"
        /\ Times(Told(r)) <= aborts + old.retries + 1
    BY <1>6, <1>9 DEF CountedIn, Delivers, CountedRow, Typed, RunOK
  <2>2. old \in RowStates /\ old.retries < MaxRetries
    BY <2>1, BeforeOK
  <2>3. /\ new.status = "SENT" => new.retries = old.retries
        /\ new.status # "SENT" => new.retries = old.retries + 1
    BY <2>1, <2>2 DEF Marked, RowStates
  <2> HIDE DEF old, new
  <2>4. new.status = "SENT" => new.retries < MaxRetries
    BY <2>2, <2>3
  <2>5. Attempts(new) = old.retries + 1
    BY <2>3 DEF Attempts
  <2>6. aborts \in Nat /\ Times(Told(r)) \in Nat /\ old.retries \in Nat
    BY BeforeOK DEF old
  <2>7. Times(Told(r)) <= aborts + Attempts(new)
    BY <2>1, <2>5, <2>6
  <2>8. View(w)'[r] = new /\ Before(r)' = old
    BY <1>7, <1>8 DEF old, new
  <2> QED BY <1>1, <1>8, <1>9, <2>1, <2>4, <2>7, <2>8 DEF CountedRow
<1>12. ASSUME NEW s \in DOMAIN View(w), s # r
       PROVE  CountedRow(w, s)'
  <2>1. View(w)'[s] = View(w)[s] /\ s \notin run[w].item
    BY <1>7, <1>9, <1>12
  <2> QED BY <1>1, <1>8, <1>9, <2>1 DEF CountedIn, CountedRow
<1>13. \A s \in DOMAIN View(w)' : CountedRow(w, s)'
  BY <1>7, <1>11, <1>12
<1> QED BY <1>1, <1>7, <1>8, <1>10, <1>13 DEF CountedIn

\* A run that dies leaves the message it may have sent uncounted, once.
LEMMA EndCounted ==
    ASSUME Typed, NEW w \in Worker, CountedIn(w), Commit(w) \/ Abort(w)
    PROVE  CountedIn(w)'
<1>1. /\ run'[w] = Idle /\ accepted' = accepted
      /\ \/ /\ run[w].todo = {} /\ run[w].item = {}
            /\ queue' = View(w) /\ aborts' = aborts
         \/ queue' = queue /\ aborts' = aborts + 1
  BY EndEffect
<1>2. /\ DOMAIN run'[w].rows = {} /\ DOMAIN run'[w].loaded = {} /\ run'[w].item = {}
      /\ run'[w].todo = {} /\ run'[w].phase # "consume"
  BY <1>1 DEF Idle
<1>3. /\ DOMAIN View(w) = (DOMAIN queue) \cup DOMAIN run[w].rows
      /\ \A s \in DOMAIN run[w].rows : View(w)[s] = run[w].rows[s]
      /\ \A s \in (DOMAIN queue) \ DOMAIN run[w].rows : View(w)[s] = queue[s]
  BY ViewOK
<1>4. /\ DOMAIN View(w)' = DOMAIN queue'
      /\ \A s \in DOMAIN queue' : View(w)'[s] = queue'[s]
  BY <1>2, ViewAfter
<1>5. \A m : Times(m)' = Times(m)
  BY <1>1 DEF Times
<1>6. Tried(w)' = {} /\ Delivers(w)'
  BY <1>2 DEF Tried, Delivers
<1>7. \A s \in DOMAIN queue' : View(w)'[s] = Before(s)' /\ Before(s)' = queue'[s]
  BY <1>4 DEF Before
<1>8. \A s \in DOMAIN View(w) : /\ CountedRow(w, s)
                                /\ s \in Tried(w) => Before(s).status = "PENDING"
  BY DEF CountedIn, Delivers, Tried, Typed, RunOK
<1>9. CASE /\ run[w].todo = {} /\ run[w].item = {}
           /\ queue' = View(w) /\ aborts' = aborts
  <2>1. ASSUME NEW s \in DOMAIN View(w)
        PROVE  /\ queue'[s].status = "SENT" => queue'[s].retries < MaxRetries
               /\ Times(Told(s)) <= aborts + Attempts(queue'[s])
    BY <1>8, <1>9 DEF CountedRow
  <2>2. \A s \in DOMAIN View(w)' : CountedRow(w, s)'
    BY <1>2, <1>4, <1>5, <1>6, <1>7, <1>9, <2>1 DEF CountedRow
  <2>3. \A m \in DOMAIN accepted' :
            (\A s \in DOMAIN View(w)' : Told(s) # m) => Times(m)' <= aborts'
    BY <1>1, <1>4, <1>5, <1>9 DEF CountedIn
  <2> QED BY <1>6, <1>9, <2>1, <2>2, <2>3 DEF CountedIn
<1>10. CASE queue' = queue /\ aborts' = aborts + 1
  <2>1. \A s : Before(s)' = Before(s)
    BY <1>10 DEF Before
  <2>2. ASSUME NEW s \in DOMAIN View(w)
        PROVE  Times(Told(s)) <= aborts' + Attempts(Before(s))
    <3>1. s \notin Tried(w) => Times(Told(s)) <= aborts + Attempts(Before(s))
      BY <1>8 DEF CountedRow
    <3>2. s \in Tried(w) => Times(Told(s)) <= aborts + Before(s).retries + 1
      BY <1>8 DEF CountedRow
    <3> QED BY <1>10, <3>1, <3>2, BeforeOK
  <2>3. \A s \in DOMAIN queue : queue[s].status = "SENT" => queue[s].retries < MaxRetries
    BY DEF CountedIn
  <2>4. \A s \in DOMAIN View(w)' : CountedRow(w, s)'
    BY <1>2, <1>3, <1>4, <1>5, <1>6, <1>7, <1>10, <2>1, <2>2, <2>3 DEF CountedRow
  <2>5. ASSUME NEW m \in DOMAIN accepted', \A s \in DOMAIN View(w)' : Told(s) # m
        PROVE  Times(m) <= aborts'
    <3>1. CASE \A s \in DOMAIN View(w) : Told(s) # m
      <4>1. Times(m) <= aborts
        BY <1>1, <3>1 DEF CountedIn
      <4> QED BY <1>10, <4>1, BeforeOK
    <3>2. CASE \E s \in DOMAIN View(w) : Told(s) = m
      <4>1. PICK s \in DOMAIN View(w) : Told(s) = m
        BY <3>2
      <4>2. s \notin DOMAIN queue
        BY <1>4, <1>10, <2>5, <4>1
      <4>3. Before(s) = Pending /\ Attempts(Before(s)) = 0
        BY <4>2 DEF Before, Attempts, Pending
      <4>4. Times(m) <= aborts' + Attempts(Before(s))
        BY <2>2, <4>1
      <4> QED BY <1>10, <4>3, <4>4, BeforeOK
    <3> QED BY <3>1, <3>2
  <2> QED BY <1>5, <1>6, <1>10, <2>3, <2>4, <2>5 DEF CountedIn
<1> QED BY <1>1, <1>9, <1>10

LEMMA NextCounted == Alone /\ Typed /\ OneRowEach /\ Counted /\ [Next]_vars => Counted'
<1> SUFFICES ASSUME Alone, Typed, OneRowEach, Counted, [Next]_vars
             PROVE  Counted'
  OBVIOUS
<1>0. PICK w : Worker = {w}
  BY DEF Alone
<1> SUFFICES CountedIn(w)'
  BY <1>0 DEF Counted
<1> OneRow(w) /\ CountedIn(w) /\ w \in Worker /\ Malformed = {}
  BY <1>0 DEF Alone, OneRowEach, Counted
<1>1. CASE \/ \E type \in Type, meets \in SUBSET Template : Emit(type, meets)
           \/ Toggle
           \/ \E t \in Managed : Activate(t)
  <2>1. run' = run /\ queue' = queue /\ accepted' = accepted /\ aborts' = aborts
    BY <1>1, OutsideEffect DEF tables
  <2> QED BY <2>1, CountedKept
<1>2. CASE UNCHANGED vars
  BY <1>2, CountedKept DEF vars
<1>3. CASE Step(w) \/ Abort(w)
  BY <1>3, StartCounted, ConsumeCounted, FetchCounted, SendCounted, SettleCounted, EndCounted
     DEF Step
<1> QED BY <1>0, <1>1, <1>2, <1>3 DEF Next

(* A parent gets a message no more often than the retries of one row allow, *)
(* and once more for each run that died between sending it and committing:  *)
(* no run starts counting again, and none sends a row twice.                *)
THEOREM RepeatsAreBounded == Alone => (Spec => []RepeatsBounded)
<1> SUFFICES ASSUME Alone
             PROVE  Spec => []RepeatsBounded
  OBVIOUS
<1>1. Init => Typed /\ OneRowEach /\ Counted
  <2> SUFFICES ASSUME Init
               PROVE  Typed /\ OneRowEach /\ Counted
    OBVIOUS
  <2>1. /\ \A w \in Worker : /\ run[w].batch = {} /\ run[w].done = {}
                             /\ run[w].item = {} /\ run[w].phase # "consume"
                             /\ DOMAIN run[w].rows = {} /\ DOMAIN run[w].loaded = {}
        /\ consumed = {} /\ DOMAIN queue = {} /\ DOMAIN accepted = {}
    BY DEF Init, Idle
  <2>2. \A w \in Worker : DOMAIN View(w) = {}
    BY <2>1, ViewAfter
  <2>3. Typed
    BY InitTyped
  <2>4. OneRowEach
    BY <2>1, <2>2 DEF OneRowEach, OneRow
  <2>5. Counted
    BY <2>1, <2>2 DEF Counted, CountedIn, Delivers
  <2> QED BY <2>3, <2>4, <2>5
<1>2. Typed /\ OneRowEach /\ Counted /\ [Next]_vars => (Typed /\ OneRowEach /\ Counted)'
  BY NextTyped, NextOneRow, NextCounted
<1>3. Typed /\ Counted => RepeatsBounded
  <2> SUFFICES ASSUME Typed, Counted, NEW m \in DOMAIN accepted
               PROVE  accepted[m] <= MaxRetries + aborts
    BY DEF RepeatsBounded
  <2>1. PICK w \in Worker : CountedIn(w)
    BY DEF Alone, Counted
  <2>2. accepted[m] = Times(m) /\ Times(m) \in Nat /\ aborts \in Nat /\ MaxRetries \in Nat
    BY BeforeOK, NotificationAssumption DEF Times
  <2>3. CASE \A r \in DOMAIN View(w) : Told(r) # m
    <3>1. Times(m) <= aborts
      BY <2>1, <2>3 DEF CountedIn
    <3> QED BY <2>2, <3>1
  <2>4. CASE \E r \in DOMAIN View(w) : Told(r) = m
    <3>1. PICK r \in DOMAIN View(w) : Told(r) = m
      BY <2>4
    <3>2. CountedRow(w, r)
      BY <2>1, <3>1 DEF CountedIn
    <3>3. /\ Before(r) \in RowStates
          /\ Before(r).status = "PENDING" => Before(r).retries < MaxRetries
      BY BeforeOK
    <3>4. CASE r \in Tried(w)
      <4>1. Before(r).status = "PENDING"
        BY <2>1, <3>4 DEF CountedIn, Delivers, Tried, Typed, RunOK
      <4>2. Times(m) <= aborts + Before(r).retries + 1
        BY <3>1, <3>2, <3>4 DEF CountedRow
      <4> QED BY <2>2, <3>3, <4>1, <4>2, BeforeOK
    <3>5. CASE r \notin Tried(w)
      <4>1. View(w)[r] = Before(r) /\ Times(m) <= aborts + Attempts(Before(r))
        BY <3>1, <3>2, <3>5 DEF CountedRow
      <4>2. Before(r).status = "SENT" => Before(r).retries < MaxRetries
        BY <3>2, <4>1 DEF CountedRow
      <4>3. Attempts(Before(r)) <= MaxRetries
        BY <3>3, <4>2, NotificationAssumption DEF Attempts, RowStates
      <4> QED BY <2>2, <4>1, <4>3, BeforeOK
    <3> QED BY <3>4, <3>5
  <2> QED BY <2>3, <2>4
<1> QED BY <1>1, <1>2, <1>3, PTL DEF Spec
===============================================================================
