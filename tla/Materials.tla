------------------------------ MODULE Materials ------------------------------
(***************************************************************************)
(* Study materials and the questions extracted from them                   *)
(* (materials/services/material_service.py, ingest_service.py,             *)
(* repositories/material_repository.py).  A request reads when it begins   *)
(* and writes when it commits.  An ingest marks the material in the        *)
(* request; the run that reads its pages is a background task with a       *)
(* session of its own, which commits page after page.                      *)
(*                                                                         *)
(* A file lies under a key made of the new row's id, is never overwritten  *)
(* and never deleted: the row stands for it.  Titles, subjects, progress   *)
(* counters and the text of an error are left out.                         *)
(***************************************************************************)
EXTENDS Integers, Sequences, FiniteSets

CONSTANTS Librarian,    \* the administrators whose requests overlap
          Content,      \* what a file may hold, as its sha256 tells it
          Category, Extractable,   \* MaterialCategory, EXTRACTABLE_CATEGORIES
          Cohort,       \* the batches a material can be linked to
          Printed,      \* the question numbers the vision model may find on a page
          LastPage,     \* the pages of a file, at most MATERIALS_INGEST_MAX_PAGES
          MaxMaterials, MaxRuns   \* bounds

ASSUME MaterialsAssumption ==
    /\ Extractable \subseteq Category /\ LastPage \in Nat
    /\ IsFiniteSet(Printed)
    /\ MaxMaterials \in Nat /\ MaxRuns \in Nat

VARIABLES materials,  \* the rows of materials, as they were inserted
          questions,  \* the rows of questions extracted by a run
          runs,       \* the background tasks, as they were added
          visit,      \* what each administrator's request will write
          met,        \* history: materials two runs worked on at a time
          sought,      \* history: contents two uploads looked for at a time
          merged,     \* history: materials whose links two requests replaced at a time
          lost        \* history: materials a run of which died without a word

materialsVars == <<materials, questions, runs, visit, met, sought, merged, lost>>

NoVisit == [kind |-> "none"]
Keep == "keep"   \* a category the request does not name
None == <<>>     \* batches the request does not name; <<bs>> when it does

AtWork == {"queued", "loaded", "reading", "counted"}
Working(i) == {r \in DOMAIN runs : runs[r].material = i /\ runs[r].phase \in AtWork}
LiveCopies(s) == {i \in DOMAIN materials : materials[i].content = s /\ materials[i].live}
Extracted(i) == {q \in questions : q.material = i}
Counted(i) == Cardinality({q \in Extracted(i) : q.live})

MaterialsInit ==
    /\ materials = <<>> /\ questions = {} /\ runs = <<>>
    /\ visit = [c \in Librarian |-> NoVisit]
    /\ met = {} /\ sought = {} /\ merged = {} /\ lost = {}

-----------------------------------------------------------------------------
(* Batch links.                                                            *)

\* set_batch_links deletes the rows it sees and inserts its own; rows another
\* request commits after that DELETE stay, and the same row twice is refused.
Links(v) == v.unseen \cup v.batches[1]

Replaces(v, i) == v.kind \in {"relink", "update"} /\ v.material = i /\ v.batches # None

\* The visits once "c" committed its links of material i.
Superseded(c, i) ==
    [d \in Librarian |->
        IF d = c THEN NoVisit
        ELSE IF Replaces(visit[d], i)
             THEN [visit[d] EXCEPT !.unseen = (@ \cap visit[c].unseen) \cup visit[c].batches[1]]
             ELSE visit[d]]

\* What an update's other fields leave of a row.
Amended(row, v) == [row EXCEPT !.category = IF v.category = Keep THEN @ ELSE v.category]

CommitLinks(c) ==
    /\ \E i \in DOMAIN materials :
        /\ Replaces(visit[c], i) /\ visit[c].unseen \cap visit[c].batches[1] = {}
        /\ materials' = [materials EXCEPT ![i] =
               [Amended(@, visit[c]) EXCEPT !.batches = Links(visit[c]), !.asked = visit[c].batches[1]]]
        /\ merged' = IF \E d \in Librarian \ {c} : Replaces(visit[d], i) THEN merged \cup {i} ELSE merged
        /\ visit' = Superseded(c, i)
    /\ UNCHANGED <<questions, runs, met, sought, lost>>

-----------------------------------------------------------------------------
(* Uploads and changes of the row.                                         *)

\* upload_material up to the file: a live row of the same content is returned,
\* with its links replaced when the request names batches; two of them are
\* more than scalar_one_or_none takes.
BeginUpload(c, s, k, bs) ==
    /\ visit[c] = NoVisit
    /\ \/ /\ LiveCopies(s) = {}
          /\ visit' = [visit EXCEPT ![c] = [kind |-> "create", content |-> s, category |-> k, batches |-> bs]]
       \/ /\ bs # {} /\ Cardinality(LiveCopies(s)) = 1
          /\ \E i \in LiveCopies(s) :
                visit' = [visit EXCEPT ![c] = [kind |-> "relink", material |-> i, category |-> Keep,
                                               batches |-> <<bs>>, unseen |-> {}]]
    /\ UNCHANGED <<materials, questions, runs, met, sought, merged, lost>>

\* The uploads that found no copy of a content.
Creating(s) == {c \in Librarian : visit[c].kind = "create" /\ visit[c].content = s}

CommitCreate(c) ==
    /\ visit[c].kind = "create" /\ Len(materials) < MaxMaterials
    /\ materials' = Append(materials,
           [content |-> visit[c].content, category |-> visit[c].category, status |-> "uploaded",
            count |-> 0, batches |-> visit[c].batches, asked |-> visit[c].batches, live |-> TRUE])
    /\ sought' = IF Creating(visit[c].content) # {c} THEN sought \cup {visit[c].content} ELSE sought
    /\ visit' = [visit EXCEPT ![c] = NoVisit]
    /\ UNCHANGED <<questions, runs, met, merged, lost>>

\* update_material; the storage key keeps the category it was made of.
BeginUpdate(c, i, k, bs) ==
    /\ visit[c] = NoVisit /\ i \in DOMAIN materials /\ materials[i].live
    /\ visit' = [visit EXCEPT ![c] = [kind |-> "update", material |-> i, category |-> k,
                                      batches |-> bs, unseen |-> {}]]
    /\ UNCHANGED <<materials, questions, runs, met, sought, merged, lost>>

CommitUpdate(c) ==
    /\ visit[c].kind = "update" /\ visit[c].batches = None
    /\ materials' = [materials EXCEPT ![visit[c].material] = Amended(@, visit[c])]
    /\ visit' = [visit EXCEPT ![c] = NoVisit]
    /\ UNCHANGED <<questions, runs, met, sought, merged, lost>>

\* delete_material: the file and the questions stay.
DeleteMaterial(i) ==
    /\ i \in DOMAIN materials /\ materials[i].live
    /\ materials' = [materials EXCEPT ![i].live = FALSE]
    /\ UNCHANGED <<questions, runs, visit, met, sought, merged, lost>>

\* A request that fails or whose process ends is rolled back.
AbandonVisit(c) ==
    /\ visit[c] # NoVisit
    /\ visit' = [visit EXCEPT ![c] = NoVisit]
    /\ UNCHANGED <<materials, questions, runs, met, sought, merged, lost>>

-----------------------------------------------------------------------------
(* Ingest.                                                                 *)

\* start_ingest: 409 while an ingest is in flight; the check reads and does
\* not lock.
BeginStart(c, i) ==
    /\ visit[c] = NoVisit /\ i \in DOMAIN materials
    /\ materials[i].live /\ materials[i].status # "ingesting"
    /\ visit' = [visit EXCEPT ![c] = [kind |-> "start", material |-> i]]
    /\ UNCHANGED <<materials, questions, runs, met, sought, merged, lost>>

\* Its own commit, and the background task.
CommitStart(c) ==
    /\ visit[c].kind = "start" /\ Len(runs) < MaxRuns
    /\ LET i == visit[c].material
       IN  /\ materials' = [materials EXCEPT ![i].status = "ingesting"]
           /\ runs' = Append(runs, [material |-> i, phase |-> "queued", status |-> "none",
                                    count |-> 0, page |-> 0, seen |-> {}, total |-> 0, extracts |-> FALSE])
           /\ met' = IF Working(i) # {} THEN met \cup {i} ELSE met
    /\ visit' = [visit EXCEPT ![c] = NoVisit]
    /\ UNCHANGED <<questions, sought, merged, lost>>

\* The task loads the material: gone, it has nothing to do; without questions to
\* extract, it only counts.
Load(r) ==
    /\ runs[r].phase = "queued"
    /\ LET m == materials[runs[r].material]
       IN  runs' = [runs EXCEPT ![r] =
              IF ~ m.live THEN [@ EXCEPT !.phase = "ended"]
              ELSE IF m.category \in Extractable
              THEN [@ EXCEPT !.phase = "loaded", !.status = m.status, !.count = m.count, !.extracts = TRUE]
              ELSE [@ EXCEPT !.phase = "counted", !.status = m.status, !.count = m.count,
                             !.total = Counted(runs[r].material)]]
    /\ UNCHANGED <<materials, questions, visit, met, sought, merged, lost>>

\* The refs of a material's rows, deleted ones too.
Refs(i) == {<<q.page, q.number>> : q \in Extracted(i)}

\* The file is rendered, the refs that are there already are read.
Gather(r) ==
    /\ runs[r].phase = "loaded"
    /\ runs' = [runs EXCEPT ![r].phase = "reading", ![r].page = 1, ![r].seen = Refs(runs[r].material)]
    /\ UNCHANGED <<materials, questions, visit, met, sought, merged, lost>>

\* One page: the model finds some questions, those not seen are stored with the
\* commit of the page.
ReadPage(r, found) ==
    /\ runs[r].phase = "reading" /\ runs[r].page <= LastPage
    /\ LET p == runs[r].page
           new == {n \in found : <<p, n>> \notin runs[r].seen}
       IN  /\ questions' = questions \cup
                  [material : {runs[r].material}, page : {p}, number : new, run : {r}, live : {TRUE}]
           /\ runs' = [runs EXCEPT ![r].page = p + 1, ![r].seen = @ \cup ({p} \X new)]
    /\ UNCHANGED <<materials, visit, met, sought, merged, lost>>

\* _count_questions after the last page.
CountUp(r) ==
    /\ runs[r].phase = "reading" /\ runs[r].page > LastPage
    /\ runs' = [runs EXCEPT ![r].phase = "counted", ![r].total = Counted(runs[r].material)]
    /\ UNCHANGED <<materials, questions, visit, met, sought, merged, lost>>

\* _mark: of what equals the value loaded, nothing is written.
Marked(row, run) ==
    [row EXCEPT !.status = IF run.status = "ingested" THEN @ ELSE "ingested",
                !.count = IF run.total = run.count THEN @ ELSE run.total]

MarkIngested(r) ==
    /\ runs[r].phase = "counted"
    /\ materials' = [materials EXCEPT ![runs[r].material] = Marked(@, runs[r])]
    /\ runs' = [runs EXCEPT ![r].phase = "ended"]
    /\ UNCHANGED <<questions, visit, met, sought, merged, lost>>

\* An exception of a page, of the file or of the model: _mark_failed, in a
\* session of its own; the pages committed stay.
FailRun(r) ==
    /\ runs[r].extracts /\ runs[r].phase \in {"loaded", "reading", "counted"}
    /\ materials' = [materials EXCEPT ![runs[r].material].status = "ingest_failed"]
    /\ runs' = [runs EXCEPT ![r].phase = "ended"]
    /\ UNCHANGED <<questions, visit, met, sought, merged, lost>>

\* The process ends, or an exception passes _mark and _mark_failed.
LoseRun(r) ==
    /\ runs[r].phase \in AtWork
    /\ runs' = [runs EXCEPT ![r].phase = "ended"]
    /\ lost' = lost \cup {runs[r].material}
    /\ UNCHANGED <<materials, questions, visit, met, sought, merged>>

-----------------------------------------------------------------------------
(* The question bank: a question is deleted there.                         *)

\* question_count is not refreshed.
DropQuestion(q) ==
    /\ q \in questions /\ q.live
    /\ questions' = (questions \ {q}) \cup {[q EXCEPT !.live = FALSE]}
    /\ UNCHANGED <<materials, runs, visit, met, sought, merged, lost>>

-----------------------------------------------------------------------------

Shelving ==
    \/ \E c \in Librarian :
          \/ \E s \in Content, k \in Category, bs \in SUBSET Cohort : BeginUpload(c, s, k, bs)
          \/ \E i \in DOMAIN materials, k \in Category \cup {Keep}, bs \in {None} \cup {<<b>> : b \in SUBSET Cohort} :
                BeginUpdate(c, i, k, bs)
          \/ CommitCreate(c) \/ CommitUpdate(c) \/ CommitLinks(c) \/ AbandonVisit(c)
    \/ \E i \in DOMAIN materials : DeleteMaterial(i)

Ingesting ==
    \/ \E c \in Librarian : CommitStart(c) \/ \E i \in DOMAIN materials : BeginStart(c, i)
    \/ \E r \in DOMAIN runs :
          \/ Load(r) \/ Gather(r) \/ \E found \in SUBSET Printed : ReadPage(r, found)
          \/ CountUp(r) \/ MarkIngested(r) \/ FailRun(r) \/ LoseRun(r)

MaterialsNext == Shelving \/ Ingesting \/ \E q \in questions : DropQuestion(q)
MaterialsSpec == MaterialsInit /\ [][MaterialsNext]_materialsVars

-----------------------------------------------------------------------------
(* Correctness.                                                            *)

MaterialRow == [content : Content, category : Category, count : Nat, live : BOOLEAN,
                status : {"uploaded", "ingesting", "ingested", "ingest_failed"},
                batches : SUBSET Cohort, asked : SUBSET Cohort]
RunRow == [material : DOMAIN materials, phase : AtWork \cup {"ended"}, count : Nat, total : Nat,
           status : {"none", "uploaded", "ingesting", "ingested", "ingest_failed"},
           page : 0 .. LastPage + 1, seen : SUBSET ((1 .. LastPage) \X Printed), extracts : BOOLEAN]
QuestionRow == [material : DOMAIN materials, page : 1 .. LastPage, number : Printed,
                run : DOMAIN runs, live : BOOLEAN]
Visit ==
    {NoVisit}
    \cup [kind : {"create"}, content : Content, category : Category, batches : SUBSET Cohort]
    \cup [kind : {"relink", "update"}, material : DOMAIN materials, category : Category \cup {Keep},
          batches : {None} \cup {<<b>> : b \in SUBSET Cohort}, unseen : SUBSET Cohort]
    \cup [kind : {"start"}, material : DOMAIN materials]

\* The rows, the runs and the requests are well formed.
MaterialsTypeOK ==
    /\ materials \in Seq(MaterialRow) /\ runs \in Seq(RunRow)
    /\ questions \subseteq QuestionRow /\ IsFiniteSet(questions)
    /\ visit \in [Librarian -> Visit]
    /\ met \subseteq DOMAIN materials /\ sought \subseteq Content
    /\ merged \subseteq DOMAIN materials /\ lost \subseteq DOMAIN materials

\* A question of a page is stored once, deleted or not, however often the
\* material is ingested ("re-ingest is idempotent on source_ref"), unless two
\* runs worked on it at a time.
ExtractedOnce ==
    \A q1, q2 \in questions :
        q1.material = q2.material /\ q1.page = q2.page /\ q1.number = q2.number
            => q1 = q2 \/ q1.material \in met

\* The count of an ingested material is never below the questions it has.
CountCovers ==
    \A i \in DOMAIN materials :
        materials[i].status = "ingested" /\ i \notin met => Counted(i) <= materials[i].count

\* "Ingest already in progress": as long as a material refuses another ingest a
\* run is under way, unless one died without a word.
IngestingIsWorked ==
    \A i \in DOMAIN materials :
        materials[i].live /\ materials[i].status = "ingesting" => Working(i) # {} \/ i \in lost

\* The same content is on the shelf once, and can be uploaded again, unless two
\* uploads of it looked before either was stored.
ShelvedOnce == \A s \in Content : Cardinality(LiveCopies(s)) <= 1 \/ s \in sought

\* A material is linked to what the last request that named batches asked for,
\* unless two of them replaced its links at a time.
LinkedAsAsked == \A i \in DOMAIN materials : materials[i].batches = materials[i].asked \/ i \in merged

\* What the library shows is what was stored, asked for and is being done.
LibrarySound == ExtractedOnce /\ CountCovers /\ IngestingIsWorked /\ ShelvedOnce /\ LinkedAsAsked
=============================================================================
