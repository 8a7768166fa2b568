------------------------------ MODULE MCCampus ------------------------------
(***************************************************************************)
(* Lectures on top of leave, accounts, and the services beside the office, *)
(* each on an instance of its own.                                         *)
(* A behaviour stays with one subject, "about":                            *)
(*   "leave"     one teacher's leave, quotas and the holiday calendar;     *)
(*   "lectures"  two teachers' lectures and a leave given meanwhile;       *)
(*   "timetable" their weekly timetable, holidays and makeup sessions;     *)
(*   "sessions"  logins, tokens, passwords and the status of accounts;     *)
(*   "roles"     the status and the roles of accounts;                     *)
(*   "locks"     failed logins, locks and the clock;                       *)
(*   "shelf"     uploads, links and deletions of one material;             *)
(*   "ingest"    the questions of one material, read again and again;      *)
(*   "plugins"   two plugins, one of which needs the other;                *)
(*   "bells"     the morning reminders of one student in two batches;      *)
(*   "choices"   the batches whose parents are told.                       *)
(***************************************************************************)
EXTENDS LectureReports, Access, Services

VARIABLE about
campusVars == <<lecturesVars, accessVars, serviceVars, about>>

\* One teacher asks for one day or two, a half day or whole ones.
MCSpans == {<<1, 1>>, <<1, 2>>, <<2, 2>>}

\* Two plans of one batch that meet, one in a room and one online, and a weekly
\* slot for the first.
Plan(t, room, from) == [teacher |-> t, batch |-> "b1", room |-> room, from |-> from, to |-> 3]
MCPlans == {Plan("t1", "r", 1), Plan("t2", "online", 2)}
MCTimetables == {{}, {[weekday |-> 1] @@ Plan("t1", "r", 1)}}
MCNeeds == {<<"p", "q">>}
MCQualified == {<<"t1", "b1">>, <<"t2", "b1">>}

\* Every account starts with the first password.
CampusInit ==
    /\ LecturesInit /\ AccessInit /\ accounts["a"].password = 1
    /\ ServicesInit
    /\ \A s \in Scholar : joined[s] = Stream
    /\ about \in {"leave", "lectures", "timetable", "sessions", "roles", "locks",
                  "shelf", "ingest", "plugins", "bells", "choices"}
    /\ about # "bells" => \A b \in Stream : daybook[b] = {}

\* The clerks are alike: the second begins beside the first.
OneTeacher ==
    /\ desk["c1"] = Free => desk'["c2"] = Free
    /\ \A n \in DOMAIN leaves' : leaves'[n].teacher = "t1"
    /\ \A c \in Clerk : desk'[c].kind = "apply" => desk'[c].leave.teacher = "t1"

\* A leave given by an administrator, beside lectures planned one by one, of which
\* the first may fall through for any reason where no leave is given; one of two stays.
OneByOne ==
    /\ LectureStep \/ (leaves = <<>> /\ AddLeave("t1", <<1, 1>>) /\ UNCHANGED lectureTables)
    /\ timetable' = {} /\ madeUp' = {}
    /\ \A n \in DOMAIN lectures' : lectures'[n].reason = "other" => n = 1 /\ leaves' = <<>>
    /\ Len(lectures') = 2 => \E n \in DOMAIN lectures' : ~ lectures'[n].deleted

\* Holidays entered before the first lecture and taken back at any time, beside
\* lectures of the teacher in the timetable; nobody stands in, and who does not
\* come is the teacher.
Weekly ==
    /\ \/ LectureStep
       \/ /\ \/ lectures = <<>> /\ \E d \in Holidays : BeginHoliday("c1", d) \/ CommitHoliday("c1")
             \/ \E n \in DOMAIN holidays : DeleteHoliday(n)
          /\ UNCHANGED lectureTables
    /\ \A n \in DOMAIN lectures' :
          /\ lectures'[n].teacher = "t1" /\ lectures'[n].substitute = NoTeacher
          /\ lectures'[n].reason # "other"

\* What the requests of a subject write.
Columns == UNION {DOMAIN work'[d].columns : d \in {e \in Desk : work'[e] # NoWork}}
Issuing == \E d \in Desk : work'[d] # NoWork /\ work'[d].issued # <<>>
Granting == \E d \in Desk : work'[d] # NoWork /\ work'[d].granted # <<>>

\* Sessions and leave go on until requests have met, roles and locks after it;
\* sessions and locks are those of the teacher, and only locks look at the clock.
OfTeacher == \A d \in Desk : work'[d] # NoWork => work'[d].user = "b"
Accounts ==
    \/ about = "sessions" /\ clock' = 0 /\ ~ crossed /\ OfTeacher /\ ~ Granting
         /\ Columns \subseteq {"status", "password"}
    \/ about = "roles" /\ clock' = 0 /\ ~ Issuing /\ Columns \subseteq {"status"}
    \/ about = "locks" /\ OfTeacher /\ ~ Granting /\ Len(tokens') <= 1
         /\ Columns \subseteq {"failed", "lockedUntil"}

\* Links to one batch or the other of two copies of a test.
Shelf ==
    /\ Shelving
    /\ \A c \in Librarian :
          /\ visit'[c].kind \in {"create", "update"} => visit'[c].category \in {"test", Keep}
          /\ visit'[c].kind = "create" => visit'[c].batches = {"b1"}
          /\ visit'[c].kind \in {"relink", "update"} => visit'[c].batches \in {<<{"b1"}>>, <<{"b2"}>>}

\* A test that is on the shelf is ingested; from the first run on it may be made
\* a note or deleted, and questions may be.
Ingest ==
    /\ \/ Ingesting \/ (\E q \in questions : DropQuestion(q))
       \/ (materials = <<>> \/ runs # <<>>) /\ Shelving
    /\ \A c \in Librarian :
          /\ visit'[c].kind = "create" => /\ c = "l1" /\ materials = <<>>
                                         /\ visit'[c].batches = {} /\ visit'[c].category = "test"
          /\ visit'[c].kind # "relink"
          /\ visit'[c].kind = "update" => /\ c = "l2" /\ visit'[c].batches = None
                                         /\ visit'[c].category = "notes" /\ materials[1].category = "test"

\* A setting is looked for before a plugin is first enabled.
Installing ==
    /\ PluginsNext
    /\ \A o \in Installer : order'[o].kind = "setting" => \A p \in PluginName : ~ registry[p].enabled
    /\ (\E x \in DOMAIN settings : settings'[x] > 0) => \A o \in Installer : order'[o].kind \notin Kinds

\* One request chooses before the hour of the reminders; two do at any other time.
Mornings ==
    /\ RemindersNext
    /\ choosing'["c2"] = NotChoosing
    /\ choosing'["c1"] # NotChoosing => morning' = "before"
Choosing ==
    /\ UNCHANGED <<daybook, morning, master, joined, reminders, firing>>
    /\ RemindersNext
    /\ \A c \in Chooser : choosing'[c] # NotChoosing => choosing'[c].wanted # {}

BesideTheOffice ==
    \/ /\ (about = "shelf" /\ Shelf) \/ (about = "ingest" /\ Ingest)
       /\ UNCHANGED <<pluginsVars, remindersVars>>
    \/ about = "plugins" /\ Installing /\ UNCHANGED <<materialsVars, remindersVars>>
    \/ /\ (about = "bells" /\ Mornings) \/ (about = "choices" /\ Choosing)
       /\ UNCHANGED <<materialsVars, pluginsVars>>

CampusNext ==
    \/ /\ about = "leave" /\ ~ raced
       /\ LeaveNext /\ OneTeacher /\ UNCHANGED <<lectureTables, accessVars, serviceVars, about>>
    \/ /\ ~ raced
       /\ (about = "lectures" /\ OneByOne) \/ (about = "timetable" /\ Weekly)
       /\ UNCHANGED <<accessVars, serviceVars, about>>
    \/ AccessNext /\ Accounts /\ UNCHANGED <<lecturesVars, serviceVars, about>>
    \/ BesideTheOffice /\ UNCHANGED <<lecturesVars, accessVars, about>>

CampusSpec == CampusInit /\ [][CampusNext]_campusVars

\* The tables of every subject are well formed.
CampusTypeOK ==
    /\ LeaveTypeOK /\ LecturesTypeOK /\ AccessTypeOK /\ ServicesTypeOK
=============================================================================
