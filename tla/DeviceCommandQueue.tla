------------------------- MODULE DeviceCommandQueue -------------------------
(***************************************************************************)
(* Provisioning of the attendance terminals: the queue of commands the     *)
(* portal fills and each terminal drains by polling, the results the       *)
(* terminal sends back, the mirror of the terminal's users and the backup  *)
(* of their templates (attendance/services/provisioning_service.py,        *)
(* repositories/device_command_repo.py, integrations/biomax/aidata.py).    *)
(*                                                                         *)
(* A portal request that tests what it read before it writes is two steps, *)
(* Begin and Commit; the handler of a terminal's request is one, for it    *)
(* locks the command it takes.  Terminals and the network are external: a  *)
(* response may be lost, a record may arrive late, twice or not at all.    *)
(***************************************************************************)
EXTENDS Integers, Sequences, FiniteSets, SequencesExt

CONSTANTS Device, User, Session,
          Requests,     \* the kinds of portal requests that are made
          Templates,    \* what a terminal may hold of a user: "face", "fps"
          MaxCommands,  \* bound: commands ever queued
          MaxLocal      \* bound: enrolments and deletions at the terminals

ASSUME QueueAssumption ==
    /\ Requests \subseteq {"push", "restore", "cross", "fleet", "refresh",
                           "cancel", "snapshot"}
    /\ IsFiniteSet(Device) /\ IsFiniteSet(User)
    /\ MaxCommands \in Nat /\ MaxLocal \in Nat

VARIABLES cmds,     \* device_commands, in the order they were created
          mirror,   \* device_users: the row, live or soft-deleted, per user
          backup,   \* device_user_biometrics: templates kept per user
          request,  \* the portal request each session is in
          device,   \* external: the templates of each user on the terminal
          inbox,    \* external: commands handed to a terminal, not yet executed
          wire,     \* external: results and enrolment records under way
          agent,    \* external: snapshots the on-site sync read, not posted
          local     \* external: how many local enrolments and deletions

vars == <<cmds, mirror, backup, request, device, inbox, wire, agent, local>>
tables == <<cmds, mirror, backup>>
terminals == <<device, inbox, wire, agent, local>>

InFlight == {"pending", "sent"}
Statuses == InFlight \cup {"confirmed", "failed", "cancelled"}
Kinds    == {"identity", "restore", "info"}

\* A row as it is queued; "by" is the portal request that queued it, and the
\* last two fields record what happened to it: how often it was handed out
\* and the templates it then carried.
Command(d, kind, users, source, by) ==
    [dev |-> d, kind |-> kind, users |-> users, source |-> source, by |-> by,
     status |-> "pending", created |-> Len(cmds), attempts |-> 0,
     carried |-> {}]

Idle == [kind |-> "idle"]
Nobody == [u \in {} |-> {}]

Init ==
    /\ cmds = <<>>
    /\ mirror = [d \in Device |-> Nobody]
    /\ backup = [d \in Device |-> Nobody]
    /\ request = [x \in Session |-> Idle]
    /\ device = [d \in Device |-> Nobody]
    /\ inbox = [d \in Device |-> {}]
    /\ wire = {}
    /\ agent = {}
    /\ local = 0

\* f with u mapped to v, whether or not u was in its domain.
With(f, u, v) == [k \in (DOMAIN f) \cup {u} |-> IF k = u THEN v ELSE f[k]]
At(f, u) == IF u \in DOMAIN f THEN f[u] ELSE {}

-----------------------------------------------------------------------------
(* What the portal reads.                                                   *)

\* inflight_user_ids: by device and user, whatever the command.
InFlightUsers(d) ==
    UNION {cmds[i].users : i \in {j \in DOMAIN cmds :
              /\ cmds[j].dev = d /\ cmds[j].status \in InFlight
              /\ cmds[j].kind # "info"}}

\* confirmed_face_user_ids: a confirmed command flagged restore_biometrics.
FaceRestored(d) ==
    UNION {cmds[i].users : i \in {j \in DOMAIN cmds :
              /\ cmds[j].dev = d /\ cmds[j].status = "confirmed"
              /\ cmds[j].kind = "restore"}}

LiveWithFace(d) == {u \in DOMAIN mirror[d] : mirror[d][u].live /\ mirror[d][u].face}

Mirrored(d) == {u \in DOMAIN mirror[d] : mirror[d][u].live}

FaceSources(u) == {d \in Device : "face" \in At(backup[d], u)}

\* Mutation: what is queued or handed out is not looked at.
FacesToPushAgain(source, target) ==
    {u \in User : /\ target # source /\ source \in FaceSources(u)
                  /\ u \notin LiveWithFace(target) \cup FaceRestored(target)}

\* The users whose face comes from source and who are missing it on target.
FacesToPush(source, target) ==
    {u \in User : /\ target # source /\ source \in FaceSources(u)
                  /\ u \notin LiveWithFace(target) \cup FaceRestored(target)
                                 \cup InFlightUsers(target)}

\* The rows of one transaction have the same created_at.
Queue(commands) ==
    /\ Len(cmds) + Cardinality(commands) <= MaxCommands
    /\ cmds' = cmds \o SetToSeq(commands)

Begin(x, r) ==
    /\ request[x] = Idle /\ r.kind \in Requests
    /\ request' = [request EXCEPT ![x] = r]
    /\ UNCHANGED <<tables, terminals>>

Commit(x, kind) ==
    /\ request[x].kind = kind
    /\ request' = [request EXCEPT ![x] = Idle]
    /\ UNCHANGED <<mirror, backup, terminals>>

\* confirmed_user_ids: any confirmed command that names the user.
Registered(d) ==
    UNION {cmds[i].users : i \in {j \in DOMAIN cmds :
              /\ cmds[j].dev = d /\ cmds[j].status = "confirmed"
              /\ cmds[j].kind # "info"}}

\* reconcile: what is left to do at one terminal, for the users with an account
\* here, "platform", some of whom have punched somewhere.  Names are left out.
Reconciled(d, platform, punched) ==
    LET enrolled == LiveWithFace(d) \cup punched
        there == Mirrored(d) \cup Registered(d)
    IN  [toPush |-> platform \ (enrolled \cup there),
         awaitingFace |-> (platform \cap there) \ enrolled,
         strangers |-> Mirrored(d) \ platform]

\* reconcile_institute: the same of all terminals together, each user once.
InstituteReconciled(platform, punched) ==
    LET enrolled == (UNION {LiveWithFace(d) : d \in Device}) \cup punched
        there == UNION {Mirrored(d) \cup Registered(d) : d \in Device}
    IN  [toPush |-> platform \ (enrolled \cup there),
         awaitingFace |-> (platform \cap there) \ enrolled,
         strangers |-> (UNION {Mirrored(d) : d \in Device}) \ platform]

\* render_dry_run and render_dry_run_staff: the others are updated.
Created(d, users) == users \ Mirrored(d)

-----------------------------------------------------------------------------
(* enqueue_students, enqueue_staff: users already in flight are skipped.    *)
BeginPush(x, d, users) ==
    LET new == users \ InFlightUsers(d)
    IN  /\ new # {}
        /\ Begin(x, [kind |-> "push", dev |-> d, users |-> new])

\* The unique index on (device, SET_USER_INFO, user) over the commands in
\* flight: one duplicate fails the whole insert.
IdentityInFlight(d, u) ==
    \E i \in DOMAIN cmds : /\ cmds[i].dev = d /\ cmds[i].kind = "identity"
                           /\ u \in cmds[i].users
                           /\ cmds[i].status \in InFlight

\* Mutation: no unique index.
CommitPushUnchecked(x) ==
    LET r == request[x]
    IN  /\ Commit(x, "push")
        /\ Queue({Command(r.dev, "identity", {u}, r.dev, "push") : u \in r.users})

CommitPush(x) ==
    LET r == request[x]
    IN  /\ Commit(x, "push")
        /\ IF \E u \in r.users : IdentityInFlight(r.dev, u)
             THEN UNCHANGED cmds
             ELSE Queue({Command(r.dev, "identity", {u}, r.dev, "push") :
                             u \in r.users})

(* sync_fleet_faces: the rows are computed from what it read.               *)
BeginFleet(x) ==
    \E source \in [User -> Device] :
        \* the device with the largest template, whichever that is
        /\ \A u \in User : FaceSources(u) # {} => source[u] \in FaceSources(u)
        /\ LET missing == {du \in Device \X User :
                              du[2] \in FacesToPush(source[du[2]], du[1])}
               rows == {Command(du[1], "restore", {du[2]}, source[du[2]], "fleet") :
                           du \in missing}
           IN  rows # {} /\ Begin(x, [kind |-> "fleet", rows |-> rows])

CommitFleet(x) ==
    /\ Commit(x, "fleet")
    /\ Queue({[r EXCEPT !.created = Len(cmds)] : r \in request[x].rows})

(* enqueue_restore and enqueue_cross_device_restore: every backed-up user,  *)
(* or those of a given set with a face, in flight or not.                   *)
Restore(d) ==
    LET users == {u \in DOMAIN backup[d] : backup[d][u] # {}}
    IN  /\ "restore" \in Requests /\ users # {}
        /\ Queue({Command(d, "restore", {u}, d, "restore") : u \in users})
        /\ UNCHANGED <<mirror, backup, request, terminals>>

CrossRestore(source, d, users) ==
    LET enrolled == {u \in users : source \in FaceSources(u)}
    IN  /\ "cross" \in Requests /\ source # d /\ enrolled # {}
        /\ Queue({Command(d, "restore", {u}, source, "cross") : u \in enrolled})
        /\ UNCHANGED <<mirror, backup, request, terminals>>

(* enqueue_user_info_refresh: the pending refreshes make way for a new one. *)
Refresh(d, users) ==
    LET stale == {i \in DOMAIN cmds : /\ cmds[i].dev = d /\ cmds[i].kind = "info"
                                     /\ cmds[i].status = "pending"}
        kept == [i \in DOMAIN cmds |->
                    IF i \in stale THEN [cmds[i] EXCEPT !.status = "cancelled"]
                    ELSE cmds[i]]
    IN  /\ "refresh" \in Requests /\ users # {}
        /\ Len(cmds) < MaxCommands
        /\ cmds' = Append(kept, Command(d, "info", users, d, "refresh"))
        /\ UNCHANGED <<mirror, backup, request, terminals>>

(* cancel_command: only a command read as pending; the update is by key.    *)
BeginCancel(x, i) ==
    /\ cmds[i].status = "pending"
    /\ Begin(x, [kind |-> "cancel", index |-> i])

CommitCancel(x) ==
    /\ Commit(x, "cancel")
    /\ cmds' = [cmds EXCEPT ![request[x].index].status = "cancelled"]

-----------------------------------------------------------------------------
(* The terminal's requests.                                                 *)

Oldest(indices) ==
    {i \in indices : \A j \in indices : cmds[i].created <= cmds[j].created}

\* Mutations: a command without an answer is handed out again, or holds up
\* those behind it.
NextUnanswered(d) ==
    Oldest({i \in DOMAIN cmds : cmds[i].dev = d /\ cmds[i].status \in InFlight})
NextAfterAnswer(d) ==
    Oldest({i \in DOMAIN cmds :
              /\ cmds[i].dev = d /\ cmds[i].status = "pending"
              /\ \A j \in DOMAIN cmds : cmds[j].dev = d => cmds[j].status # "sent"})

\* next_pending
NextPending(d) ==
    Oldest({i \in DOMAIN cmds : cmds[i].dev = d /\ cmds[i].status = "pending"})

\* build_restore_emit_payload: the templates the backup has now.
EmittedTemplates(c) ==
    IF c.kind = "restore"
      THEN UNION {At(backup[c.source], u) : u \in c.users}
      ELSE {}

\* _emit_next_command: one command, or none when nothing is pending; the
\* response reaches the terminal or is lost.
NothingPending(d) == NextPending(d) = {} /\ UNCHANGED vars

Poll(d) ==
    \E i \in NextPending(d), delivered \in BOOLEAN :
        /\ cmds' = [cmds EXCEPT ![i].status = "sent",
                               ![i].attempts = @ + 1,
                               ![i].carried = EmittedTemplates(cmds[i])]
        /\ inbox' = IF delivered THEN [inbox EXCEPT ![d] = @ \cup {i}] ELSE inbox
        /\ UNCHANGED <<mirror, backup, request, device, wire, agent, local>>

\* upsert_device_user sees live rows only, and its insert meets the unique
\* constraint on (device, user), which a soft-deleted row holds too.
CanUpsert(d, users) ==
    \A u \in users : u \in DOMAIN mirror[d] => mirror[d][u].live

MirrorRow(templates) == [live |-> TRUE, face |-> templates # {}]

Upserted(d, page) ==
    [u \in (DOMAIN mirror[d]) \cup DOMAIN page |->
        IF u \in DOMAIN page THEN MirrorRow(page[u]) ELSE mirror[d][u]]

\* Mutation: the row is overwritten with what the record has.
CapturedOver(d, page) ==
    LET kept == {u \in DOMAIN page : page[u] # {}}
    IN  [u \in (DOMAIN backup[d]) \cup kept |->
            IF u \in kept THEN page[u] ELSE backup[d][u]]

\* capture_biometrics: a modality the record lacks is kept.
Captured(d, page) ==
    LET kept == {u \in DOMAIN page : page[u] # {}}
    IN  [u \in (DOMAIN backup[d]) \cup kept |->
            At(backup[d], u) \cup (IF u \in kept THEN page[u] ELSE {})]

\* Mutation: a command that failed is queued again.
HandleResultRetrying(m) ==
    LET i == m.index
    IN  /\ m.type = "result"
        /\ cmds' = [cmds EXCEPT ![i].status =
                       IF m.ok THEN "confirmed" ELSE "pending"]
        /\ UNCHANGED <<mirror, backup, request>>

\* _handle_cmd_result: an error rolls back and the record is acked all the
\* same, so the terminal drops it.
HandleResult(m) ==
    LET i == m.index
        d == cmds[i].dev
        settle(status) == cmds' = [cmds EXCEPT ![i].status = status]
    IN  /\ m.type = "result"
        /\ \/ ~ m.ok /\ settle("failed") /\ UNCHANGED <<mirror, backup>>
           \/ m.ok /\ cmds[i].kind # "info"
              /\ settle("confirmed") /\ UNCHANGED <<mirror, backup>>
           \/ m.ok /\ cmds[i].kind = "info" /\ CanUpsert(d, DOMAIN m.page)
              /\ settle("confirmed")
              /\ mirror' = [mirror EXCEPT ![d] = Upserted(d, m.page)]
              /\ backup' = [backup EXCEPT ![d] = Captured(d, m.page)]
           \/ m.ok /\ cmds[i].kind = "info" /\ ~ CanUpsert(d, DOMAIN m.page)
              /\ UNCHANGED tables
        /\ UNCHANGED request

\* An enrolment record: the mirror and the backup are separate savepoints.
HandleEnrolment(m) ==
    LET page == [u \in {m.user} |-> m.templates]
    IN  /\ m.type = "enrolment"
        /\ IF CanUpsert(m.dev, {m.user})
             THEN mirror' = [mirror EXCEPT ![m.dev] = Upserted(m.dev, page)]
             ELSE UNCHANGED mirror
        /\ backup' = [backup EXCEPT ![m.dev] = Captured(m.dev, page)]
        /\ UNCHANGED <<cmds, request>>

\* The record is acked and dropped, or the ack is lost and it comes again.
Receive(m) ==
    /\ HandleResult(m) \/ HandleEnrolment(m)
    /\ wire' \in {wire, wire \ {m}}
    /\ UNCHANGED <<device, inbox, agent, local>>

\* replace_device_users: upsert the snapshot, soft-delete the other users;
\* a failing upsert fails the request.
PostSnapshot(snapshot) ==
    LET d == snapshot.dev
        page == snapshot.users
    IN  /\ agent' = agent \ {snapshot}
        /\ IF CanUpsert(d, DOMAIN page)
             THEN mirror' = [mirror EXCEPT ![d] =
                     [u \in DOMAIN Upserted(d, page) |->
                         [Upserted(d, page)[u] EXCEPT !.live = u \in DOMAIN page]]]
             ELSE UNCHANGED mirror
        /\ UNCHANGED <<cmds, backup, request, device, inbox, wire, local>>

-----------------------------------------------------------------------------
(* The terminals and the on-site sync, which are outside this code.        *)

Execute(d, i) ==
    LET c == cmds[i]
        page == [u \in c.users \cap DOMAIN device[d] |-> device[d][u]]
        ok(m) == wire' = wire \cup {[type |-> "result", index |-> i,
                                    ok |-> TRUE, page |-> m]}
    IN  /\ i \in inbox[d]
        /\ inbox' = [inbox EXCEPT ![d] = @ \ {i}]
        /\ \/ c.kind = "info" /\ ok(page) /\ UNCHANGED device
           \/ /\ c.kind # "info" /\ ok(Nobody)
              /\ device' = [device EXCEPT ![d] =
                     [u \in (DOMAIN @) \cup c.users |->
                         At(@, u) \cup (IF u \in c.users THEN c.carried ELSE {})]]
           \/ /\ wire' = wire \cup {[type |-> "result", index |-> i,
                                    ok |-> FALSE, page |-> Nobody]}
              /\ UNCHANGED device
        /\ UNCHANGED <<tables, request, agent, local>>

Enrol(d, u, templates) ==
    /\ local < MaxLocal /\ local' = local + 1
    /\ device' = [device EXCEPT ![d] = With(@, u, At(@, u) \cup templates)]
    /\ wire' = wire \cup {[type |-> "enrolment", dev |-> d, user |-> u,
                           templates |-> At(device[d], u) \cup templates]}
    /\ UNCHANGED <<tables, request, inbox, agent>>

Delete(d, u) ==
    /\ local < MaxLocal /\ local' = local + 1
    /\ u \in DOMAIN device[d]
    /\ device' = [device EXCEPT ![d] = [k \in (DOMAIN @) \ {u} |-> @[k]]]
    /\ UNCHANGED <<tables, request, inbox, wire, agent>>

Lose(m) ==
    /\ wire' = wire \ {m}
    /\ UNCHANGED <<tables, request, device, inbox, agent, local>>

ReadSnapshot(d) ==
    /\ "snapshot" \in Requests
    /\ agent' = agent \cup {[dev |-> d, users |-> device[d]]}
    /\ UNCHANGED <<tables, request, device, inbox, wire, local>>

Next ==
    \/ \E x \in Session :
          \/ \E d \in Device, users \in SUBSET User : BeginPush(x, d, users)
          \/ BeginFleet(x)
          \/ \E i \in DOMAIN cmds : BeginCancel(x, i)
          \/ CommitPush(x) \/ CommitFleet(x) \/ CommitCancel(x)
    \/ \E d \in Device :
          \/ Restore(d)
          \/ \E users \in SUBSET User :
                Refresh(d, users) \/ \E source \in Device : CrossRestore(source, d, users)
          \/ Poll(d) \/ NothingPending(d)
          \/ \E i \in inbox[d] : Execute(d, i)
          \/ \E u \in User :
                Delete(d, u) \/ \E t \in (SUBSET Templates) \ {{}} : Enrol(d, u, t)
          \/ ReadSnapshot(d)
    \/ \E m \in wire : Receive(m) \/ Lose(m)
    \/ \E snapshot \in agent : PostSnapshot(snapshot)

Spec == Init /\ [][Next]_vars

-----------------------------------------------------------------------------
(* Properties.                                                              *)

\* The shape of the tables.
TypeOK ==
    /\ \A i \in DOMAIN cmds :
          /\ cmds[i].dev \in Device /\ cmds[i].source \in Device
          /\ cmds[i].users \in (SUBSET User) \ {{}}
          /\ cmds[i].kind \in Kinds /\ cmds[i].status \in Statuses
          /\ cmds[i].created < i
          /\ cmds[i].attempts \in 0..1
          /\ cmds[i].carried \subseteq Templates
    /\ \A d \in Device :
          /\ mirror[d] \in [DOMAIN mirror[d] -> [live : BOOLEAN, face : BOOLEAN]]
          /\ backup[d] \in [DOMAIN backup[d] -> (SUBSET Templates) \ {{}}]
          /\ (DOMAIN mirror[d]) \cup (DOMAIN backup[d]) \subseteq User
          /\ inbox[d] \subseteq {i \in DOMAIN cmds : cmds[i].dev = d}

\* However pushes of several admins interleave with polls, cancellations and
\* late results, a terminal never has two registrations of one user queued or
\* handed out (the partial unique index of DeviceCommand).
OneIdentityInFlight ==
    \A i, j \in DOMAIN cmds :
        (/\ cmds[i].kind = "identity" /\ cmds[j].kind = "identity"
         /\ cmds[i].dev = cmds[j].dev /\ cmds[i].users = cmds[j].users
         /\ {cmds[i].status, cmds[j].status} \subseteq InFlight) => i = j

\* A command that left the queue never comes back to it: it is handed out at
\* most once, and what was settled is not in flight again.
NeverRequeued ==
    [][\A i \in DOMAIN cmds :
          /\ cmds[i].status # "pending" => cmds'[i].status # "pending"
          /\ cmds[i].status \notin InFlight => cmds'[i].status \notin InFlight]_vars

\* The templates are read when the command is handed out, which may be long
\* after it was queued, and from the terminal named then: a face that was
\* promised to another terminal is in what that terminal receives.
FaceRestoresCarryFace ==
    \A i \in DOMAIN cmds :
        (cmds[i].by \in {"fleet", "cross"} /\ cmds[i].attempts > 0)
            => "face" \in cmds[i].carried

\* Runs of the fleet sync do not repeat each other: a terminal has at most one
\* fleet restore of a user that is queued, handed out or done
\* (sync_fleet_faces: "each face is pushed to each device exactly once").
FleetPushesOnce ==
    \A i, j \in DOMAIN cmds :
        (/\ cmds[i].by = "fleet" /\ cmds[j].by = "fleet"
         /\ cmds[i].dev = cmds[j].dev /\ cmds[i].users = cmds[j].users
         /\ {cmds[i].status, cmds[j].status} \subseteq InFlight \cup {"confirmed"})
            => i = j

\* A face that is promised arrives, and no more than once.
FacesPushedOnce == FaceRestoresCarryFace /\ FleetPushesOnce

\* Only a snapshot of the whole terminal takes a user out of the mirror: a
\* page of GET_USER_INFO or a late enrolment record never does
\* (apply_user_info_page: "Upsert-only; never removes rows").
OnlySnapshotsRemove ==
    [][\A d \in Device : \A u \in DOMAIN mirror[d] :
          (mirror[d][u].live /\ ~ (u \in DOMAIN mirror'[d] /\ mirror'[d][u].live)) =>
              \E snapshot \in agent \ agent' :
                  snapshot.dev = d /\ u \notin DOMAIN snapshot.users]_vars

\* A record that lacks a template never costs a backed-up one.
BackupKeepsTemplates ==
    [][\A d \in Device : \A u \in DOMAIN backup[d] :
          backup[d][u] \subseteq At(backup'[d], u)]_vars

\* Who is at a terminal, by whatever way the portal learned of it, is listed as to be
\* pushed there again only when a snapshot lacks him and no push was confirmed, or
\* when a cancellation that read the push as pending overwrites its confirmation.
PushListsShrink ==
    [][\A d \in Device :
          \A u \in Reconciled(d, User, {}).toPush' \ Reconciled(d, User, {}).toPush :
              \/ /\ u \notin Registered(d)
                 /\ \E snapshot \in agent \ agent' :
                       snapshot.dev = d /\ u \notin DOMAIN snapshot.users
              \/ \E x \in Session : /\ CommitCancel(x)
                                     /\ u \in cmds[request[x].index].users]_<<cmds, mirror>>

\* The page of the institute says of each user what the pages of its terminals say
\* together: to be pushed when no terminal has him, waiting for a face when one
\* does and none has the face; and what a page wants pushed, a dry run creates.
ReconcilePagesAgree ==
    \A platform \in SUBSET User : \A punched \in SUBSET platform :
        LET page == [d \in Device |-> Reconciled(d, platform, punched)]
            all == InstituteReconciled(platform, punched)
            faces == UNION {LiveWithFace(d) : d \in Device}
        IN  /\ all.toPush = {u \in platform : \A d \in Device : u \in page[d].toPush}
            /\ all.awaitingFace = (UNION {page[d].awaitingFace : d \in Device}) \ faces
            /\ all.strangers = UNION {page[d].strangers : d \in Device}
            /\ \A d \in Device : page[d].toPush \subseteq Created(d, platform)

\* What the portal keeps of the terminals is lost by no reordering of records.
CopiesKept == OnlySnapshotsRemove /\ BackupKeepsTemplates /\ PushListsShrink

(* What the code's comments say and the code does not do.                   *)

\* replace_device_users: "every snapshot row is upserted".
SnapshotIsMirrored ==
    [][\A snapshot \in agent : PostSnapshot(snapshot) =>
          \A u \in DOMAIN snapshot.users :
              u \in DOMAIN mirror'[snapshot.dev] /\ mirror'[snapshot.dev][u].live]_vars
=============================================================================
