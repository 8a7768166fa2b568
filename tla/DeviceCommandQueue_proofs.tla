---------------------- MODULE DeviceCommandQueue_proofs ----------------------
(***************************************************************************)
(* For any number of terminals, users, sessions and commands: the tables   *)
(* keep their shape, a command is handed out once, a terminal never has    *)
(* two registrations of one user in flight, and a face that was promised   *)
(* is in what the terminal receives, which gets it once.                   *)
(***************************************************************************)
EXTENDS DeviceCommandQueue, FiniteSetTheorems, SequenceTheorems, TLAPS

Cmd == [dev: Device, kind: Kinds, users: (SUBSET User) \ {{}}, source: Device,
        by: Requests, status: Statuses, created: Nat, attempts: 0 .. 1,
        carried: SUBSET Templates]

\* Maps from some of the users.
UserMap(S) == UNION {[users -> S] : users \in SUBSET User}
MirrorRows == [live: BOOLEAN, face: BOOLEAN]

CommandsOK ==
    /\ cmds \in Seq(Cmd)
    /\ \A i \in DOMAIN cmds : /\ cmds[i].created < i
                              /\ cmds[i].status = "pending" => cmds[i].attempts = 0

\* What a request has read is what its second step may queue or overwrite.
RequestsOK ==
    /\ DOMAIN request = Session
    /\ \A x \in Session :
          /\ request[x].kind = "push" =>
                /\ request[x].dev \in Device /\ request[x].users \in SUBSET User
                /\ "push" \in Requests
          /\ request[x].kind = "fleet" =>
                /\ request[x].rows \in SUBSET Cmd /\ IsFiniteSet(request[x].rows)
                /\ \A r \in request[x].rows :
                      /\ r.kind = "restore" /\ r.status = "pending" /\ r.attempts = 0
          /\ request[x].kind = "cancel" => request[x].index \in DOMAIN cmds

CopiesOK ==
    /\ mirror \in [Device -> UserMap(MirrorRows)]
    /\ backup \in [Device -> UserMap((SUBSET Templates) \ {{}})]

MessageOK(m) ==
    /\ m.type = "result" => /\ m.index \in DOMAIN cmds
                            /\ m.page \in UserMap(SUBSET Templates)
    /\ m.type = "enrolment" => /\ m.dev \in Device /\ m.user \in User
                               /\ m.templates \in SUBSET Templates

TerminalsOK ==
    /\ device \in [Device -> UserMap(SUBSET Templates)]
    /\ DOMAIN inbox = Device
    /\ \A d \in Device : inbox[d] \subseteq {i \in DOMAIN cmds : cmds[i].dev = d}
    /\ \A m \in wire : MessageOK(m)
    /\ \A snapshot \in agent : /\ snapshot.dev \in Device
                               /\ snapshot.users \in UserMap(SUBSET Templates)

\* The typing invariant.
Typed == CommandsOK /\ RequestsOK /\ CopiesOK /\ TerminalsOK

\* What every step does to the queue: commands stay as they were queued, their
\* status moves on, and new ones are pending.
Progress ==
    /\ CommandsOK'
    /\ DOMAIN cmds \subseteq DOMAIN cmds'
    /\ \A i \in DOMAIN cmds :
          /\ cmds'[i].dev = cmds[i].dev /\ cmds'[i].kind = cmds[i].kind
          /\ cmds'[i].users = cmds[i].users /\ cmds'[i].source = cmds[i].source
          /\ cmds'[i].by = cmds[i].by
          /\ cmds'[i].status = "pending" => cmds[i].status = "pending"
          /\ cmds'[i].status \in InFlight => cmds[i].status \in InFlight
    /\ \A i \in (DOMAIN cmds') \ DOMAIN cmds : cmds'[i].status = "pending"

-----------------------------------------------------------------------------
LEMMA TypedImpliesTypeOK == Typed => TypeOK
<1> SUFFICES ASSUME Typed
             PROVE  TypeOK
  OBVIOUS
<1>1. ASSUME NEW i \in DOMAIN cmds
      PROVE  /\ cmds[i].dev \in Device /\ cmds[i].source \in Device
             /\ cmds[i].users \in (SUBSET User) \ {{}}
             /\ cmds[i].kind \in Kinds /\ cmds[i].status \in Statuses
             /\ cmds[i].created < i
             /\ cmds[i].attempts \in 0..1
             /\ cmds[i].carried \subseteq Templates
  <2>1. cmds[i] \in Cmd
    BY DEF Typed, CommandsOK
  <2> QED BY <2>1 DEF Cmd, Typed, CommandsOK
<1>2. ASSUME NEW d \in Device
      PROVE  /\ mirror[d] \in [DOMAIN mirror[d] -> [live : BOOLEAN, face : BOOLEAN]]
             /\ backup[d] \in [DOMAIN backup[d] -> (SUBSET Templates) \ {{}}]
             /\ (DOMAIN mirror[d]) \cup (DOMAIN backup[d]) \subseteq User
             /\ inbox[d] \subseteq {i \in DOMAIN cmds : cmds[i].dev = d}
  <2>1. mirror[d] \in UserMap(MirrorRows) /\ backup[d] \in UserMap((SUBSET Templates) \ {{}})
    BY DEF Typed, CopiesOK
  <2>2. PICK S \in SUBSET User : mirror[d] \in [S -> MirrorRows]
    BY <2>1 DEF UserMap
  <2>3. PICK B \in SUBSET User : backup[d] \in [B -> (SUBSET Templates) \ {{}}]
    BY <2>1 DEF UserMap
  <2>4. inbox[d] \subseteq {i \in DOMAIN cmds : cmds[i].dev = d}
    BY DEF Typed, TerminalsOK
  <2> QED BY <2>2, <2>3, <2>4 DEF MirrorRows
<1> QED BY <1>1, <1>2 DEF TypeOK

LEMMA InitTyped == Init => Typed
<1> SUFFICES ASSUME Init
             PROVE  Typed
  OBVIOUS
<1>1. CommandsOK
  BY DEF Init, CommandsOK
<1>2. RequestsOK
  BY DEF Init, RequestsOK, Idle
<1>3. \A S : Nobody \in UserMap(S)
  <2> TAKE S
  <2>1. Nobody \in [{} -> S] /\ {} \in SUBSET User
    BY DEF Nobody
  <2> QED BY <2>1 DEF UserMap
<1>4. CopiesOK
  BY <1>3 DEF Init, CopiesOK
<1>5. TerminalsOK
  BY <1>3 DEF Init, TerminalsOK
<1> QED BY <1>1, <1>2, <1>4, <1>5 DEF Typed

-----------------------------------------------------------------------------
(* The queue.                                                               *)

\* The rows of a transaction are inserted in some order, each once.
LEMMA SetToSeqType ==
    ASSUME NEW S, IsFiniteSet(S)
    PROVE  /\ Cardinality(S) \in Nat
           /\ SetToSeq(S) \in [1 .. Cardinality(S) -> S]
           /\ SetToSeq(S) \in Seq(S)
           /\ Len(SetToSeq(S)) = Cardinality(S)
           /\ \A i, j \in 1 .. Cardinality(S) :
                  SetToSeq(S)[i] = SetToSeq(S)[j] => i = j
<1>1. Cardinality(S) \in Nat /\ ExistsBijection(1 .. Cardinality(S), S)
  BY FS_CardinalityType
<1>2. \E f \in [1 .. Cardinality(S) -> S] : IsInjective(f)
  BY <1>1 DEF ExistsBijection, Bijection, Injection
<1>3. SetToSeq(S) \in [1 .. Cardinality(S) -> S] /\ IsInjective(SetToSeq(S))
  BY <1>2 DEF SetToSeq
<1> HIDE DEF SetToSeq
<1> QED BY <1>1, <1>3 DEF IsInjective

\* The rows of a transaction come behind those that are there, each once.
LEMMA QueueAdds ==
    ASSUME CommandsOK, NEW S, IsFiniteSet(S), Queue(S)
    PROVE  /\ \A i \in DOMAIN cmds : i \in DOMAIN cmds' /\ cmds'[i] = cmds[i]
           /\ \A i \in (DOMAIN cmds') \ DOMAIN cmds : cmds'[i] \in S
           /\ \A i, j \in (DOMAIN cmds') \ DOMAIN cmds : cmds'[i] = cmds'[j] => i = j
<1> DEFINE new == SetToSeq(S)
<1>1. /\ new \in Seq(S) /\ Len(new) \in Nat
      /\ \A i \in 1 .. Len(new) : new[i] \in S
      /\ \A i, j \in 1 .. Len(new) : new[i] = new[j] => i = j
  BY SetToSeqType
<1>2. new \in Seq(Cmd \cup S)
  BY <1>1, SeqMonotonic
<1>3. cmds \in Seq(Cmd \cup S) /\ cmds \in Seq(Cmd)
  BY SeqMonotonic DEF CommandsOK
<1>4. cmds' = cmds \o new
  BY DEF Queue
<1> HIDE DEF new
<1>5. /\ cmds' \in Seq(Cmd \cup S)
      /\ Len(cmds') = Len(cmds) + Len(new)
      /\ \A i \in 1 .. Len(cmds) + Len(new) :
            cmds'[i] = IF i <= Len(cmds) THEN cmds[i] ELSE new[i - Len(cmds)]
  BY <1>2, <1>3, <1>4, ConcatProperties
<1>6. /\ Len(cmds) \in Nat /\ DOMAIN cmds = 1 .. Len(cmds)
      /\ DOMAIN cmds' = 1 .. Len(cmds) + Len(new)
  BY <1>1, <1>3, <1>5
<1>7. \A i \in DOMAIN cmds : i \in DOMAIN cmds' /\ cmds'[i] = cmds[i]
  BY <1>1, <1>5, <1>6
<1>8. \A i \in (DOMAIN cmds') \ DOMAIN cmds :
          i - Len(cmds) \in 1 .. Len(new) /\ cmds'[i] = new[i - Len(cmds)]
  BY <1>1, <1>5, <1>6
<1>9. \A i \in (DOMAIN cmds') \ DOMAIN cmds : cmds'[i] \in S
  BY <1>1, <1>8
<1>10. \A i, j \in (DOMAIN cmds') \ DOMAIN cmds : cmds'[i] = cmds'[j] => i = j
  <2> TAKE i, j \in (DOMAIN cmds') \ DOMAIN cmds
  <2>1. cmds'[i] = cmds'[j] => i - Len(cmds) = j - Len(cmds)
    BY <1>1, <1>8
  <2>2. i \in Int /\ j \in Int
    BY <1>1, <1>6
  <2> QED BY <1>6, <2>1, <2>2
<1> QED BY <1>7, <1>9, <1>10

LEMMA QueueAppends ==
    ASSUME CommandsOK, NEW S \in SUBSET Cmd, IsFiniteSet(S), Queue(S),
           \A c \in S : /\ c.status = "pending" /\ c.attempts = 0
                        /\ c.created <= Len(cmds)
    PROVE  /\ Progress
           /\ \A i \in DOMAIN cmds : cmds'[i] = cmds[i]
           /\ \A i \in (DOMAIN cmds') \ DOMAIN cmds : cmds'[i] \in S
           /\ \A i, j \in (DOMAIN cmds') \ DOMAIN cmds : cmds'[i] = cmds'[j] => i = j
<1>1. /\ \A i \in DOMAIN cmds : i \in DOMAIN cmds' /\ cmds'[i] = cmds[i]
      /\ \A i \in (DOMAIN cmds') \ DOMAIN cmds : cmds'[i] \in S
      /\ \A i, j \in (DOMAIN cmds') \ DOMAIN cmds : cmds'[i] = cmds'[j] => i = j
  BY QueueAdds
<1>2. cmds \in Seq(Cmd) /\ SetToSeq(S) \in Seq(Cmd) /\ cmds' = cmds \o SetToSeq(S)
  BY SetToSeqType, SeqMonotonic DEF CommandsOK, Queue
<1>3. cmds' \in Seq(Cmd)
  <2> HIDE DEF SetToSeq
  <2> QED BY <1>2, ConcatProperties
<1>4. CommandsOK'
  <2>1. ASSUME NEW i \in DOMAIN cmds'
        PROVE  cmds'[i].created < i /\ (cmds'[i].status = "pending" => cmds'[i].attempts = 0)
    <3>1. CASE i \in DOMAIN cmds
      BY <3>1, <1>1 DEF CommandsOK
    <3>2. CASE i \notin DOMAIN cmds
      <4>1. cmds'[i] \in S /\ cmds'[i] \in Cmd
        BY <3>2, <1>1
      <4>2. i > Len(cmds) /\ i \in Nat /\ Len(cmds) \in Nat
        BY <3>2, <1>2, <1>3
      <4> QED BY <4>1, <4>2 DEF Cmd
    <3> QED BY <3>1, <3>2
  <2> QED BY <2>1, <1>3 DEF CommandsOK
<1>5. Progress
  BY <1>1, <1>4 DEF Progress
<1> QED BY <1>1, <1>5

LEMMA SequenceOf ==
    ASSUME NEW S, NEW n \in Nat, NEW f, f = [j \in 1 .. n |-> f[j]],
           \A j \in 1 .. n : f[j] \in S
    PROVE  f \in Seq(S)
<1>1. f \in [1 .. n -> S]
  OBVIOUS
<1> QED BY <1>1, SeqDef

\* A command that is settled stays what it was.
LEMMA SettleProgresses ==
    ASSUME CommandsOK, NEW i \in DOMAIN cmds, NEW status \in Statuses \ InFlight,
           cmds' = [cmds EXCEPT ![i].status = status]
    PROVE  /\ Progress /\ DOMAIN cmds' = DOMAIN cmds
           /\ \A j \in DOMAIN cmds : /\ cmds'[j].attempts = cmds[j].attempts
                                     /\ cmds'[j].carried = cmds[j].carried
<1>1. cmds \in Seq(Cmd) /\ Len(cmds) \in Nat /\ DOMAIN cmds = 1 .. Len(cmds)
  BY DEF CommandsOK
<1>2. \A j \in DOMAIN cmds : cmds[j] \in Cmd
  BY <1>1
<1>3. /\ DOMAIN cmds' = DOMAIN cmds
      /\ cmds' = [j \in 1 .. Len(cmds) |-> cmds'[j]]
      /\ \A j \in DOMAIN cmds : cmds'[j] = IF j = i THEN [cmds[j] EXCEPT !.status = status]
                                           ELSE cmds[j]
  BY <1>1
<1>4. "pending" \notin Statuses \ InFlight
  BY DEF InFlight
<1>5. \A j \in DOMAIN cmds :
          /\ cmds'[j] \in Cmd
          /\ cmds'[j].dev = cmds[j].dev /\ cmds'[j].kind = cmds[j].kind
          /\ cmds'[j].users = cmds[j].users /\ cmds'[j].source = cmds[j].source
          /\ cmds'[j].by = cmds[j].by /\ cmds'[j].created = cmds[j].created
          /\ cmds'[j].attempts = cmds[j].attempts /\ cmds'[j].carried = cmds[j].carried
          /\ cmds'[j].status = IF j = i THEN status ELSE cmds[j].status
  BY <1>2, <1>3 DEF Cmd
<1>6. cmds' \in Seq(Cmd)
  BY <1>1, <1>3, <1>5, SequenceOf
<1>7. CommandsOK'
  BY <1>3, <1>4, <1>5, <1>6 DEF CommandsOK
<1> QED BY <1>3, <1>4, <1>5, <1>7 DEF Progress

\* The templates a command carries are some of those there are.
LEMMA EmittedType ==
    ASSUME CopiesOK, NEW c \in Cmd
    PROVE  EmittedTemplates(c) \in SUBSET Templates
<1>1. ASSUME NEW u \in c.users
      PROVE  At(backup[c.source], u) \in SUBSET Templates
  <2>1. PICK S \in SUBSET User : backup[c.source] \in [S -> (SUBSET Templates) \ {{}}]
    BY DEF CopiesOK, UserMap, Cmd
  <2> QED BY <2>1 DEF At
<1> QED BY <1>1 DEF EmittedTemplates

LEMMA PollProgresses ==
    ASSUME CommandsOK, CopiesOK, NEW i \in DOMAIN cmds, cmds[i].status = "pending",
           cmds' = [cmds EXCEPT ![i].status = "sent", ![i].attempts = @ + 1,
                                ![i].carried = EmittedTemplates(cmds[i])]
    PROVE  /\ Progress /\ DOMAIN cmds' = DOMAIN cmds
           /\ \A j \in DOMAIN cmds :
                 /\ j # i => cmds'[j] = cmds[j]
                 /\ j = i => cmds'[j].carried = EmittedTemplates(cmds[i])
<1> DEFINE carried == EmittedTemplates(cmds[i])
<1>1. cmds \in Seq(Cmd) /\ Len(cmds) \in Nat /\ DOMAIN cmds = 1 .. Len(cmds)
  BY DEF CommandsOK
<1>2. \A j \in DOMAIN cmds : cmds[j] \in Cmd
  BY <1>1
<1>3. carried \in SUBSET Templates
  BY <1>2, EmittedType
<1>4. cmds[i].attempts = 0
  BY DEF CommandsOK
<1> HIDE DEF carried
<1>5. /\ DOMAIN cmds' = DOMAIN cmds
      /\ cmds' = [j \in 1 .. Len(cmds) |-> cmds'[j]]
      /\ \A j \in DOMAIN cmds : j # i => cmds'[j] = cmds[j]
      /\ cmds'[i] = [cmds[i] EXCEPT !.status = "sent", !.attempts = 1, !.carried = carried]
  BY <1>1, <1>2, <1>4 DEF carried, Cmd
<1>6. /\ cmds[i] \in Cmd /\ cmds'[i] \in Cmd
      /\ cmds'[i].dev = cmds[i].dev /\ cmds'[i].kind = cmds[i].kind
      /\ cmds'[i].users = cmds[i].users /\ cmds'[i].source = cmds[i].source
      /\ cmds'[i].by = cmds[i].by /\ cmds'[i].created = cmds[i].created
      /\ cmds'[i].carried = carried /\ cmds'[i].status = "sent"
  <2> DEFINE c == cmds[i]
  <2>1. c \in Cmd
    BY <1>2
  <2>2. cmds'[i] = [dev |-> c.dev, kind |-> c.kind, users |-> c.users,
                    source |-> c.source, by |-> c.by, status |-> "sent",
                    created |-> c.created, attempts |-> 1, carried |-> carried]
    BY <1>5, <2>1 DEF Cmd
  <2>3. "sent" \in Statuses /\ 1 \in 0 .. 1
    BY DEF Statuses, InFlight
  <2>4. /\ c.dev \in Device /\ c.kind \in Kinds /\ c.users \in (SUBSET User) \ {{}}
        /\ c.source \in Device /\ c.by \in Requests /\ c.created \in Nat
    BY <2>1 DEF Cmd
  <2> QED BY <1>3, <2>1, <2>2, <2>3, <2>4 DEF Cmd
<1>7. cmds' \in Seq(Cmd)
  <2>1. \A j \in 1 .. Len(cmds) : cmds'[j] \in Cmd
    BY <1>1, <1>2, <1>5, <1>6
  <2> QED BY <1>1, <1>5, <2>1, SequenceOf
<1>8. CommandsOK'
  BY <1>5, <1>6, <1>7 DEF CommandsOK
<1>9. Progress
  BY <1>5, <1>6, <1>8 DEF Progress, InFlight
<1> QED BY <1>5, <1>6, <1>9 DEF carried

LEMMA RefreshProgresses ==
    ASSUME CommandsOK, NEW d \in Device, NEW users \in SUBSET User, Refresh(d, users)
    PROVE  /\ Progress
           /\ \A j \in DOMAIN cmds : /\ cmds'[j].attempts = cmds[j].attempts
                                     /\ cmds'[j].carried = cmds[j].carried
           /\ \A j \in (DOMAIN cmds') \ DOMAIN cmds : /\ cmds'[j].kind = "info"
                                                    /\ cmds'[j].by = "refresh"
<1> DEFINE stale == {i \in DOMAIN cmds : /\ cmds[i].dev = d /\ cmds[i].kind = "info"
                                        /\ cmds[i].status = "pending"}
           kept == [i \in DOMAIN cmds |->
                       IF i \in stale THEN [cmds[i] EXCEPT !.status = "cancelled"]
                       ELSE cmds[i]]
           new == Command(d, "info", users, d, "refresh")
<1>1. cmds \in Seq(Cmd) /\ Len(cmds) \in Nat /\ DOMAIN cmds = 1 .. Len(cmds)
  BY DEF CommandsOK
<1>2. \A j \in DOMAIN cmds : cmds[j] \in Cmd
  BY <1>1
<1>3. /\ new \in Cmd /\ new.status = "pending" /\ new.attempts = 0
      /\ new.created = Len(cmds) /\ new.kind = "info" /\ new.by = "refresh"
  BY <1>1 DEF Refresh, Command, Cmd, Kinds, Statuses, InFlight
<1>4. cmds' = Append(kept, new)
  BY DEF Refresh
<1>5. \A j \in DOMAIN cmds :
          /\ kept[j] \in Cmd
          /\ kept[j].dev = cmds[j].dev /\ kept[j].kind = cmds[j].kind
          /\ kept[j].users = cmds[j].users /\ kept[j].source = cmds[j].source
          /\ kept[j].by = cmds[j].by /\ kept[j].created = cmds[j].created
          /\ kept[j].attempts = cmds[j].attempts /\ kept[j].carried = cmds[j].carried
          /\ kept[j].status = cmds[j].status \/ kept[j].status = "cancelled"
  BY <1>2 DEF Cmd, Statuses
<1>6. kept = [j \in 1 .. Len(cmds) |-> kept[j]]
  BY <1>1
<1> HIDE DEF kept, new, stale
<1>7. kept \in Seq(Cmd)
  BY <1>1, <1>5, <1>6, SequenceOf
<1>8. Len(kept) = Len(cmds)
  BY <1>1, <1>6, <1>7
<1>9. /\ cmds' \in Seq(Cmd)
      /\ DOMAIN cmds' = 1 .. Len(cmds) + 1
      /\ \A j \in 1 .. Len(cmds) : cmds'[j] = kept[j]
      /\ cmds'[Len(cmds) + 1] = new
  BY <1>1, <1>3, <1>4, <1>7, <1>8
<1>10. CommandsOK'
  <2>1. ASSUME NEW j \in DOMAIN cmds'
        PROVE  cmds'[j].created < j /\ (cmds'[j].status = "pending" => cmds'[j].attempts = 0)
    <3>1. CASE j \in DOMAIN cmds
      BY <3>1, <1>1, <1>5, <1>9 DEF CommandsOK
    <3>2. CASE j = Len(cmds) + 1
      BY <3>2, <1>1, <1>3, <1>9
    <3> QED BY <3>1, <3>2, <1>1, <1>9
  <2> QED BY <2>1, <1>9 DEF CommandsOK
<1>11. Progress
  BY <1>1, <1>3, <1>5, <1>9, <1>10 DEF Progress, InFlight
<1> QED BY <1>1, <1>3, <1>5, <1>9, <1>11

LEMMA NothingProgresses ==
    ASSUME CommandsOK, cmds' = cmds
    PROVE  Progress
BY DEF CommandsOK, Progress

-----------------------------------------------------------------------------
(* The copies.                                                              *)

\* No template that is backed up is lost.
Growing ==
    \A d \in Device : \A u \in DOMAIN backup[d] : backup[d][u] \subseteq At(backup'[d], u)

LEMMA StillGrowing ==
    ASSUME CopiesOK, UNCHANGED <<mirror, backup>>
    PROVE  CopiesOK' /\ Growing
BY DEF CopiesOK, Growing, At

LEMMA UpsertedType ==
    ASSUME CopiesOK, NEW d \in Device, NEW page \in UserMap(SUBSET Templates)
    PROVE  Upserted(d, page) \in UserMap(MirrorRows)
<1>1. PICK S \in SUBSET User : mirror[d] \in [S -> MirrorRows]
  BY DEF CopiesOK, UserMap
<1>2. PICK T \in SUBSET User : page \in [T -> SUBSET Templates]
  BY DEF UserMap
<1>3. \A u \in T : MirrorRow(page[u]) \in MirrorRows
  BY DEF MirrorRow, MirrorRows
<1>4. Upserted(d, page) \in [S \cup T -> MirrorRows]
  BY <1>1, <1>2, <1>3 DEF Upserted
<1>5. S \cup T \in SUBSET User
  OBVIOUS
<1> QED BY <1>4, <1>5 DEF UserMap

LEMMA CapturedType ==
    ASSUME CopiesOK, NEW d \in Device, NEW page \in UserMap(SUBSET Templates)
    PROVE  /\ Captured(d, page) \in UserMap((SUBSET Templates) \ {{}})
           /\ \A u \in DOMAIN backup[d] : backup[d][u] \subseteq At(Captured(d, page), u)
<1>1. PICK S \in SUBSET User : backup[d] \in [S -> (SUBSET Templates) \ {{}}]
  BY DEF CopiesOK, UserMap
<1>2. PICK T \in SUBSET User : page \in [T -> SUBSET Templates]
  BY DEF UserMap
<1> DEFINE kept == {u \in T : page[u] # {}}
           value(u) == At(backup[d], u) \cup (IF u \in kept THEN page[u] ELSE {})
<1>3. Captured(d, page) = [u \in S \cup kept |-> value(u)]
  BY <1>1, <1>2 DEF Captured
<1>4. \A u \in S \cup kept : value(u) \in (SUBSET Templates) \ {{}}
  BY <1>1, <1>2 DEF At
<1>5. S \cup kept \in SUBSET User
  OBVIOUS
<1>6. Captured(d, page) \in [S \cup kept -> (SUBSET Templates) \ {{}}]
  BY <1>3, <1>4
<1>7. \A u \in S : backup[d][u] \subseteq At(Captured(d, page), u)
  BY <1>1, <1>3 DEF At
<1> QED BY <1>1, <1>5, <1>6, <1>7 DEF UserMap

\* What reaches the backup of a terminal only adds to it.
LEMMA CaptureGrows ==
    ASSUME CopiesOK, NEW d \in Device, NEW page \in UserMap(SUBSET Templates),
           backup' = [backup EXCEPT ![d] = Captured(d, page)],
           mirror' = mirror \/ mirror' = [mirror EXCEPT ![d] = Upserted(d, page)]
    PROVE  CopiesOK' /\ Growing
<1>1. Upserted(d, page) \in UserMap(MirrorRows)
  BY UpsertedType
<1>2. Captured(d, page) \in UserMap((SUBSET Templates) \ {{}})
  BY CapturedType
<1>3. CopiesOK'
  BY <1>1, <1>2 DEF CopiesOK
<1>4. ASSUME NEW e \in Device, NEW u \in DOMAIN backup[e]
      PROVE  backup[e][u] \subseteq At(backup'[e], u)
  <2>1. CASE e = d
    <3>1. backup'[e] = Captured(d, page)
      BY <2>1 DEF CopiesOK
    <3> QED BY <2>1, <3>1, CapturedType
  <2>2. CASE e # d
    <3>1. backup'[e] = backup[e]
      BY <2>2
    <3> QED BY <3>1 DEF At
  <2> QED BY <2>1, <2>2
<1> QED BY <1>3, <1>4 DEF Growing

-----------------------------------------------------------------------------
(* What a step leaves alone.                                                *)
LEMMA KeepsTerminals ==
    ASSUME TerminalsOK, Progress, UNCHANGED terminals
    PROVE  TerminalsOK'
<1>1. /\ device' = device /\ inbox' = inbox /\ wire' = wire /\ agent' = agent
  BY DEF terminals
<1>2. \A m \in wire : MessageOK(m)'
  BY DEF TerminalsOK, MessageOK, Progress
<1>3. \A d \in Device : inbox'[d] \subseteq {i \in DOMAIN cmds' : cmds'[i].dev = d}
  BY <1>1 DEF TerminalsOK, Progress
<1> QED BY <1>1, <1>2, <1>3 DEF TerminalsOK

LEMMA KeepsRequests ==
    ASSUME RequestsOK, Progress, NEW x \in Session,
           request' = request \/ request' = [request EXCEPT ![x] = Idle]
    PROVE  RequestsOK'
<1>1. \A y \in Session : request'[y] = request[y] \/ request'[y] = Idle
  BY DEF RequestsOK
<1>2. DOMAIN request' = Session
  BY DEF RequestsOK
<1>3. ASSUME NEW y \in Session
      PROVE  /\ request'[y].kind = "push" =>
                   /\ request'[y].dev \in Device /\ request'[y].users \in SUBSET User
                   /\ "push" \in Requests
             /\ request'[y].kind = "fleet" =>
                   /\ request'[y].rows \in SUBSET Cmd /\ IsFiniteSet(request'[y].rows)
                   /\ \A r \in request'[y].rows :
                         r.kind = "restore" /\ r.status = "pending" /\ r.attempts = 0
             /\ request'[y].kind = "cancel" => request'[y].index \in DOMAIN cmds'
  BY <1>1 DEF RequestsOK, Progress, Idle
<1> QED BY <1>2, <1>3 DEF RequestsOK

\* Two registrations need two new ones, or a new one beside an old one.
LEMMA KeepsSingle ==
    ASSUME Progress, OneIdentityInFlight,
           \A i \in (DOMAIN cmds') \ DOMAIN cmds : cmds'[i].kind # "identity"
    PROVE  OneIdentityInFlight'
BY DEF Progress, OneIdentityInFlight

\* A command that carries a face to another terminal has one to carry.
HasFace(r) == r.kind = "restore" /\ \E u \in r.users : "face" \in At(backup[r.source], u)
ForOthers(r) == r.by \in {"fleet", "cross"}

Promised ==
    /\ \A i \in DOMAIN cmds : ForOthers(cmds[i]) => HasFace(cmds[i])
    /\ \A x \in Session : request[x].kind = "fleet" =>
          \A r \in request[x].rows : HasFace(r)
    /\ FaceRestoresCarryFace

LEMMA FacesStay ==
    ASSUME CopiesOK, Growing, NEW r, r.source \in Device, HasFace(r)
    PROVE  HasFace(r)'
<1>1. PICK u \in r.users : "face" \in At(backup[r.source], u)
  BY DEF HasFace
<1>2. u \in DOMAIN backup[r.source] /\ "face" \in backup[r.source][u]
  BY <1>1 DEF At
<1>3. "face" \in At(backup'[r.source], u)
  BY <1>2 DEF Growing
<1> QED BY <1>3 DEF HasFace

LEMMA KeepsPromises ==
    ASSUME Typed, Progress, Growing, Promised,
           \A x \in Session : request'[x].kind = "fleet" => request'[x] = request[x],
           \A i \in (DOMAIN cmds') \ DOMAIN cmds :
               ForOthers(cmds'[i]) => cmds'[i].source \in Device /\ HasFace(cmds'[i]),
           \A i \in DOMAIN cmds :
               \/ cmds'[i].attempts = cmds[i].attempts /\ cmds'[i].carried = cmds[i].carried
               \/ cmds'[i].carried = EmittedTemplates(cmds[i])
    PROVE  Promised'
<1>1. ASSUME NEW i \in DOMAIN cmds
      PROVE  /\ cmds[i].source \in Device
             /\ ForOthers(cmds'[i]) <=> ForOthers(cmds[i])
             /\ cmds'[i].kind = cmds[i].kind /\ cmds'[i].users = cmds[i].users
             /\ cmds'[i].source = cmds[i].source
  <2>1. cmds[i] \in Cmd
    BY DEF Typed, CommandsOK
  <2> QED BY <2>1 DEF Cmd, ForOthers, Progress
<1>2. ASSUME NEW i \in DOMAIN cmds', ForOthers(cmds'[i])
      PROVE  HasFace(cmds[i])'
  <2>1. CASE i \in DOMAIN cmds
    <3>1. HasFace(cmds[i])
      BY <2>1, <1>1, <1>2 DEF Promised
    <3>2. PICK u \in cmds[i].users : "face" \in At(backup[cmds[i].source], u)
      BY <3>1 DEF HasFace
    <3>3. "face" \in At(backup'[cmds[i].source], u)
      BY <3>2, <2>1, <1>1 DEF At, Growing
    <3> QED BY <3>1, <3>2, <3>3, <2>1, <1>1 DEF HasFace
  <2>2. CASE i \notin DOMAIN cmds
    <3> DEFINE r == cmds'[i]
    <3>1. r.source \in Device /\ HasFace(r)
      BY <2>2, <1>2
    <3>2. PICK u \in r.users : "face" \in At(backup[r.source], u)
      BY <3>1 DEF HasFace
    <3>3. "face" \in At(backup'[r.source], u)
      BY <3>1, <3>2 DEF At, Growing
    <3> QED BY <3>1, <3>2, <3>3 DEF HasFace
  <2> QED BY <2>1, <2>2
<1>3. ASSUME NEW x \in Session, request'[x].kind = "fleet", NEW r \in request'[x].rows
      PROVE  HasFace(r)'
  <2>1. r \in request[x].rows /\ request[x].kind = "fleet"
    BY <1>3
  <2>2. HasFace(r) /\ r.source \in Device
    BY <2>1 DEF Promised, Typed, RequestsOK, Cmd
  <2> QED BY <2>2, FacesStay DEF Typed
<1>4. ASSUME NEW i \in DOMAIN cmds', ForOthers(cmds'[i]), cmds'[i].attempts > 0
      PROVE  "face" \in cmds'[i].carried
  <2>1. i \in DOMAIN cmds
    BY <1>4 DEF Progress, CommandsOK
  <2>2. ForOthers(cmds[i]) /\ HasFace(cmds[i])
    BY <2>1, <1>1, <1>4 DEF Promised
  <2>3. CASE cmds'[i].attempts = cmds[i].attempts /\ cmds'[i].carried = cmds[i].carried
    BY <2>1, <2>2, <2>3, <1>4 DEF Promised, FaceRestoresCarryFace, ForOthers
  <2>4. CASE cmds'[i].carried = EmittedTemplates(cmds[i])
    BY <2>2, <2>4 DEF HasFace, EmittedTemplates
  <2> QED BY <2>1, <2>3, <2>4
<1>5. FaceRestoresCarryFace'
  BY <1>4 DEF FaceRestoresCarryFace, ForOthers
<1> QED BY <1>2, <1>3, <1>5 DEF Promised

-----------------------------------------------------------------------------
(* Step by step.                                                            *)

\* What every step keeps.
Kept ==
    /\ Typed' /\ Progress /\ Growing
    /\ OneIdentityInFlight => OneIdentityInFlight'
    /\ Promised => Promised'

\* A first step of a request only reads.
LEMMA BeginKeeps ==
    ASSUME Typed, NEW x \in Session, NEW r, Begin(x, r),
           r.kind = "push" => r.dev \in Device /\ r.users \in SUBSET User,
           r.kind = "fleet" =>
               /\ r.rows \in SUBSET Cmd /\ IsFiniteSet(r.rows)
               /\ \A c \in r.rows : /\ c.kind = "restore" /\ c.status = "pending"
                                    /\ c.attempts = 0 /\ HasFace(c),
           r.kind = "cancel" => r.index \in DOMAIN cmds
    PROVE  Kept
<1>1. /\ cmds' = cmds /\ UNCHANGED <<mirror, backup>> /\ UNCHANGED terminals
      /\ request' = [request EXCEPT ![x] = r] /\ r.kind \in Requests
  BY DEF Begin, tables
<1>2. Progress
  BY <1>1, NothingProgresses DEF Typed
<1>3. CopiesOK' /\ Growing
  BY <1>1, StillGrowing DEF Typed
<1>4. TerminalsOK'
  BY <1>1, <1>2, KeepsTerminals DEF Typed
<1>5. \A y \in Session : request'[y] = IF y = x THEN r ELSE request[y]
  BY <1>1 DEF Typed, RequestsOK
<1>6. RequestsOK'
  <2>1. DOMAIN request' = Session
    BY <1>1 DEF Typed, RequestsOK
  <2>2. ASSUME NEW y \in Session
        PROVE  /\ request'[y].kind = "push" =>
                     /\ request'[y].dev \in Device /\ request'[y].users \in SUBSET User
                     /\ "push" \in Requests
               /\ request'[y].kind = "fleet" =>
                     /\ request'[y].rows \in SUBSET Cmd /\ IsFiniteSet(request'[y].rows)
                     /\ \A c \in request'[y].rows :
                           c.kind = "restore" /\ c.status = "pending" /\ c.attempts = 0
               /\ request'[y].kind = "cancel" => request'[y].index \in DOMAIN cmds'
    <3>1. CASE y = x
      BY <3>1, <1>1, <1>5
    <3>2. CASE y # x
      BY <3>2, <1>1, <1>5 DEF Typed, RequestsOK
    <3> QED BY <3>1, <3>2
  <2> QED BY <2>1, <2>2 DEF RequestsOK
<1>7. OneIdentityInFlight => OneIdentityInFlight'
  BY <1>1 DEF OneIdentityInFlight
<1>8. Promised => Promised'
  <2> SUFFICES ASSUME Promised
               PROVE  Promised'
    OBVIOUS
  <2>1. backup' = backup
    BY <1>1
  <2>2. \A y \in Session : request'[y].kind = "fleet" =>
            \A c \in request'[y].rows : HasFace(c)'
    BY <1>5, <2>1 DEF Promised, HasFace
  <2>3. \A i \in DOMAIN cmds' : ForOthers(cmds[i])' => HasFace(cmds[i])'
    BY <1>1, <2>1 DEF Promised, HasFace, ForOthers
  <2>4. FaceRestoresCarryFace'
    BY <1>1 DEF Promised, FaceRestoresCarryFace
  <2> QED BY <2>2, <2>3, <2>4 DEF Promised
<1> QED BY <1>2, <1>3, <1>4, <1>6, <1>7, <1>8 DEF Kept, Typed, Progress

\* A step that ends at most one request and queues no registration.
LEMMA OtherKeeps ==
    ASSUME Typed, Progress, CopiesOK', Growing, TerminalsOK',
           request' = request \/ \E x \in Session : request' = [request EXCEPT ![x] = Idle],
           \A i \in (DOMAIN cmds') \ DOMAIN cmds :
               /\ cmds'[i].kind # "identity"
               /\ ForOthers(cmds'[i]) => cmds'[i].source \in Device
                                         /\ (Promised => HasFace(cmds'[i])),
           \A i \in DOMAIN cmds :
               \/ cmds'[i].attempts = cmds[i].attempts /\ cmds'[i].carried = cmds[i].carried
               \/ cmds'[i].carried = EmittedTemplates(cmds[i])
    PROVE  Kept
<1>1. RequestsOK'
  BY KeepsRequests DEF Typed, RequestsOK
<1>2. \A x \in Session : request'[x].kind = "fleet" => request'[x] = request[x]
  BY DEF Typed, RequestsOK, Idle
<1>3. OneIdentityInFlight => OneIdentityInFlight'
  BY KeepsSingle
<1>4. Promised => Promised'
  BY <1>2, KeepsPromises
<1> QED BY <1>1, <1>3, <1>4 DEF Kept, Typed, Progress

\* The answer to a poll: the oldest pending command is handed out.
LEMMA PollKeeps ==
    ASSUME Typed, NEW d \in Device, Poll(d)
    PROVE  Kept
<1>1. PICK i \in NextPending(d), delivered \in BOOLEAN :
          /\ cmds' = [cmds EXCEPT ![i].status = "sent", ![i].attempts = @ + 1,
                                  ![i].carried = EmittedTemplates(cmds[i])]
          /\ inbox' = IF delivered THEN [inbox EXCEPT ![d] = @ \cup {i}] ELSE inbox
          /\ UNCHANGED <<mirror, backup, request, device, wire, agent, local>>
  BY DEF Poll
<1>2. i \in DOMAIN cmds /\ cmds[i].dev = d /\ cmds[i].status = "pending"
  BY DEF NextPending, Oldest
<1>3. /\ Progress /\ DOMAIN cmds' = DOMAIN cmds
      /\ \A j \in DOMAIN cmds : /\ j # i => cmds'[j] = cmds[j]
                                /\ j = i => cmds'[j].carried = EmittedTemplates(cmds[i])
  BY <1>1, <1>2, PollProgresses DEF Typed
<1>4. CopiesOK' /\ Growing
  BY <1>1, StillGrowing DEF Typed
<1>5. TerminalsOK'
  <2>1. \A m \in wire : MessageOK(m)'
    BY <1>3 DEF Typed, TerminalsOK, MessageOK
  <2>2. \A e \in Device : inbox'[e] \subseteq {j \in DOMAIN cmds' : cmds'[j].dev = e}
    BY <1>1, <1>2, <1>3 DEF Typed, TerminalsOK, Progress
  <2>3. DOMAIN inbox' = Device
    BY <1>1 DEF Typed, TerminalsOK
  <2> QED BY <1>1, <2>1, <2>2, <2>3 DEF Typed, TerminalsOK
<1> QED BY <1>1, <1>3, <1>4, <1>5, OtherKeeps

\* Requests that look at what they read and queue restores at once.
LEMMA RestoresKeep ==
    ASSUME Typed, NEW S, IsFiniteSet(S), Queue(S),
           \A c \in S : \E d \in Device, u \in User, source \in Device, by \in Requests :
               /\ c = Command(d, "restore", {u}, source, by)
               /\ ForOthers(c) => "face" \in At(backup[source], u),
           UNCHANGED <<mirror, backup, request, terminals>>
    PROVE  Kept
<1>1. \A c \in S : /\ c \in Cmd /\ c.kind = "restore" /\ c.status = "pending"
                   /\ c.attempts = 0 /\ c.created <= Len(cmds)
                   /\ ForOthers(c) => HasFace(c)
  <2> TAKE c \in S
  <2>1. PICK d \in Device, u \in User, source \in Device, by \in Requests :
            /\ c = Command(d, "restore", {u}, source, by)
            /\ ForOthers(c) => "face" \in At(backup[source], u)
    OBVIOUS
  <2>2. Len(cmds) \in Nat
    BY DEF Typed, CommandsOK
  <2>3. /\ c = [dev |-> d, kind |-> "restore", users |-> {u}, source |-> source,
                by |-> by, status |-> "pending", created |-> Len(cmds),
                attempts |-> 0, carried |-> {}]
    BY <2>1 DEF Command
  <2>4. {u} \in (SUBSET User) \ {{}} /\ 0 \in 0 .. 1
    OBVIOUS
  <2>5. c \in Cmd
    BY <2>2, <2>3, <2>4 DEF Cmd, Kinds, Statuses, InFlight
  <2>6. ForOthers(c) => HasFace(c)
    <3>1. u \in c.users /\ c.source = source /\ c.kind = "restore"
      BY <2>3
    <3> QED BY <2>1, <3>1 DEF HasFace
  <2>7. c.created <= Len(cmds)
    BY <2>2, <2>3
  <2> QED BY <2>3, <2>5, <2>6, <2>7
<1>2. /\ Progress
      /\ \A i \in DOMAIN cmds : cmds'[i] = cmds[i]
      /\ \A i \in (DOMAIN cmds') \ DOMAIN cmds : cmds'[i] \in S
  BY <1>1, QueueAppends DEF Typed
<1>3. CopiesOK' /\ Growing
  BY StillGrowing DEF Typed
<1>4. TerminalsOK'
  BY <1>2, KeepsTerminals DEF Typed
<1>5. \A i \in (DOMAIN cmds') \ DOMAIN cmds :
          /\ cmds'[i].kind # "identity"
          /\ ForOthers(cmds'[i]) => cmds'[i].source \in Device /\ HasFace(cmds'[i])
  BY <1>1, <1>2 DEF Cmd
<1> QED BY <1>2, <1>3, <1>4, <1>5, OtherKeeps

LEMMA RestoreKeeps ==
    ASSUME Typed, NEW d \in Device, Restore(d)
    PROVE  Kept
<1> DEFINE users == {u \in DOMAIN backup[d] : backup[d][u] # {}}
           f == [u \in users |-> Command(d, "restore", {u}, d, "restore")]
           S == {Command(d, "restore", {u}, d, "restore") : u \in users}
<1>1. PICK T \in SUBSET User : backup[d] \in [T -> (SUBSET Templates) \ {{}}]
  BY DEF Typed, CopiesOK, UserMap
<1>2. users \in SUBSET User
  BY <1>1
<1>3. IsFiniteSet(users)
  BY <1>2, QueueAssumption, FS_Subset
<1>4. IsFiniteSet(S)
  <2>1. f \in Surjection(users, S)
    BY DEF Surjection
  <2> QED BY <1>3, <2>1, FS_Surjection
<1>5. Queue(S) /\ UNCHANGED <<mirror, backup, request, terminals>> /\ "restore" \in Requests
  BY DEF Restore
<1>6. \A c \in S : \E e \in Device, u \in User, source \in Device, by \in Requests :
          /\ c = Command(e, "restore", {u}, source, by)
          /\ ForOthers(c) => "face" \in At(backup[source], u)
  <2> TAKE c \in S
  <2>1. PICK u \in users : c = Command(d, "restore", {u}, d, "restore")
    OBVIOUS
  <2>2. ~ ForOthers(c)
    BY <2>1 DEF ForOthers, Command
  <2> QED BY <1>2, <1>5, <2>1, <2>2
<1> HIDE DEF S
<1> QED BY <1>4, <1>5, <1>6, RestoresKeep

LEMMA CrossRestoreKeeps ==
    ASSUME Typed, NEW d \in Device, NEW source \in Device, NEW users \in SUBSET User,
           CrossRestore(source, d, users)
    PROVE  Kept
<1> DEFINE enrolled == {u \in users : source \in FaceSources(u)}
           f == [u \in enrolled |-> Command(d, "restore", {u}, source, "cross")]
           S == {Command(d, "restore", {u}, source, "cross") : u \in enrolled}
<1>1. IsFiniteSet(enrolled)
  BY QueueAssumption, FS_Subset
<1>2. IsFiniteSet(S)
  <2>1. f \in Surjection(enrolled, S)
    BY DEF Surjection
  <2> QED BY <1>1, <2>1, FS_Surjection
<1>3. Queue(S) /\ UNCHANGED <<mirror, backup, request, terminals>> /\ "cross" \in Requests
  BY DEF CrossRestore
<1>4. \A c \in S : \E e \in Device, u \in User, from \in Device, by \in Requests :
          /\ c = Command(e, "restore", {u}, from, by)
          /\ ForOthers(c) => "face" \in At(backup[from], u)
  <2> TAKE c \in S
  <2>1. PICK u \in enrolled : c = Command(d, "restore", {u}, source, "cross")
    OBVIOUS
  <2>2. u \in User /\ "face" \in At(backup[source], u)
    BY DEF FaceSources
  <2> QED BY <1>3, <2>1, <2>2
<1> HIDE DEF S
<1> QED BY <1>2, <1>3, <1>4, RestoresKeep

LEMMA BeginFleetKeeps ==
    ASSUME Typed, NEW x \in Session, BeginFleet(x)
    PROVE  Kept
<1>1. PICK source \in [User -> Device] :
          /\ \A u \in User : FaceSources(u) # {} => source[u] \in FaceSources(u)
          /\ LET missing == {du \in Device \X User :
                                du[2] \in FacesToPush(source[du[2]], du[1])}
                 rows == {Command(du[1], "restore", {du[2]}, source[du[2]], "fleet") :
                             du \in missing}
             IN  Begin(x, [kind |-> "fleet", rows |-> rows])
  BY DEF BeginFleet
<1> DEFINE missing == {du \in Device \X User :
                          du[2] \in FacesToPush(source[du[2]], du[1])}
           row(du) == Command(du[1], "restore", {du[2]}, source[du[2]], "fleet")
           rows == {row(du) : du \in missing}
<1>2. IsFiniteSet(rows)
  <2>1. IsFiniteSet(Device \X User)
    BY QueueAssumption, FS_Product
  <2>2. missing \in SUBSET (Device \X User)
    OBVIOUS
  <2>3. IsFiniteSet(missing)
    BY <2>1, <2>2, FS_Subset
  <2>4. [du \in missing |-> row(du)] \in Surjection(missing, rows)
    BY DEF Surjection
  <2> QED BY <2>3, <2>4, FS_Surjection
<1>3. Len(cmds) \in Nat /\ "fleet" \in Requests
  BY <1>1 DEF Typed, CommandsOK, Begin
<1>4. ASSUME NEW c \in rows
      PROVE  /\ c \in Cmd /\ c.kind = "restore" /\ c.status = "pending"
             /\ c.attempts = 0 /\ HasFace(c)
  <2>1. PICK du \in missing : c = row(du)
    OBVIOUS
  <2>2. PICK d \in Device, u \in User :
            du[1] = d /\ du[2] = u /\ u \in FacesToPush(source[u], d)
    BY <2>1
  <2>3. c = [dev |-> d, kind |-> "restore", users |-> {u}, source |-> source[u],
             by |-> "fleet", status |-> "pending", created |-> Len(cmds),
             attempts |-> 0, carried |-> {}]
    BY <2>1, <2>2 DEF Command
  <2>4. {u} \in (SUBSET User) \ {{}} /\ 0 \in 0 .. 1 /\ source[u] \in Device
    OBVIOUS
  <2>5. c \in Cmd
    BY <1>3, <2>3, <2>4 DEF Cmd, Kinds, Statuses, InFlight
  <2>6. "face" \in At(backup[source[u]], u)
    BY <2>2 DEF FacesToPush, FaceSources
  <2>7. u \in c.users /\ c.source = source[u]
    BY <2>3
  <2> QED BY <2>3, <2>5, <2>6, <2>7 DEF HasFace
<1>5. Begin(x, [kind |-> "fleet", rows |-> rows])
  BY <1>1
<1> HIDE DEF rows
<1> QED BY <1>2, <1>4, <1>5, BeginKeeps

LEMMA CommitFleetKeeps ==
    ASSUME Typed, NEW x \in Session, CommitFleet(x)
    PROVE  Kept
<1> DEFINE rows == request[x].rows
           now(r) == [r EXCEPT !.created = Len(cmds)]
           S == {now(r) : r \in rows}
<1>1. /\ request[x].kind = "fleet" /\ Queue(S)
      /\ request' = [request EXCEPT ![x] = Idle]
      /\ UNCHANGED <<mirror, backup>> /\ UNCHANGED terminals
  BY DEF CommitFleet, Commit
<1>2. /\ rows \in SUBSET Cmd /\ IsFiniteSet(rows)
      /\ \A r \in rows : r.kind = "restore" /\ r.status = "pending" /\ r.attempts = 0
      /\ Promised => \A r \in rows : HasFace(r)
  BY <1>1 DEF Typed, RequestsOK, Promised
<1>3. IsFiniteSet(S)
  <2>1. [r \in rows |-> now(r)] \in Surjection(rows, S)
    BY DEF Surjection
  <2> QED BY <1>2, <2>1, FS_Surjection
<1>4. ASSUME NEW c \in S
      PROVE  /\ c \in Cmd /\ c.kind = "restore" /\ c.status = "pending"
             /\ c.attempts = 0 /\ c.created <= Len(cmds)
             /\ Promised => HasFace(c)
  <2>1. PICK r \in rows : c = now(r)
    OBVIOUS
  <2>2. Len(cmds) \in Nat
    BY DEF Typed, CommandsOK
  <2>3. r \in Cmd /\ r.kind = "restore" /\ r.status = "pending" /\ r.attempts = 0
    BY <1>2
  <2>4. /\ c \in Cmd /\ c.kind = r.kind /\ c.status = r.status
        /\ c.attempts = r.attempts /\ c.created = Len(cmds)
        /\ c.users = r.users /\ c.source = r.source
    BY <2>1, <2>2, <2>3 DEF Cmd
  <2>5. Promised => HasFace(r)
    BY <1>2
  <2>6. HasFace(r) => HasFace(c)
    BY <2>4 DEF HasFace
  <2> QED BY <2>2, <2>3, <2>4, <2>5, <2>6
<1> HIDE DEF S
<1>5. S \in SUBSET Cmd
  BY <1>4
<1>6. /\ Progress
      /\ \A i \in DOMAIN cmds : cmds'[i] = cmds[i]
      /\ \A i \in (DOMAIN cmds') \ DOMAIN cmds : cmds'[i] \in S
  BY <1>1, <1>3, <1>4, <1>5, QueueAppends DEF Typed
<1>7. CopiesOK' /\ Growing
  BY <1>1, StillGrowing DEF Typed
<1>8. TerminalsOK'
  BY <1>1, <1>6, KeepsTerminals DEF Typed
<1>9. \A i \in (DOMAIN cmds') \ DOMAIN cmds :
          /\ cmds'[i].kind # "identity"
          /\ cmds'[i].source \in Device /\ (Promised => HasFace(cmds'[i]))
  BY <1>4, <1>6 DEF Cmd
<1> QED BY <1>1, <1>6, <1>7, <1>8, <1>9, OtherKeeps

\* The unique index lets a registration in when none of its users has one.
LEMMA CommitPushKeeps ==
    ASSUME Typed, NEW x \in Session, CommitPush(x)
    PROVE  Kept
<1> DEFINE r == request[x]
           row(u) == Command(r.dev, "identity", {u}, r.dev, "push")
           S == {row(u) : u \in r.users}
<1>1. /\ r.kind = "push" /\ request' = [request EXCEPT ![x] = Idle]
      /\ UNCHANGED <<mirror, backup>> /\ UNCHANGED terminals
  BY DEF CommitPush, Commit
<1>2. r.dev \in Device /\ r.users \in SUBSET User /\ "push" \in Requests
  BY <1>1 DEF Typed, RequestsOK
<1>3. CopiesOK' /\ Growing
  BY <1>1, StillGrowing DEF Typed
<1>4. CASE cmds' = cmds
  <2>1. Progress
    BY <1>4, NothingProgresses DEF Typed
  <2>2. TerminalsOK'
    BY <1>1, <2>1, KeepsTerminals DEF Typed
  <2> QED BY <1>1, <1>3, <1>4, <2>1, <2>2, OtherKeeps
<1>5. CASE /\ ~ \E u \in r.users : IdentityInFlight(r.dev, u)
           /\ Queue(S)
  <2>1. IsFiniteSet(r.users)
    BY <1>2, QueueAssumption, FS_Subset
  <2>2. IsFiniteSet(S)
    <3>1. [u \in r.users |-> row(u)] \in Surjection(r.users, S)
      BY DEF Surjection
    <3> QED BY <2>1, <3>1, FS_Surjection
  <2>3. ASSUME NEW c \in S
        PROVE  /\ c \in Cmd /\ c.kind = "identity" /\ c.status = "pending"
               /\ c.attempts = 0 /\ c.created <= Len(cmds) /\ c.by = "push"
               /\ c.dev = r.dev /\ \E u \in r.users : c.users = {u} /\ c = row(u)
    <3>1. PICK u \in r.users : c = row(u)
      OBVIOUS
    <3>2. Len(cmds) \in Nat
      BY DEF Typed, CommandsOK
    <3>3. c = [dev |-> r.dev, kind |-> "identity", users |-> {u}, source |-> r.dev,
               by |-> "push", status |-> "pending", created |-> Len(cmds),
               attempts |-> 0, carried |-> {}]
      BY <3>1 DEF Command
    <3>4. {u} \in (SUBSET User) \ {{}} /\ 0 \in 0 .. 1
      BY <1>2
    <3>5. c \in Cmd
      BY <1>2, <3>2, <3>3, <3>4 DEF Cmd, Kinds, Statuses, InFlight
    <3>6. \E v \in r.users : c.users = {v} /\ c = row(v)
      <4>1. c.users = {u}
        BY <3>3
      <4> HIDE DEF row
      <4> QED BY <3>1, <4>1
    <3>7. /\ c.kind = "identity" /\ c.status = "pending" /\ c.attempts = 0
          /\ c.created = Len(cmds) /\ c.by = "push" /\ c.dev = r.dev
      BY <3>3
    <3> HIDE DEF row
    <3> QED BY <3>2, <3>5, <3>6, <3>7
  <2> HIDE DEF S
  <2>4. /\ Progress
        /\ \A i \in DOMAIN cmds : cmds'[i] = cmds[i]
        /\ \A i \in (DOMAIN cmds') \ DOMAIN cmds : cmds'[i] \in S
        /\ \A i, j \in (DOMAIN cmds') \ DOMAIN cmds : cmds'[i] = cmds'[j] => i = j
    <3>1. S \in SUBSET Cmd
      BY <2>3
    <3> QED BY <1>5, <2>2, <2>3, <3>1, QueueAppends DEF Typed
  <2>5. TerminalsOK'
    BY <1>1, <2>4, KeepsTerminals DEF Typed
  <2>6. RequestsOK'
    BY <1>1, <2>4, KeepsRequests DEF Typed
  <2>7. Promised => Promised'
    <3>1. \A y \in Session : request'[y].kind = "fleet" => request'[y] = request[y]
      BY <1>1 DEF Typed, RequestsOK, Idle
    <3>2. \A i \in (DOMAIN cmds') \ DOMAIN cmds : ~ ForOthers(cmds'[i])
      BY <2>3, <2>4 DEF ForOthers
    <3> QED BY <1>3, <2>4, <3>1, <3>2, KeepsPromises
  <2>8. OneIdentityInFlight => OneIdentityInFlight'
    <3> SUFFICES ASSUME OneIdentityInFlight, NEW i \in DOMAIN cmds', NEW j \in DOMAIN cmds',
                        cmds'[i].kind = "identity", cmds'[j].kind = "identity",
                        cmds'[i].dev = cmds'[j].dev, cmds'[i].users = cmds'[j].users,
                        cmds'[i].status \in InFlight, cmds'[j].status \in InFlight
                 PROVE  i = j
      BY DEF OneIdentityInFlight
    \* a new registration beside an old one: the index refused it
    <3>1. ASSUME NEW k \in (DOMAIN cmds') \ DOMAIN cmds, NEW l \in DOMAIN cmds,
                 cmds'[k].dev = cmds'[l].dev, cmds'[k].users = cmds'[l].users,
                 cmds'[l].kind = "identity", cmds'[l].status \in InFlight
          PROVE  FALSE
      <4>1. PICK u \in r.users : cmds'[k].users = {u} /\ cmds'[k].dev = r.dev
        BY <2>3, <2>4
      <4>2. /\ cmds[l].dev = r.dev /\ u \in cmds[l].users
            /\ cmds[l].kind = "identity" /\ cmds[l].status \in InFlight
        BY <2>4, <3>1, <4>1
      <4> QED BY <1>5, <4>2 DEF IdentityInFlight
    <3>2. CASE i \in DOMAIN cmds /\ j \in DOMAIN cmds
      BY <2>4, <3>2 DEF OneIdentityInFlight
    \* two new ones are of two users
    <3>3. CASE i \notin DOMAIN cmds /\ j \notin DOMAIN cmds
      <4>1. PICK u \in r.users : cmds'[i].users = {u} /\ cmds'[i] = row(u)
        BY <2>3, <2>4, <3>3
      <4>2. PICK v \in r.users : cmds'[j].users = {v} /\ cmds'[j] = row(v)
        BY <2>3, <2>4, <3>3
      <4>3. u = v
        BY <4>1, <4>2
      <4> QED BY <2>4, <3>3, <4>1, <4>2, <4>3
    <3> QED BY <3>1, <3>2, <3>3
  <2> QED BY <1>3, <2>4, <2>5, <2>6, <2>7, <2>8 DEF Kept, Typed, Progress
<1> QED BY <1>4, <1>5 DEF CommitPush

LEMMA RefreshKeeps ==
    ASSUME Typed, NEW d \in Device, NEW users \in SUBSET User, Refresh(d, users)
    PROVE  Kept
<1>1. /\ Progress
      /\ \A j \in DOMAIN cmds : /\ cmds'[j].attempts = cmds[j].attempts
                                /\ cmds'[j].carried = cmds[j].carried
      /\ \A j \in (DOMAIN cmds') \ DOMAIN cmds : /\ cmds'[j].kind = "info"
                                                 /\ cmds'[j].by = "refresh"
  BY RefreshProgresses DEF Typed
<1>2. UNCHANGED <<mirror, backup, request, terminals>>
  BY DEF Refresh
<1>3. CopiesOK' /\ Growing
  BY <1>2, StillGrowing DEF Typed
<1>4. TerminalsOK'
  BY <1>1, <1>2, KeepsTerminals DEF Typed
<1> QED BY <1>1, <1>2, <1>3, <1>4, OtherKeeps DEF ForOthers

LEMMA CommitCancelKeeps ==
    ASSUME Typed, NEW x \in Session, CommitCancel(x)
    PROVE  Kept
<1> DEFINE i == request[x].index
<1>1. /\ i \in DOMAIN cmds /\ cmds' = [cmds EXCEPT ![i].status = "cancelled"]
      /\ request' = [request EXCEPT ![x] = Idle]
      /\ UNCHANGED <<mirror, backup>> /\ UNCHANGED terminals
  BY DEF CommitCancel, Commit, Typed, RequestsOK
<1> HIDE DEF i
<1>2. "cancelled" \in Statuses \ InFlight
  BY DEF Statuses, InFlight
<1>3. /\ Progress /\ DOMAIN cmds' = DOMAIN cmds
      /\ \A j \in DOMAIN cmds : /\ cmds'[j].attempts = cmds[j].attempts
                                /\ cmds'[j].carried = cmds[j].carried
  BY <1>1, <1>2, SettleProgresses DEF Typed
<1>4. CopiesOK' /\ Growing
  BY <1>1, StillGrowing DEF Typed
<1>5. TerminalsOK'
  BY <1>1, <1>3, KeepsTerminals DEF Typed
<1> QED BY <1>1, <1>3, <1>4, <1>5, OtherKeeps

\* A record that was received settles its command or adds to the copies.
LEMMA ReceiveKeeps ==
    ASSUME Typed, NEW m \in wire, Receive(m)
    PROVE  Kept
<1>1. /\ wire' \subseteq wire /\ request' = request
      /\ UNCHANGED <<device, inbox, agent, local>>
  BY DEF Receive, HandleResult, HandleEnrolment
<1>2. MessageOK(m)
  BY DEF Typed, TerminalsOK
<1>3. ASSUME Progress
      PROVE  TerminalsOK'
  <2>1. \A n \in wire' : MessageOK(n)'
    BY <1>1, <1>3 DEF Typed, TerminalsOK, MessageOK, Progress
  <2>2. \A e \in Device : inbox'[e] \subseteq {j \in DOMAIN cmds' : cmds'[j].dev = e}
    BY <1>1, <1>3 DEF Typed, TerminalsOK, Progress
  <2> QED BY <1>1, <2>1, <2>2 DEF Typed, TerminalsOK
<1>4. CASE HandleResult(m)
  <2> DEFINE i == m.index
             d == cmds[i].dev
  <2>1. i \in DOMAIN cmds /\ m.page \in UserMap(SUBSET Templates)
    BY <1>2, <1>4 DEF MessageOK, HandleResult
  <2>2. d \in Device
    <3>1. cmds[i] \in Cmd
      BY <2>1 DEF Typed, CommandsOK
    <3> QED BY <3>1 DEF Cmd
  <2>3. PICK status \in {"confirmed", "failed"} :
            cmds' = cmds \/ cmds' = [cmds EXCEPT ![i].status = status]
    BY <1>4 DEF HandleResult, tables
  <2>4. status \in Statuses \ InFlight
    BY <2>3 DEF Statuses, InFlight
  <2>5. /\ Progress /\ DOMAIN cmds' = DOMAIN cmds
        /\ \A j \in DOMAIN cmds : /\ cmds'[j].attempts = cmds[j].attempts
                                  /\ cmds'[j].carried = cmds[j].carried
    <3>1. CASE cmds' = cmds
      BY <3>1, NothingProgresses DEF Typed
    <3>2. CASE cmds' = [cmds EXCEPT ![i].status = status]
      <4> HIDE DEF i
      <4> QED BY <2>1, <2>4, <3>2, SettleProgresses DEF Typed
    <3> QED BY <2>3, <3>1, <3>2
  <2>6. \/ UNCHANGED <<mirror, backup>>
        \/ /\ mirror' = [mirror EXCEPT ![d] = Upserted(d, m.page)]
           /\ backup' = [backup EXCEPT ![d] = Captured(d, m.page)]
    BY <1>4 DEF HandleResult, tables
  <2>7. CopiesOK' /\ Growing
    <3> HIDE DEF d
    <3> QED BY <2>1, <2>2, <2>6, StillGrowing, CaptureGrows DEF Typed
  <2> QED BY <1>1, <1>3, <2>5, <2>7, OtherKeeps
<1>5. CASE HandleEnrolment(m)
  <2> DEFINE page == [u \in {m.user} |-> m.templates]
  <2>1. m.dev \in Device /\ m.user \in User /\ m.templates \in SUBSET Templates
    BY <1>2, <1>5 DEF MessageOK, HandleEnrolment
  <2>2. page \in UserMap(SUBSET Templates)
    <3>1. page \in [{m.user} -> SUBSET Templates] /\ {m.user} \in SUBSET User
      BY <2>1
    <3> QED BY <3>1 DEF UserMap
  <2>3. /\ backup' = [backup EXCEPT ![m.dev] = Captured(m.dev, page)]
        /\ mirror' = mirror \/ mirror' = [mirror EXCEPT ![m.dev] = Upserted(m.dev, page)]
        /\ cmds' = cmds
    BY <1>5 DEF HandleEnrolment
  <2> HIDE DEF page
  <2>4. CopiesOK' /\ Growing
    BY <2>1, <2>2, <2>3, CaptureGrows DEF Typed
  <2>5. Progress
    BY <2>3, NothingProgresses DEF Typed
  <2> QED BY <1>1, <1>3, <2>3, <2>4, <2>5, OtherKeeps
<1> QED BY <1>4, <1>5 DEF Receive

LEMMA PostSnapshotKeeps ==
    ASSUME Typed, NEW snapshot \in agent, PostSnapshot(snapshot)
    PROVE  Kept
<1> DEFINE d == snapshot.dev
           page == snapshot.users
           rows == [u \in DOMAIN Upserted(d, page) |->
                       [Upserted(d, page)[u] EXCEPT !.live = u \in DOMAIN page]]
<1>1. d \in Device /\ page \in UserMap(SUBSET Templates)
  BY DEF Typed, TerminalsOK
<1>2. /\ UNCHANGED <<cmds, backup, request, device, inbox, wire, local>>
      /\ agent' \subseteq agent
      /\ mirror' = mirror \/ mirror' = [mirror EXCEPT ![d] = rows]
  BY DEF PostSnapshot
<1>3. rows \in UserMap(MirrorRows)
  <2>1. Upserted(d, page) \in UserMap(MirrorRows)
    BY <1>1, UpsertedType DEF Typed
  <2>2. PICK S \in SUBSET User : Upserted(d, page) \in [S -> MirrorRows]
    BY <2>1 DEF UserMap
  <2>3. ASSUME NEW u \in S
        PROVE  [Upserted(d, page)[u] EXCEPT !.live = u \in DOMAIN page] \in MirrorRows
    <3>1. (u \in DOMAIN page) \in BOOLEAN
      OBVIOUS
    <3> DEFINE live == u \in DOMAIN page
               row == Upserted(d, page)[u]
    <3>2. row \in MirrorRows /\ live \in BOOLEAN
      BY <2>2, <3>1
    <3> HIDE DEF live, row
    <3>3. [row EXCEPT !.live = live] \in MirrorRows
      BY <3>2 DEF MirrorRows
    <3> QED BY <3>3 DEF live, row
  <2>4. rows \in [S -> MirrorRows]
    BY <2>2, <2>3
  <2> QED BY <2>4 DEF UserMap
<1> HIDE DEF rows
<1>4. CopiesOK'
  BY <1>1, <1>2, <1>3 DEF Typed, CopiesOK
<1>5. Growing
  BY <1>2 DEF Growing, At
<1>6. Progress
  BY <1>2, NothingProgresses DEF Typed
<1>7. TerminalsOK'
  BY <1>2 DEF Typed, TerminalsOK, MessageOK
<1> QED BY <1>2, <1>4, <1>5, <1>6, <1>7, OtherKeeps

-----------------------------------------------------------------------------
(* The terminals, whatever they do.                                         *)
LEMMA TerminalKeeps ==
    ASSUME Typed, UNCHANGED <<tables, request>>, TerminalsOK'
    PROVE  Kept
<1>1. UNCHANGED <<cmds, mirror, backup, request>>
  BY DEF tables
<1>2. Progress
  BY <1>1, NothingProgresses DEF Typed
<1>3. CopiesOK' /\ Growing
  BY <1>1, StillGrowing DEF Typed
<1> QED BY <1>1, <1>2, <1>3, OtherKeeps

LEMMA ExecuteKeeps ==
    ASSUME Typed, NEW d \in Device, NEW i \in inbox[d], Execute(d, i)
    PROVE  Kept
<1> DEFINE c == cmds[i]
           page == [u \in c.users \cap DOMAIN device[d] |-> device[d][u]]
           users == [u \in (DOMAIN device[d]) \cup c.users |->
                        At(device[d], u) \cup (IF u \in c.users THEN c.carried ELSE {})]
           result(ok, p) == [type |-> "result", index |-> i, ok |-> ok, page |-> p]
<1>1. i \in DOMAIN cmds
  BY DEF Typed, TerminalsOK
<1>2. c \in Cmd
  BY <1>1 DEF Typed, CommandsOK
<1>3. PICK S \in SUBSET User : device[d] \in [S -> SUBSET Templates]
  BY DEF Typed, TerminalsOK, UserMap
<1>4. page \in UserMap(SUBSET Templates) /\ Nobody \in UserMap(SUBSET Templates)
  <2>1. page \in [c.users \cap S -> SUBSET Templates] /\ c.users \cap S \in SUBSET User
    BY <1>3
  <2>2. Nobody \in [{} -> SUBSET Templates] /\ {} \in SUBSET User
    BY DEF Nobody
  <2> QED BY <2>1, <2>2 DEF UserMap
<1>5. users \in UserMap(SUBSET Templates)
  <2>1. c.users \in SUBSET User /\ c.carried \in SUBSET Templates
    BY <1>2 DEF Cmd
  <2> DEFINE value(u) == At(device[d], u) \cup (IF u \in c.users THEN c.carried ELSE {})
  <2>2. \A u \in S \cup c.users : value(u) \in SUBSET Templates
    BY <1>3, <2>1 DEF At
  <2>3. users \in [S \cup c.users -> SUBSET Templates] /\ S \cup c.users \in SUBSET User
    BY <1>3, <2>1, <2>2
  <2> QED BY <2>3 DEF UserMap
<1>6. /\ inbox' = [inbox EXCEPT ![d] = @ \ {i}]
      /\ UNCHANGED <<tables, request, agent, local>>
      /\ device' = device \/ device' = [device EXCEPT ![d] = users]
      /\ \E ok \in BOOLEAN, p \in {page, Nobody} : wire' = wire \cup {result(ok, p)}
  BY DEF Execute
<1> HIDE DEF page, users
<1>7. \A m \in wire' : MessageOK(m)'
  <2>1. PICK ok \in BOOLEAN, p \in {page, Nobody} : wire' = wire \cup {result(ok, p)}
    BY <1>6
  <2>2. MessageOK(result(ok, p))'
    BY <1>1, <1>4, <1>6 DEF MessageOK, tables
  <2>3. \A m \in wire : MessageOK(m)'
    BY <1>6 DEF Typed, TerminalsOK, MessageOK, tables
  <2> HIDE DEF result
  <2> QED BY <2>1, <2>2, <2>3
<1>8. device' \in [Device -> UserMap(SUBSET Templates)]
  BY <1>5, <1>6 DEF Typed, TerminalsOK
<1>9. /\ DOMAIN inbox' = Device
      /\ \A e \in Device : inbox'[e] \subseteq {j \in DOMAIN cmds' : cmds'[j].dev = e}
  BY <1>6 DEF Typed, TerminalsOK, tables
<1>10. TerminalsOK'
  BY <1>6, <1>7, <1>8, <1>9 DEF Typed, TerminalsOK
<1> QED BY <1>6, <1>10, TerminalKeeps

LEMMA EnrolKeeps ==
    ASSUME Typed, NEW d \in Device, NEW u \in User, NEW t \in SUBSET Templates,
           Enrol(d, u, t)
    PROVE  Kept
<1> DEFINE users == With(device[d], u, At(device[d], u) \cup t)
           m == [type |-> "enrolment", dev |-> d, user |-> u,
                 templates |-> At(device[d], u) \cup t]
<1>1. PICK S \in SUBSET User : device[d] \in [S -> SUBSET Templates]
  BY DEF Typed, TerminalsOK, UserMap
<1>2. At(device[d], u) \cup t \in SUBSET Templates
  BY <1>1 DEF At
<1>3. users \in UserMap(SUBSET Templates)
  <2>1. users \in [S \cup {u} -> SUBSET Templates] /\ S \cup {u} \in SUBSET User
    BY <1>1, <1>2 DEF With
  <2> QED BY <2>1 DEF UserMap
<1>4. /\ device' = [device EXCEPT ![d] = users] /\ wire' = wire \cup {m}
      /\ UNCHANGED <<tables, request, inbox, agent>>
  BY DEF Enrol
<1>5. \A n : n = m => MessageOK(n)'
  <2>1. /\ m.type = "enrolment" /\ m.dev = d /\ m.user = u
        /\ m.templates = At(device[d], u) \cup t
    OBVIOUS
  <2> HIDE DEF m
  <2> QED BY <1>2, <2>1 DEF MessageOK
<1> HIDE DEF users, m
<1>6. TerminalsOK'
  <2>1. cmds' = cmds
    BY <1>4 DEF tables
  <2>2. \A n \in wire' : MessageOK(n)'
    BY <1>4, <1>5, <2>1 DEF Typed, TerminalsOK, MessageOK
  <2>3. device' \in [Device -> UserMap(SUBSET Templates)]
    BY <1>3, <1>4 DEF Typed, TerminalsOK
  <2> QED BY <1>4, <2>1, <2>2, <2>3 DEF Typed, TerminalsOK
<1> QED BY <1>4, <1>6, TerminalKeeps

LEMMA DeleteKeeps ==
    ASSUME Typed, NEW d \in Device, NEW u \in User, Delete(d, u)
    PROVE  Kept
<1> DEFINE users == [k \in (DOMAIN device[d]) \ {u} |-> device[d][k]]
<1>1. PICK S \in SUBSET User : device[d] \in [S -> SUBSET Templates]
  BY DEF Typed, TerminalsOK, UserMap
<1>2. users \in UserMap(SUBSET Templates)
  <2>1. users \in [S \ {u} -> SUBSET Templates] /\ S \ {u} \in SUBSET User
    BY <1>1
  <2> QED BY <2>1 DEF UserMap
<1>3. /\ device' = [device EXCEPT ![d] = users]
      /\ UNCHANGED <<tables, request, inbox, wire, agent>>
  BY DEF Delete
<1> HIDE DEF users
<1>4. TerminalsOK'
  BY <1>2, <1>3 DEF Typed, TerminalsOK, MessageOK, tables
<1> QED BY <1>3, <1>4, TerminalKeeps

LEMMA LinesKeep ==
    ASSUME Typed, (\E m \in wire : Lose(m)) \/ (\E d \in Device : ReadSnapshot(d))
    PROVE  Kept
<1>1. CASE \E m \in wire : Lose(m)
  <2>1. TerminalsOK'
    BY <1>1 DEF Lose, Typed, TerminalsOK, MessageOK, tables
  <2> QED BY <1>1, <2>1, TerminalKeeps DEF Lose
<1>2. CASE \E d \in Device : ReadSnapshot(d)
  <2>1. PICK d \in Device : ReadSnapshot(d)
    BY <1>2
  <2>2. device[d] \in UserMap(SUBSET Templates)
    BY DEF Typed, TerminalsOK
  <2> DEFINE snapshot == [dev |-> d, users |-> device[d]]
  <2>3. snapshot.dev = d /\ snapshot.users = device[d]
    OBVIOUS
  <2>4. /\ agent' = agent \cup {snapshot} /\ cmds' = cmds
        /\ UNCHANGED <<device, inbox, wire>>
    BY <2>1 DEF ReadSnapshot, tables
  <2> HIDE DEF snapshot
  <2>5. \A n \in wire' : MessageOK(n)'
    BY <2>4 DEF Typed, TerminalsOK, MessageOK
  <2>6. TerminalsOK'
    BY <2>2, <2>3, <2>4, <2>5 DEF Typed, TerminalsOK
  <2> QED BY <2>1, <2>6, TerminalKeeps DEF ReadSnapshot
<1> QED BY <1>1, <1>2

LEMMA StillKeeps ==
    ASSUME Typed, UNCHANGED vars
    PROVE  Kept
<1>1. TerminalsOK'
  BY DEF vars, Typed, TerminalsOK, MessageOK
<1> QED BY <1>1, TerminalKeeps DEF vars, tables

-----------------------------------------------------------------------------
LEMMA EveryStepKeeps ==
    ASSUME Typed, [Next]_vars
    PROVE  Kept
<1>1. ASSUME NEW x \in Session, NEW d \in Device, NEW users \in SUBSET User,
             BeginPush(x, d, users)
      PROVE  Kept
  BY <1>1, BeginKeeps DEF BeginPush
<1>2. ASSUME NEW x \in Session, NEW i \in DOMAIN cmds, BeginCancel(x, i)
      PROVE  Kept
  BY <1>2, BeginKeeps DEF BeginCancel
<1>3. ASSUME NEW d \in Device, Poll(d) \/ NothingPending(d)
      PROVE  Kept
  BY <1>3, PollKeeps, StillKeeps DEF NothingPending
<1>4. ASSUME NEW d \in Device, NEW u \in User,
             Delete(d, u) \/ \E t \in (SUBSET Templates) \ {{}} : Enrol(d, u, t)
      PROVE  Kept
  BY <1>4, DeleteKeeps, EnrolKeeps
<1>5. CASE UNCHANGED vars
  BY <1>5, StillKeeps
<1> QED
  BY <1>1, <1>2, <1>3, <1>4, <1>5, BeginFleetKeeps, CommitPushKeeps, CommitFleetKeeps,
     CommitCancelKeeps, RestoreKeeps, RefreshKeeps, CrossRestoreKeeps, ExecuteKeeps,
     LinesKeep, ReceiveKeeps, PostSnapshotKeeps DEF Next

(* The tables keep their shape, whatever order requests, polls, records and *)
(* snapshots come in.                                                       *)
THEOREM TypeCorrect == Spec => []TypeOK
<1>1. Init => Typed
  BY InitTyped
<1>2. Typed /\ [Next]_vars => Typed'
  BY EveryStepKeeps DEF Kept
<1>3. Typed => TypeOK
  BY TypedImpliesTypeOK
<1> QED BY <1>1, <1>2, <1>3, PTL DEF Spec

(* The unique index keeps two overlapping pushes from having one user       *)
(* registered at a terminal twice at a time.                                *)
THEOREM RegistrationsAreSingle == Spec => []OneIdentityInFlight
<1>1. Init => Typed /\ OneIdentityInFlight
  BY InitTyped DEF Init, OneIdentityInFlight
<1>2. Typed /\ OneIdentityInFlight /\ [Next]_vars => (Typed /\ OneIdentityInFlight)'
  BY EveryStepKeeps DEF Kept
<1> QED BY <1>1, <1>2, PTL DEF Spec

(* A command that was handed out or settled is never pending again, and one *)
(* that was settled never in flight: a lost or late result costs no retry.  *)
THEOREM HandedOutOnce == Spec => NeverRequeued
<1>1. Init => Typed
  BY InitTyped
<1>2. Typed /\ [Next]_vars => Typed'
  BY EveryStepKeeps DEF Kept
<1>3. Typed /\ [Next]_vars =>
          [\A i \in DOMAIN cmds :
             /\ cmds[i].status # "pending" => cmds'[i].status # "pending"
             /\ cmds[i].status \notin InFlight => cmds'[i].status \notin InFlight]_vars
  BY EveryStepKeeps DEF Kept, Progress
<1> QED BY <1>1, <1>2, <1>3, PTL DEF Spec, NeverRequeued

(* The face that a fleet sync or a copy to another terminal promised is in  *)
(* what that terminal receives, though the templates are read when the      *)
(* command is handed out: the backup they come from only grows.             *)
THEOREM PromisedFacesArrive == Spec => []FaceRestoresCarryFace
<1>1. Init => Typed /\ Promised
  BY InitTyped DEF Init, Promised, FaceRestoresCarryFace, Idle
<1>2. Typed /\ Promised /\ [Next]_vars => (Typed /\ Promised)'
  BY EveryStepKeeps DEF Kept
<1>3. Promised => FaceRestoresCarryFace
  BY DEF Promised
<1> QED BY <1>1, <1>2, <1>3, PTL DEF Spec

(* No record, however incomplete or late, costs a backed-up template.       *)
THEOREM BackupOnlyGrows == Spec => BackupKeepsTemplates
<1>1. Init => Typed
  BY InitTyped
<1>2. Typed /\ [Next]_vars => Typed'
  BY EveryStepKeeps DEF Kept
<1>3. Typed /\ [Next]_vars =>
          [\A d \in Device : \A u \in DOMAIN backup[d] :
             backup[d][u] \subseteq At(backup'[d], u)]_vars
  BY EveryStepKeeps DEF Kept, Growing
<1> QED BY <1>1, <1>2, <1>3, PTL DEF Spec, BackupKeepsTemplates

-----------------------------------------------------------------------------
(* The fleet sync.  A face is pushed to a terminal again when the push that *)
(* was made is settled without success; it arrives twice when that verdict  *)
(* is overturned later.  So: a verdict is final once it is on the wire, and *)
(* a command without success has no success under way.                      *)

Live(c) == c.status \in InFlight \cup {"confirmed"}
Answers(i) == {m \in wire : m.type = "result" /\ m.index = i}
Executing(i) == \E d \in Device : i \in inbox[d]

VerdictsStand ==
    \A i \in DOMAIN cmds :
        /\ Executing(i) => Answers(i) = {}
        /\ \A m, n \in Answers(i) : m.ok => n.ok
        /\ cmds[i].status = "pending" => ~ Executing(i) /\ Answers(i) = {}
        /\ ~ Live(cmds[i]) => ~ Executing(i) /\ \A m \in Answers(i) : ~ m.ok

\* What is not in flight and was not confirmed stays so.
LiveBefore == \A i \in DOMAIN cmds : Live(cmds'[i]) => Live(cmds[i])

\* The sync is not run beside itself, and a cancellation comes before the
\* command is handed out.
OneFleetRun ==
    \A x, y \in Session : request[x].kind = "fleet" /\ request[y].kind = "fleet" => x = y
NoLateCancel ==
    \A x \in Session : CommitCancel(x) => cmds[request[x].index].status = "pending"

SameTarget(r, s) == r.dev = s.dev /\ r.users = s.users

\* What a run has read is still so: no push it is about to make is in flight
\* or done.
FleetInv ==
    /\ \A i \in DOMAIN cmds : cmds[i].by = "fleet" => cmds[i].kind = "restore"
    /\ FleetPushesOnce
    /\ \A x \in Session : request[x].kind = "fleet" => \A r \in request[x].rows :
          /\ \A i \in DOMAIN cmds :
                cmds[i].by = "fleet" /\ SameTarget(cmds[i], r) => ~ Live(cmds[i])
          /\ \A s \in request[x].rows : SameTarget(r, s) => r = s

\* Commands that are new were never handed out.
LEMMA NewUnanswered ==
    ASSUME Typed, NEW i, i \notin DOMAIN cmds
    PROVE  ~ Executing(i) /\ Answers(i) = {}
BY DEF Typed, TerminalsOK, MessageOK, Executing, Answers

\* A step that hands out nothing and brings no result.
LEMMA VerdictsKept ==
    ASSUME Typed, VerdictsStand, Progress, inbox' = inbox,
           \A m \in wire' : m.type = "result" => m \in wire,
           \A i \in DOMAIN cmds : cmds'[i].status = cmds[i].status \/ cmds[i].status = "pending"
    PROVE  VerdictsStand' /\ LiveBefore
<1>1. \A i : Answers(i)' \subseteq Answers(i) /\ (Executing(i)' <=> Executing(i))
  BY DEF Answers, Executing
<1>2. ASSUME NEW i \in DOMAIN cmds'
      PROVE  /\ Executing(i)' => Answers(i)' = {}
             /\ \A m, n \in Answers(i)' : m.ok => n.ok
             /\ cmds'[i].status = "pending" => ~ Executing(i)' /\ Answers(i)' = {}
             /\ ~ Live(cmds'[i]) => ~ Executing(i)' /\ \A m \in Answers(i)' : ~ m.ok
  <2>1. CASE i \notin DOMAIN cmds
    BY <1>1, <2>1, NewUnanswered
  <2>2. CASE i \in DOMAIN cmds /\ cmds[i].status = "pending"
    BY <1>1, <2>2 DEF VerdictsStand
  <2>3. CASE i \in DOMAIN cmds /\ cmds'[i].status = cmds[i].status
    BY <1>1, <2>3 DEF VerdictsStand, Live
  <2> QED BY <2>1, <2>2, <2>3
<1>3. VerdictsStand'
  BY <1>2 DEF VerdictsStand, Live
<1>4. LiveBefore
  BY DEF LiveBefore, Live, InFlight
<1> QED BY <1>3, <1>4

\* The answer to a poll: nothing has been said of a command that waits.
LEMMA PollVerdicts ==
    ASSUME Typed, VerdictsStand, Progress, NEW d \in Device, Poll(d)
    PROVE  VerdictsStand' /\ LiveBefore /\ DOMAIN cmds' = DOMAIN cmds /\ request' = request
<1>1. PICK i \in NextPending(d), delivered \in BOOLEAN :
          /\ cmds' = [cmds EXCEPT ![i].status = "sent", ![i].attempts = @ + 1,
                                  ![i].carried = EmittedTemplates(cmds[i])]
          /\ inbox' = IF delivered THEN [inbox EXCEPT ![d] = @ \cup {i}] ELSE inbox
          /\ UNCHANGED <<mirror, backup, request, device, wire, agent, local>>
  BY DEF Poll
<1>2. i \in DOMAIN cmds /\ cmds[i].dev = d /\ cmds[i].status = "pending"
  BY DEF NextPending, Oldest
<1>3. /\ DOMAIN cmds' = DOMAIN cmds
      /\ \A j \in DOMAIN cmds : j # i => cmds'[j] = cmds[j]
  BY <1>1, <1>2, PollProgresses DEF Typed
<1>4. cmds'[i].status = "sent"
  <2>1. cmds[i] \in Cmd
    BY <1>2 DEF Typed, CommandsOK
  <2> QED BY <1>1, <1>2, <2>1 DEF Cmd
<1>5. \A j : j # i => (Executing(j)' <=> Executing(j))
  BY <1>1 DEF Executing, Typed, TerminalsOK
<1>6. \A j : Answers(j)' = Answers(j)
  BY <1>1 DEF Answers
<1>7. Answers(i) = {}
  BY <1>2 DEF VerdictsStand
<1>8. \A j \in DOMAIN cmds' :
          /\ Executing(j)' => Answers(j)' = {}
          /\ \A m, n \in Answers(j)' : m.ok => n.ok
          /\ cmds'[j].status = "pending" => ~ Executing(j)' /\ Answers(j)' = {}
          /\ ~ Live(cmds'[j]) => ~ Executing(j)' /\ \A m \in Answers(j)' : ~ m.ok
  <2> TAKE j \in DOMAIN cmds'
  <2>1. CASE j = i
    <3>1. Answers(j)' = {} /\ cmds'[j].status # "pending" /\ Live(cmds'[j])
      BY <1>4, <1>6, <1>7, <2>1 DEF Live, InFlight
    <3> QED BY <3>1
  <2>2. CASE j # i
    BY <1>3, <1>5, <1>6, <2>2 DEF VerdictsStand
  <2> QED BY <2>1, <2>2
<1>9. VerdictsStand'
  BY <1>8 DEF VerdictsStand, Live
<1>10. LiveBefore
  BY <1>2, <1>3 DEF LiveBefore, Live, InFlight
<1> QED BY <1>1, <1>3, <1>9, <1>10

\* A terminal answers once: what it executes it takes out of its inbox.
LEMMA ExecuteVerdicts ==
    ASSUME Typed, VerdictsStand, NEW d \in Device, NEW i \in inbox[d], Execute(d, i)
    PROVE  VerdictsStand' /\ LiveBefore /\ cmds' = cmds /\ request' = request
<1>1. /\ inbox' = [inbox EXCEPT ![d] = @ \ {i}]
      /\ cmds' = cmds /\ request' = request
      /\ \E m : m.type = "result" /\ m.index = i /\ wire' = wire \cup {m}
  BY DEF Execute, tables
<1>2. PICK m : m.type = "result" /\ m.index = i /\ wire' = wire \cup {m}
  BY <1>1
<1>3. i \in DOMAIN cmds /\ cmds[i].dev = d /\ Executing(i)
  BY DEF Typed, TerminalsOK, Executing
<1>4. Answers(i) = {} /\ cmds[i].status # "pending" /\ Live(cmds[i])
  BY <1>3 DEF VerdictsStand
<1>5. ~ Executing(i)'
  BY <1>1, <1>3 DEF Executing, Typed, TerminalsOK
<1>6. \A j : j # i => (Executing(j)' <=> Executing(j)) /\ Answers(j)' = Answers(j)
  BY <1>1, <1>2 DEF Executing, Answers, Typed, TerminalsOK
<1>7. Answers(i)' = {m}
  BY <1>2, <1>4 DEF Answers
<1>8. \A j \in DOMAIN cmds :
          /\ Executing(j)' => Answers(j)' = {}
          /\ \A a, b \in Answers(j)' : a.ok => b.ok
          /\ cmds[j].status = "pending" => ~ Executing(j)' /\ Answers(j)' = {}
          /\ ~ Live(cmds[j]) => ~ Executing(j)' /\ \A a \in Answers(j)' : ~ a.ok
  <2> TAKE j \in DOMAIN cmds
  <2>1. CASE j = i
    BY <1>4, <1>5, <1>7, <2>1
  <2>2. CASE j # i
    BY <1>6, <2>2 DEF VerdictsStand
  <2> QED BY <2>1, <2>2
<1>9. VerdictsStand'
  BY <1>1, <1>8 DEF VerdictsStand, Live
<1> QED BY <1>1, <1>9 DEF LiveBefore

\* The portal takes a verdict that stands, also when it comes twice.
LEMMA ReceiveVerdicts ==
    ASSUME Typed, VerdictsStand, Progress, NEW m \in wire, Receive(m)
    PROVE  VerdictsStand' /\ LiveBefore /\ DOMAIN cmds' = DOMAIN cmds /\ request' = request
<1>1. wire' \subseteq wire /\ request' = request /\ inbox' = inbox
  BY DEF Receive, HandleResult, HandleEnrolment
<1>2. CASE cmds' = cmds
  BY <1>1, <1>2, VerdictsKept
<1>3. CASE HandleResult(m) /\ cmds' # cmds
  <2>1. PICK i : i = m.index
    OBVIOUS
  <2>2. i \in DOMAIN cmds /\ m.type = "result"
    BY <1>3, <2>1 DEF HandleResult, Typed, TerminalsOK, MessageOK
  <2>3. \/ ~ m.ok /\ cmds' = [cmds EXCEPT ![i].status = "failed"]
        \/ m.ok /\ cmds' = [cmds EXCEPT ![i].status = "confirmed"]
    BY <1>3, <2>1 DEF HandleResult, tables
  <2>4. PICK status \in {"failed", "confirmed"} : cmds' = [cmds EXCEPT ![i].status = status]
    BY <2>3
  <2>5. cmds[i] \in Cmd /\ DOMAIN cmds' = DOMAIN cmds
    BY <2>2, <2>4 DEF Typed, CommandsOK
  <2>6. cmds'[i].status = status /\ \A j \in DOMAIN cmds : j # i => cmds'[j] = cmds[j]
    BY <2>2, <2>4, <2>5 DEF Cmd
  <2>7. m.ok <=> status = "confirmed"
    <3>1. CASE ~ m.ok /\ cmds' = [cmds EXCEPT ![i].status = "failed"]
      <4>1. cmds'[i].status = "failed"
        BY <2>2, <2>5, <3>1 DEF Cmd
      <4> QED BY <2>6, <3>1, <4>1
    <3>2. CASE m.ok /\ cmds' = [cmds EXCEPT ![i].status = "confirmed"]
      <4>1. cmds'[i].status = "confirmed"
        BY <2>2, <2>5, <3>2 DEF Cmd
      <4> QED BY <2>6, <3>2, <4>1
    <3> QED BY <2>3, <3>1, <3>2
  <2>8. m \in Answers(i)
    BY <2>1, <2>2 DEF Answers
  <2>9. \A j : Answers(j)' \subseteq Answers(j) /\ (Executing(j)' <=> Executing(j))
    BY <1>1 DEF Answers, Executing
  <2>10. ~ Executing(i) /\ \A n \in Answers(i) : n.ok => m.ok
    BY <2>2, <2>8 DEF VerdictsStand
  <2>11. \A j \in DOMAIN cmds' :
            /\ Executing(j)' => Answers(j)' = {}
            /\ \A a, b \in Answers(j)' : a.ok => b.ok
            /\ cmds'[j].status = "pending" => ~ Executing(j)' /\ Answers(j)' = {}
            /\ ~ Live(cmds'[j]) => ~ Executing(j)' /\ \A a \in Answers(j)' : ~ a.ok
    <3> TAKE j \in DOMAIN cmds'
    <3>1. CASE j = i
      <4>1. cmds'[j].status # "pending" /\ (~ Live(cmds'[j]) => ~ m.ok)
        BY <2>6, <2>7, <3>1 DEF Live
      <4>2. \A a, b \in Answers(j)' : a.ok => b.ok
        BY <2>2, <2>9, <3>1 DEF VerdictsStand
      <4> QED BY <2>9, <2>10, <3>1, <4>1, <4>2
    <3>2. CASE j # i
      BY <2>5, <2>6, <2>9, <3>2 DEF VerdictsStand
    <3> QED BY <3>1, <3>2
  <2>12. VerdictsStand'
    BY <2>11 DEF VerdictsStand, Live
  <2>13. LiveBefore
    <3>1. Live(cmds'[i]) => Live(cmds[i])
      <4>1. Live(cmds'[i]) => m.ok
        BY <2>6, <2>7 DEF Live, InFlight
      <4>2. m.ok => Live(cmds[i])
        BY <2>2, <2>8 DEF VerdictsStand
      <4> QED BY <4>1, <4>2
    <3> QED BY <2>6, <3>1 DEF LiveBefore
  <2> QED BY <1>1, <2>5, <2>12, <2>13
<1>4. HandleEnrolment(m) => cmds' = cmds
  BY DEF HandleEnrolment
<1> QED BY <1>1, <1>2, <1>3, <1>4 DEF Receive

LEMMA NoVerdict ==
    ASSUME Typed, VerdictsStand, Progress, cmds' = cmds, inbox' = inbox,
           \A m \in wire' : m.type = "result" => m \in wire
    PROVE  VerdictsStand' /\ LiveBefore
BY VerdictsKept

-----------------------------------------------------------------------------
\* What the steps other than the sync's own do to its pushes.
Aside ==
    /\ VerdictsStand' /\ LiveBefore
    /\ \A i \in (DOMAIN cmds') \ DOMAIN cmds : cmds'[i].by # "fleet"
    /\ \A x \in Session : request'[x].kind = "fleet" => request'[x] = request[x]

\* No sync begins.
NoNewFleet ==
    \/ request' = request
    \/ \E x \in Session : \E r : r.kind # "fleet" /\ request' = [request EXCEPT ![x] = r]

LEMMA OtherRequests ==
    ASSUME Typed, NoNewFleet
    PROVE  \A y \in Session : request'[y].kind = "fleet" => request'[y] = request[y]
BY DEF Typed, RequestsOK, NoNewFleet

LEMMA EndsRequest ==
    ASSUME NEW x \in Session, request' = [request EXCEPT ![x] = Idle]
    PROVE  NoNewFleet
<1>1. Idle.kind # "fleet"
  BY DEF Idle
<1> QED BY <1>1 DEF NoNewFleet

\* The portal's steps: nothing is handed out, nothing answered.
LEMMA PortalAside ==
    ASSUME Typed, VerdictsStand, Progress, UNCHANGED terminals, NoNewFleet,
           \A i \in DOMAIN cmds : cmds'[i].status = cmds[i].status \/ cmds[i].status = "pending",
           \A i \in (DOMAIN cmds') \ DOMAIN cmds : cmds'[i].by # "fleet"
    PROVE  Aside
<1>1. inbox' = inbox /\ wire' = wire
  BY DEF terminals
<1>2. VerdictsStand' /\ LiveBefore
  BY <1>1, VerdictsKept
<1> QED BY <1>2, OtherRequests DEF Aside

LEMMA QueueAside ==
    ASSUME Typed, VerdictsStand, Progress, UNCHANGED terminals, NoNewFleet,
           NEW S, IsFiniteSet(S), Queue(S), \A c \in S : c.by # "fleet"
    PROVE  Aside
<1>1. /\ \A i \in DOMAIN cmds : i \in DOMAIN cmds' /\ cmds'[i] = cmds[i]
      /\ \A i \in (DOMAIN cmds') \ DOMAIN cmds : cmds'[i] \in S
  BY QueueAdds DEF Typed
<1> QED BY <1>1, PortalAside

LEMMA BeginAside ==
    ASSUME Typed, VerdictsStand, Progress, NEW x \in Session, NEW r, Begin(x, r),
           r.kind # "fleet"
    PROVE  Aside
BY PortalAside DEF Begin, tables, NoNewFleet

LEMMA CommitPushAside ==
    ASSUME Typed, VerdictsStand, Progress, NEW x \in Session, CommitPush(x)
    PROVE  Aside
<1> DEFINE r == request[x]
           row(u) == Command(r.dev, "identity", {u}, r.dev, "push")
           S == {row(u) : u \in r.users}
<1>1. /\ r.kind = "push" /\ request' = [request EXCEPT ![x] = Idle]
      /\ UNCHANGED terminals /\ (cmds' = cmds \/ Queue(S))
  BY DEF CommitPush, Commit
<1>2. IsFiniteSet(r.users)
  BY <1>1, QueueAssumption, FS_Subset DEF Typed, RequestsOK
<1>3. IsFiniteSet(S)
  <2>1. [u \in r.users |-> row(u)] \in Surjection(r.users, S)
    BY DEF Surjection
  <2> QED BY <1>2, <2>1, FS_Surjection
<1>4. \A c \in S : c.by # "fleet"
  BY DEF Command
<1> HIDE DEF S
<1>5. CASE Queue(S)
  BY <1>1, <1>3, <1>4, <1>5, QueueAside, EndsRequest
<1>6. CASE cmds' = cmds
  BY <1>1, <1>6, PortalAside, EndsRequest
<1> QED BY <1>1, <1>5, <1>6

LEMMA RestoreAside ==
    ASSUME Typed, VerdictsStand, Progress, NEW d \in Device, Restore(d)
    PROVE  Aside
<1> DEFINE users == {u \in DOMAIN backup[d] : backup[d][u] # {}}
           row(u) == Command(d, "restore", {u}, d, "restore")
           S == {row(u) : u \in users}
<1>1. users \in SUBSET User
  BY DEF Typed, CopiesOK, UserMap
<1>2. Queue(S) /\ UNCHANGED terminals /\ NoNewFleet
  BY DEF Restore, NoNewFleet
<1>3. IsFiniteSet(users)
  BY <1>1, QueueAssumption, FS_Subset
<1>4. IsFiniteSet(S)
  <2>1. [u \in users |-> row(u)] \in Surjection(users, S)
    BY DEF Surjection
  <2> QED BY <1>3, <2>1, FS_Surjection
<1>5. \A c \in S : c.by # "fleet"
  BY DEF Command
<1> HIDE DEF S
<1> QED BY <1>2, <1>4, <1>5, QueueAside

LEMMA CrossRestoreAside ==
    ASSUME Typed, VerdictsStand, Progress, NEW d \in Device,
           NEW source \in Device, NEW users \in SUBSET User, CrossRestore(source, d, users)
    PROVE  Aside
<1> DEFINE enrolled == {u \in users : source \in FaceSources(u)}
           row(u) == Command(d, "restore", {u}, source, "cross")
           S == {row(u) : u \in enrolled}
<1>1. Queue(S) /\ UNCHANGED terminals /\ NoNewFleet
  BY DEF CrossRestore, NoNewFleet
<1>2. IsFiniteSet(enrolled)
  BY QueueAssumption, FS_Subset
<1>3. IsFiniteSet(S)
  <2>1. [u \in enrolled |-> row(u)] \in Surjection(enrolled, S)
    BY DEF Surjection
  <2> QED BY <1>2, <2>1, FS_Surjection
<1>4. \A c \in S : c.by # "fleet"
  BY DEF Command
<1> HIDE DEF S
<1> QED BY <1>1, <1>3, <1>4, QueueAside

LEMMA RefreshAside ==
    ASSUME Typed, VerdictsStand, Progress, NEW d \in Device,
           NEW users \in SUBSET User, Refresh(d, users)
    PROVE  Aside
<1>1. \A i \in (DOMAIN cmds') \ DOMAIN cmds : cmds'[i].by # "fleet"
  BY RefreshProgresses DEF Typed
<1>2. \A i \in DOMAIN cmds : cmds'[i].status = cmds[i].status \/ cmds[i].status = "pending"
  <2> DEFINE stale == {i \in DOMAIN cmds : /\ cmds[i].dev = d /\ cmds[i].kind = "info"
                                          /\ cmds[i].status = "pending"}
             kept == [i \in DOMAIN cmds |->
                         IF i \in stale THEN [cmds[i] EXCEPT !.status = "cancelled"]
                         ELSE cmds[i]]
  <2>1. PICK c : cmds' = Append(kept, c)
    BY DEF Refresh
  <2>2. cmds \in Seq(Cmd) /\ Len(cmds) \in Nat /\ DOMAIN cmds = 1 .. Len(cmds)
    BY DEF Typed, CommandsOK
  <2>3. \A i \in DOMAIN cmds : cmds[i].status = "pending" \/ kept[i] = cmds[i]
    OBVIOUS
  <2>4. kept = [i \in 1 .. Len(cmds) |-> kept[i]]
    BY <2>2
  <2> HIDE DEF kept, stale
  <2>5. kept \in Seq({kept[i] : i \in 1 .. Len(cmds)}) /\ Len(kept) = Len(cmds)
    <3>1. kept \in [1 .. Len(cmds) -> {kept[i] : i \in 1 .. Len(cmds)}]
      BY <2>4
    <3>2. kept \in Seq({kept[i] : i \in 1 .. Len(cmds)})
      BY <2>2, <3>1, SeqDef
    <3> QED BY <2>2, <3>1, <3>2
  <2>6. \A i \in 1 .. Len(cmds) : cmds'[i] = kept[i]
    BY <2>1, <2>2, <2>5
  <2> QED BY <2>2, <2>3, <2>6
<1>3. UNCHANGED terminals /\ NoNewFleet
  BY DEF Refresh, NoNewFleet
<1> QED BY <1>1, <1>2, <1>3, PortalAside

LEMMA CommitCancelAside ==
    ASSUME Typed, VerdictsStand, Progress, NEW x \in Session, CommitCancel(x), NoLateCancel
    PROVE  Aside
<1>1. PICK i : i = request[x].index
  OBVIOUS
<1>2. /\ i \in DOMAIN cmds /\ cmds[i].status = "pending"
      /\ cmds' = [cmds EXCEPT ![i].status = "cancelled"]
      /\ request' = [request EXCEPT ![x] = Idle] /\ UNCHANGED terminals
  BY <1>1 DEF CommitCancel, Commit, NoLateCancel, Typed, RequestsOK
<1>3. DOMAIN cmds' = DOMAIN cmds /\ \A j \in DOMAIN cmds : j # i => cmds'[j] = cmds[j]
  BY <1>2 DEF Typed, CommandsOK
<1>4. NoNewFleet
  BY <1>2, EndsRequest
<1>5. \A j \in DOMAIN cmds : cmds'[j].status = cmds[j].status \/ cmds[j].status = "pending"
  BY <1>2, <1>3
<1>6. \A j \in (DOMAIN cmds') \ DOMAIN cmds : cmds'[j].by # "fleet"
  BY <1>3
<1> QED BY <1>2, <1>4, <1>5, <1>6, PortalAside

\* The terminals' own steps and the snapshots bring no result of a command.
LEMMA LocalAside ==
    ASSUME Typed, VerdictsStand, Progress, cmds' = cmds, request' = request, inbox' = inbox,
           \A m \in wire' : m.type = "result" => m \in wire
    PROVE  Aside
BY NoVerdict DEF Aside

LEMMA EnrolAside ==
    ASSUME Typed, VerdictsStand, Progress, NEW d \in Device, NEW u \in User, NEW t,
           Enrol(d, u, t)
    PROVE  Aside
<1>1. /\ cmds' = cmds /\ request' = request /\ inbox' = inbox
      /\ \E m : m.type = "enrolment" /\ wire' = wire \cup {m}
  BY DEF Enrol, tables
<1>2. \A m \in wire' : m.type = "result" => m \in wire
  BY <1>1
<1> QED BY <1>1, <1>2, LocalAside

LEMMA StepAside ==
    ASSUME Typed, VerdictsStand, [Next]_vars, NoLateCancel,
           ~ \E x \in Session : BeginFleet(x) \/ CommitFleet(x)
    PROVE  Aside
<1>1. Progress
  BY EveryStepKeeps DEF Kept
<1>2. ASSUME NEW x \in Session, NEW d \in Device, NEW users \in SUBSET User,
             BeginPush(x, d, users)
      PROVE  Aside
  BY <1>1, <1>2, BeginAside DEF BeginPush
<1>3. ASSUME NEW x \in Session, NEW i \in DOMAIN cmds, BeginCancel(x, i)
      PROVE  Aside
  BY <1>1, <1>3, BeginAside DEF BeginCancel
<1>4. ASSUME NEW d \in Device, Poll(d)
      PROVE  Aside
  BY <1>1, <1>4, PollVerdicts DEF Aside
<1>5. ASSUME NEW d \in Device, NEW i \in inbox[d], Execute(d, i)
      PROVE  Aside
  BY <1>5, ExecuteVerdicts DEF Aside
<1>6. ASSUME NEW m \in wire, Receive(m)
      PROVE  Aside
  BY <1>1, <1>6, ReceiveVerdicts DEF Aside
<1>7. ASSUME NEW m \in wire, Lose(m)
      PROVE  Aside
  BY <1>1, <1>7, LocalAside DEF Lose, tables
<1>8. ASSUME NEW d \in Device, NEW u \in User, Delete(d, u)
      PROVE  Aside
  BY <1>1, <1>8, LocalAside DEF Delete, tables
<1>9. ASSUME NEW d \in Device, ReadSnapshot(d)
      PROVE  Aside
  BY <1>1, <1>9, LocalAside DEF ReadSnapshot, tables
<1>10. ASSUME NEW snapshot \in agent, PostSnapshot(snapshot)
       PROVE  Aside
  BY <1>1, <1>10, LocalAside DEF PostSnapshot
<1>11. ASSUME UNCHANGED vars
       PROVE  Aside
  BY <1>1, <1>11, LocalAside DEF vars
<1>12. ASSUME NEW d \in Device, NothingPending(d)
       PROVE  Aside
  BY <1>11, <1>12 DEF NothingPending
<1> QED
  BY <1>1, <1>2, <1>3, <1>4, <1>5, <1>6, <1>7, <1>8, <1>9, <1>10, <1>11, <1>12,
     CommitPushAside, RestoreAside, CrossRestoreAside, RefreshAside, CommitCancelAside,
     EnrolAside DEF Next

\* What a run found to push stays so while the others act.
LEMMA AsideKeeps ==
    ASSUME Typed, FleetInv, Progress, Aside
    PROVE  FleetInv'
<1>1. ASSUME NEW i \in DOMAIN cmds', cmds'[i].by = "fleet"
      PROVE  /\ i \in DOMAIN cmds /\ cmds[i].by = "fleet"
             /\ cmds'[i].kind = cmds[i].kind /\ cmds'[i].dev = cmds[i].dev
             /\ cmds'[i].users = cmds[i].users
             /\ Live(cmds'[i]) => Live(cmds[i])
  BY <1>1 DEF Aside, Progress, LiveBefore
<1>2. \A i \in DOMAIN cmds' : cmds'[i].by = "fleet" => cmds'[i].kind = "restore"
  BY <1>1 DEF FleetInv
<1>3. FleetPushesOnce'
  BY <1>1 DEF FleetInv, FleetPushesOnce, Live
<1>4. ASSUME NEW x \in Session, request'[x].kind = "fleet", NEW r \in request'[x].rows
      PROVE  /\ \A i \in DOMAIN cmds' :
                   cmds'[i].by = "fleet" /\ SameTarget(cmds'[i], r) => ~ Live(cmds'[i])
             /\ \A s \in request'[x].rows : SameTarget(r, s) => r = s
  <2>1. request[x].kind = "fleet" /\ request'[x] = request[x] /\ r \in request[x].rows
    BY <1>4 DEF Aside
  <2>2. ASSUME NEW i \in DOMAIN cmds', cmds'[i].by = "fleet", SameTarget(cmds'[i], r)
        PROVE  ~ Live(cmds'[i])
    <3>1. SameTarget(cmds[i], r)
      BY <1>1, <2>2 DEF SameTarget
    <3> QED BY <1>1, <2>1, <2>2, <3>1 DEF FleetInv
  <2> QED BY <2>1, <2>2 DEF FleetInv
<1> QED BY <1>2, <1>3, <1>4 DEF FleetInv, Live, SameTarget

\* A run lists a push only when none is in flight or done.
LEMMA BeginFleetInv ==
    ASSUME Typed, VerdictsStand, FleetInv, NEW x \in Session, BeginFleet(x)
    PROVE  VerdictsStand' /\ FleetInv'
<1>1. PICK source \in [User -> Device] :
          /\ \A u \in User : FaceSources(u) # {} => source[u] \in FaceSources(u)
          /\ LET missing == {du \in Device \X User :
                                du[2] \in FacesToPush(source[du[2]], du[1])}
                 rows == {Command(du[1], "restore", {du[2]}, source[du[2]], "fleet") :
                             du \in missing}
             IN  Begin(x, [kind |-> "fleet", rows |-> rows])
  BY DEF BeginFleet
<1> DEFINE missing == {du \in Device \X User :
                          du[2] \in FacesToPush(source[du[2]], du[1])}
           row(du) == Command(du[1], "restore", {du[2]}, source[du[2]], "fleet")
           rows == {row(du) : du \in missing}
           r == [kind |-> "fleet", rows |-> rows]
<1>2. Begin(x, r)
  BY <1>1
<1>3. \A c \in rows : \E d \in Device, u \in User :
          /\ u \in FacesToPush(source[u], d) /\ c = Command(d, "restore", {u}, source[u], "fleet")
          /\ c.dev = d /\ c.users = {u}
  <2> TAKE c \in rows
  <2>1. PICK du \in missing : c = row(du)
    OBVIOUS
  <2>2. PICK d \in Device, u \in User :
            du[1] = d /\ du[2] = u /\ u \in FacesToPush(source[u], d)
    BY <2>1
  <2>3. c = Command(d, "restore", {u}, source[u], "fleet")
    BY <2>1, <2>2
  <2>4. c.dev = d /\ c.users = {u}
    BY <2>3 DEF Command
  <2> QED BY <2>2, <2>3, <2>4
<1>4. r.kind = "fleet" /\ r.rows = rows
  OBVIOUS
<1> HIDE DEF rows, r
<1>5. /\ cmds' = cmds /\ inbox' = inbox /\ wire' = wire
      /\ request' = [request EXCEPT ![x] = r]
  BY <1>2 DEF Begin, tables, terminals
<1>6. VerdictsStand'
  BY <1>5, NoVerdict, NothingProgresses DEF Typed
<1>7. ASSUME NEW c \in rows, NEW i \in DOMAIN cmds, cmds[i].by = "fleet",
             SameTarget(cmds[i], c)
      PROVE  ~ Live(cmds[i])
  <2>1. PICK d \in Device, u \in User :
            u \in FacesToPush(source[u], d) /\ c.dev = d /\ c.users = {u}
    BY <1>3
  <2>2. cmds[i].dev = d /\ u \in cmds[i].users /\ cmds[i].kind = "restore"
    BY <1>7, <2>1 DEF SameTarget, FleetInv
  <2>3. cmds[i].status \in InFlight => u \in InFlightUsers(d)
    BY <2>2 DEF InFlightUsers
  <2>4. cmds[i].status = "confirmed" => u \in FaceRestored(d)
    BY <2>2 DEF FaceRestored
  <2> QED BY <2>1, <2>3, <2>4 DEF FacesToPush, Live
<1>8. ASSUME NEW c \in rows, NEW s \in rows, SameTarget(c, s)
      PROVE  c = s
  <2>1. PICK d \in Device, u \in User :
            c = Command(d, "restore", {u}, source[u], "fleet") /\ c.dev = d /\ c.users = {u}
    BY <1>3
  <2>2. PICK e \in Device, v \in User :
            s = Command(e, "restore", {v}, source[v], "fleet") /\ s.dev = e /\ s.users = {v}
    BY <1>3
  <2>3. d = e /\ u = v
    BY <1>8, <2>1, <2>2 DEF SameTarget
  <2> QED BY <2>1, <2>2, <2>3
<1>9. ASSUME NEW y \in Session, request'[y].kind = "fleet", NEW c \in request'[y].rows
      PROVE  /\ \A i \in DOMAIN cmds :
                   cmds[i].by = "fleet" /\ SameTarget(cmds[i], c) => ~ Live(cmds[i])
             /\ \A s \in request'[y].rows : SameTarget(c, s) => c = s
  <2>1. CASE y = x
    <3>1. request'[y] = r
      BY <1>5, <2>1 DEF Typed, RequestsOK
    <3> QED BY <1>4, <1>7, <1>8, <1>9, <3>1
  <2>2. CASE y # x
    <3>1. request'[y] = request[y]
      BY <1>5, <2>2 DEF Typed, RequestsOK
    <3> QED BY <1>9, <3>1 DEF FleetInv
  <2> QED BY <2>1, <2>2
<1>10. FleetInv'
  BY <1>5, <1>9 DEF FleetInv, FleetPushesOnce, Live, SameTarget
<1> QED BY <1>6, <1>10

\* What a run listed is still missing when it queues it.
LEMMA CommitFleetInv ==
    ASSUME Typed, VerdictsStand, FleetInv, OneFleetRun, NEW x \in Session, CommitFleet(x)
    PROVE  VerdictsStand' /\ FleetInv'
<1> DEFINE rows == request[x].rows
           now(r) == [r EXCEPT !.created = Len(cmds)]
           S == {now(r) : r \in rows}
<1>1. /\ request[x].kind = "fleet" /\ Queue(S)
      /\ request' = [request EXCEPT ![x] = Idle]
      /\ inbox' = inbox /\ wire' = wire
  BY DEF CommitFleet, Commit, terminals
<1>2. rows \in SUBSET Cmd /\ IsFiniteSet(rows) /\ \A r \in rows : r.kind = "restore"
  BY <1>1 DEF Typed, RequestsOK
<1>3. IsFiniteSet(S)
  <2>1. [r \in rows |-> now(r)] \in Surjection(rows, S)
    BY DEF Surjection
  <2> QED BY <1>2, <2>1, FS_Surjection
<1>4. \A c \in S : \E r \in rows : /\ c = now(r) /\ c.kind = "restore" /\ SameTarget(c, r)
  <2> TAKE c \in S
  <2>1. PICK r \in rows : c = now(r)
    OBVIOUS
  <2>2. r \in Cmd /\ r.kind = "restore"
    BY <1>2
  <2>3. c.kind = r.kind /\ c.dev = r.dev /\ c.users = r.users
    BY <2>1, <2>2 DEF Cmd
  <2> QED BY <2>1, <2>2, <2>3 DEF SameTarget
<1> HIDE DEF S, now
<1>5. /\ \A i \in DOMAIN cmds : i \in DOMAIN cmds' /\ cmds'[i] = cmds[i]
      /\ \A i \in (DOMAIN cmds') \ DOMAIN cmds : cmds'[i] \in S
      /\ \A i, j \in (DOMAIN cmds') \ DOMAIN cmds : cmds'[i] = cmds'[j] => i = j
  BY <1>1, <1>3, QueueAdds DEF Typed
<1>6. VerdictsStand'
  <2>1. Progress
    BY CommitFleetKeeps DEF Kept
  <2> QED BY <1>1, <1>5, <2>1, VerdictsKept
<1>7. \A i \in DOMAIN cmds' : cmds'[i].by = "fleet" => cmds'[i].kind = "restore"
  BY <1>4, <1>5 DEF FleetInv
<1>8. FleetPushesOnce'
  <2> SUFFICES ASSUME NEW i \in DOMAIN cmds', NEW j \in DOMAIN cmds',
                      cmds'[i].by = "fleet", cmds'[j].by = "fleet",
                      SameTarget(cmds'[i], cmds'[j]), Live(cmds'[i]), Live(cmds'[j])
               PROVE  i = j
    BY DEF FleetPushesOnce, SameTarget, Live
  <2>1. CASE i \in DOMAIN cmds /\ j \in DOMAIN cmds
    BY <1>5, <2>1 DEF FleetInv, FleetPushesOnce, SameTarget, Live
  \* a new push beside one that is queued, handed out or done
  <2>2. ASSUME NEW k \in DOMAIN cmds, NEW l \in (DOMAIN cmds') \ DOMAIN cmds,
               cmds'[k].by = "fleet", SameTarget(cmds'[k], cmds'[l]), Live(cmds'[k])
        PROVE  FALSE
    <3>1. PICK r \in rows : SameTarget(cmds'[l], r)
      BY <1>4, <1>5
    <3>2. cmds[k].by = "fleet" /\ SameTarget(cmds[k], r) /\ Live(cmds[k])
      BY <1>5, <2>2, <3>1 DEF SameTarget
    <3> QED BY <1>1, <3>2 DEF FleetInv
  \* two new ones have two targets
  <2>3. CASE i \notin DOMAIN cmds /\ j \notin DOMAIN cmds
    <3>1. PICK r \in rows : cmds'[i] = now(r) /\ SameTarget(cmds'[i], r)
      BY <1>4, <1>5, <2>3
    <3>2. PICK s \in rows : cmds'[j] = now(s) /\ SameTarget(cmds'[j], s)
      BY <1>4, <1>5, <2>3
    <3>3. SameTarget(r, s)
      BY <3>1, <3>2 DEF SameTarget
    <3>4. r = s
      BY <1>1, <3>3 DEF FleetInv
    <3> QED BY <1>5, <2>3, <3>1, <3>2, <3>4
  <2>4. SameTarget(cmds'[j], cmds'[i])
    BY DEF SameTarget
  <2> QED BY <2>1, <2>2, <2>3, <2>4
<1>9. \A y \in Session : request'[y].kind # "fleet"
  BY <1>1 DEF OneFleetRun, Typed, RequestsOK, Idle
<1> QED BY <1>6, <1>7, <1>8, <1>9 DEF FleetInv

LEMMA FleetKeeps ==
    ASSUME Typed, VerdictsStand, FleetInv, OneFleetRun, [Next]_vars, [NoLateCancel]_vars
    PROVE  VerdictsStand' /\ FleetInv'
<1>1. CASE \E x \in Session : BeginFleet(x)
  BY <1>1, BeginFleetInv
<1>2. CASE \E x \in Session : CommitFleet(x)
  BY <1>2, CommitFleetInv
<1>3. CASE ~ \E x \in Session : BeginFleet(x) \/ CommitFleet(x)
  <2>1. Progress
    BY EveryStepKeeps DEF Kept
  <2>2. CASE NoLateCancel
    BY <1>3, <2>1, <2>2, StepAside, AsideKeeps DEF Aside
  <2>3. CASE UNCHANGED vars
    <3>1. Aside
      BY <2>1, <2>3, LocalAside DEF vars
    <3> QED BY <2>1, <3>1, AsideKeeps DEF Aside
  <2> QED BY <2>2, <2>3
<1> QED BY <1>1, <1>2, <1>3

(* Where the fleet sync is not run beside itself and no command is cancelled *)
(* after it was handed out, a terminal has at most one push of a user's face *)
(* that is queued, handed out or done, and that one carries the face: runs   *)
(* of the sync, polls, lost, repeated and late results in any order.  A push *)
(* that failed or was cancelled is made again, and its verdict stands.       *)
THEOREM FleetIsServedOnce ==
    Spec /\ []OneFleetRun /\ [][NoLateCancel]_vars => []FacesPushedOnce
<1>1. Init => Typed /\ Promised /\ VerdictsStand /\ FleetInv
  <2>1. Init => Promised
    BY DEF Init, Promised, FaceRestoresCarryFace, Idle
  <2>2. Init => VerdictsStand /\ FleetInv
    BY DEF Init, VerdictsStand, FleetInv, FleetPushesOnce, Idle
  <2> QED BY <2>1, <2>2, InitTyped
<1>2. /\ Typed /\ Promised /\ VerdictsStand /\ FleetInv /\ OneFleetRun
      /\ [Next]_vars /\ [NoLateCancel]_vars
      => (Typed /\ Promised /\ VerdictsStand /\ FleetInv)'
  BY EveryStepKeeps, FleetKeeps DEF Kept
<1>3. Promised /\ FleetInv => FacesPushedOnce
  BY DEF Promised, FleetInv, FacesPushedOnce
<1> QED BY <1>1, <1>2, <1>3, PTL DEF Spec

==============================================================================
