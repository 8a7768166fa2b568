------------------------------ MODULE MCDevices ------------------------------
(***************************************************************************)
(* DeviceCommandQueue on three instances; a behaviour stays with one:      *)
(*   "queue"   one terminal and two users, whom two admins register, with  *)
(*             three commands; the second acts only beside the first, and  *)
(*             one command or result is under way at a time;               *)
(*   "fleet"   two terminals, one user with two templates, two commands    *)
(*             that nobody cancels;                                        *)
(*   "mirror"  one terminal, two users, one command and whole snapshots.   *)
(***************************************************************************)
EXTENDS DeviceCommandQueue

CONSTANTS d1, d2, u1, u2, s1, s2
VARIABLE part
devicesVars == <<vars, part>>

\* Bound: results and records on the wire together.
MaxWire == 2
ShortWire == Cardinality(wire') <= MaxWire

UsersSeen ==
    UNION {DOMAIN device'[d] : d \in Device} \cup UNION {cmds'[i].users : i \in DOMAIN cmds'}
FirstOnly == device'[d2] = Nobody /\ \A i \in DOMAIN cmds' : cmds'[i].dev = d1
Registering == local' = 0 /\ agent' = {} /\ \A x \in Session : request'[x].kind \in {"idle", "push", "cancel"}

Queueing ==
    /\ FirstOnly /\ Registering
    /\ \A x \in Session : request'[x].kind = "push" => request'[x].dev = d1
    /\ \A i \in DOMAIN cmds' : cmds'[i].kind = "identity"
    /\ Cardinality(wire') + Cardinality(inbox'[d1]) <= 1
    /\ (request[s2] = Idle /\ request'[s2] # Idle) => request[s1] # Idle

Fleet ==
    /\ UsersSeen \subseteq {u1} /\ agent' = {}
    /\ request'[s1].kind \in {"idle", "fleet"} /\ request'[s2] = Idle
    /\ Len(cmds') <= 2 /\ local' <= 2 /\ local' + Len(cmds') <= 3

Mirror ==
    /\ FirstOnly /\ Len(cmds') <= 1
    /\ \A i \in DOMAIN cmds' : cmds'[i].kind \in {"info", "restore"}
    /\ \A snapshot \in agent' : snapshot.dev = d1
    /\ \A u \in DOMAIN device'[d1] : device'[d1][u] \subseteq {"face"}
    /\ \A x \in Session : request'[x] = Idle

Part(p) == part = p /\ UNCHANGED part

DevicesNext ==
    \/ Part("queue") /\ Next /\ Queueing
    \/ Part("fleet") /\ Next /\ Fleet /\ ShortWire
    \/ Part("mirror") /\ Next /\ Mirror /\ ShortWire

DevicesInit == Init /\ part \in {"queue", "fleet", "mirror"}

\* What the portal keeps of the terminals is not lost, and its pages agree on it.
CopiesReconciled == CopiesKept /\ [](part # "queue" => ReconcilePagesAgree)

\* A terminal polls every few seconds; nothing else is owed.
DevicesSpec ==
    DevicesInit /\ [][DevicesNext]_devicesVars
      /\ WF_devicesVars(Part("queue") /\ Poll(d1))

\* A queued command is eventually handed out or cancelled, whatever responses
\* and results are lost: nothing waits for an answer that never comes.
QueueIsServed ==
    \A i \in 1..MaxCommands :
        (part = "queue" /\ i \in DOMAIN cmds /\ cmds[i].status = "pending")
            ~> ~(i \in DOMAIN cmds /\ cmds[i].status = "pending")
=============================================================================
