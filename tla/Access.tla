-------------------------------- MODULE Access --------------------------------
(***************************************************************************)
(* Accounts, roles and sessions: logging in with lockout, rotation of      *)
(* refresh tokens, administration of users and of teacher accounts         *)
(* (auth/services, auth/repositories, teacher_portal/services/             *)
(* admin_service.py).                                                      *)
(*                                                                         *)
(* A request reads and tests when it begins, and writes the columns and    *)
(* rows it changed when it commits; other requests commit in between.      *)
(***************************************************************************)
EXTENDS Integers, Sequences, FiniteSets, SequencesExt, FiniteSetsExt, Functions

CONSTANTS User, Founder, \* every account; those the database is set up with
          TeacherUser,   \* accounts linked to a staff row
          Desk,          \* requests under way at once
          Role,
          Password,
          MaxFail,       \* lockout_attempts
          LockTime,      \* lockout_minutes, in ticks
          LastTick,      \* bound: ticks of the clock
          MaxTokens,     \* bound: rows of refresh_tokens
          MaxGrants      \* bound: rows of user_roles

ASSUME AccessAssumption ==
    /\ IsFiniteSet(User) /\ TeacherUser \subseteq User
    /\ Founder \subseteq User /\ Founder # {}
    /\ "super_admin" \in Role /\ Password # {}
    /\ MaxFail \in Nat \ {0} /\ LockTime \in Nat /\ LastTick \in Nat
    /\ MaxTokens \in Nat /\ MaxGrants \in Nat

VARIABLES accounts,  \* users
          grants,    \* user_roles, oldest first
          tokens,    \* refresh_tokens, oldest first; "from" is the token one was traded for
          work,      \* what each request will write
          clock,
          crossed    \* history: a request committed that another had overtaken

accessTables == <<accounts, grants, tokens>>
accessVars == <<accessTables, work, clock, crossed>>

Unlocked == -1
NoWork == [kind |-> "none"]

Account(status, password) ==
    [status |-> status, password |-> password, failed |-> 0, lockedUntil |-> Unlocked]

AccessInit ==
    \E p \in Password :
        /\ accounts = [u \in User |-> Account(IF u \in Founder THEN "active" ELSE "absent", p)]
        /\ grants = [n \in 1 .. Cardinality(Founder) |->
                        [user |-> SetToSeq(Founder)[n], role |-> "super_admin", live |-> TRUE]]
        /\ tokens = <<>>
        /\ work = [d \in Desk |-> NoWork]
        /\ clock = 0 /\ crossed = FALSE

Exists(u) == accounts[u].status \notin {"absent", "deleted"}
LiveTokens(u) == {n \in DOMAIN tokens : tokens[n].live /\ tokens[n].user = u}
LiveGrants(u) == {n \in DOMAIN grants : grants[n].live /\ grants[n].user = u}
RolesOf(u) == {grants[n].role : n \in LiveGrants(u)}

\* count_active_users_with_role, of the super admins.
ActiveSuperAdmins == {u \in User : accounts[u].status = "active" /\ "super_admin" \in RolesOf(u)}

-----------------------------------------------------------------------------
(* Requests.                                                                *)

\* What a request writes: columns of one account, tokens and grants it ends, a
\* token and a grant it adds.
Writing(u, row) ==
    [kind |-> "open", late |-> FALSE, user |-> u,
     columns |-> Restrict(row, {c \in DOMAIN row : row[c] # accounts[u][c]}),
     revoked |-> {}, issued |-> <<>>, dropped |-> {}, granted |-> <<>>]

BeginAccess(d, w) ==
    /\ work[d] = NoWork
    /\ work' = [work EXCEPT ![d] = w]
    /\ UNCHANGED <<accessTables, clock, crossed>>

Crossing == [e \in Desk |-> IF work[e] = NoWork THEN NoWork ELSE [work[e] EXCEPT !.late = TRUE]]

CommitAccess(d) ==
    LET w == work[d]
    IN  /\ w # NoWork
        /\ Len(tokens) + Len(w.issued) <= MaxTokens
        /\ Len(grants) + Len(w.granted) <= MaxGrants
        /\ accounts' = [accounts EXCEPT ![w.user] =
              [c \in DOMAIN @ |-> IF c \in DOMAIN w.columns THEN w.columns[c] ELSE @[c]]]
        /\ tokens' = [n \in DOMAIN tokens |-> [tokens[n] EXCEPT !.live = @ /\ n \notin w.revoked]]
                        \o w.issued
        /\ grants' = [n \in DOMAIN grants |-> [grants[n] EXCEPT !.live = @ /\ n \notin w.dropped]]
                        \o w.granted
        /\ work' = [Crossing EXCEPT ![d] = NoWork]
        /\ crossed' = (crossed \/ w.late)
        /\ UNCHANGED clock

\* The connection is lost before the commit.
AbortAccess(d) ==
    /\ work[d] # NoWork
    /\ work' = [work EXCEPT ![d] = NoWork]
    /\ UNCHANGED <<accessTables, clock, crossed>>

-----------------------------------------------------------------------------
(* Sessions.                                                                *)

\* A locked account answers as an unknown one, whatever the password.
Locked(u) == accounts[u].lockedUntil > clock

\* Mutation: the failure that reaches the limit does not lock yet.
FailureCounted(row) ==
    IF row.failed + 1 > MaxFail
    THEN [row EXCEPT !.failed = 0, !.lockedUntil = clock + LockTime]
    ELSE [row EXCEPT !.failed = @ + 1]

\* login, the password is wrong: this is committed although the request fails.
Failure(row) ==
    IF row.failed + 1 >= MaxFail
    THEN [row EXCEPT !.failed = 0, !.lockedUntil = clock + LockTime]
    ELSE [row EXCEPT !.failed = @ + 1]

BeginWrongPassword(d, u) ==
    /\ Exists(u) /\ ~ Locked(u)
    /\ BeginAccess(d, Writing(u, Failure(accounts[u])))

\* login, the password is right.
BeginLogin(d, u) ==
    /\ accounts[u].status = "active" /\ ~ Locked(u)
    /\ Len(tokens) < MaxTokens
    /\ BeginAccess(d,
          [Writing(u, [accounts[u] EXCEPT !.failed = 0, !.lockedUntil = Unlocked]) EXCEPT
              !.issued = <<[user |-> u, live |-> TRUE, from |-> 0,
                            password |-> accounts[u].password]>>])

\* Mutation: the old token stays good.
BeginRefreshKeeping(d, n) ==
    LET u == tokens[n].user
    IN  /\ tokens[n].live /\ Exists(u) /\ Len(tokens) < MaxTokens
        /\ BeginAccess(d, [Writing(u, accounts[u]) EXCEPT !.issued = <<[tokens[n] EXCEPT !.from = n]>>])

\* refresh: the token is rotated.  The account need not be active.
BeginRefresh(d, n) ==
    LET u == tokens[n].user
    IN  /\ tokens[n].live /\ Exists(u) /\ Len(tokens) < MaxTokens
        /\ BeginAccess(d, [Writing(u, accounts[u]) EXCEPT
              !.revoked = {n}, !.issued = <<[tokens[n] EXCEPT !.from = n]>>])

Logout(n) ==
    /\ tokens[n].live /\ accounts[tokens[n].user].status = "active"
    /\ tokens' = [tokens EXCEPT ![n].live = FALSE]
    /\ work' = Crossing /\ UNCHANGED <<accounts, grants, clock, crossed>>

-----------------------------------------------------------------------------
(* Administration.  The actor is any other active user: the roles tested are *)
(* those of its access token, which may be older than the tables.            *)

Actor(u) == \E a \in User \ {u} : accounts[a].status = "active"

\* Mutation: every account counts, active or not.
LastSuperAdminOfAll(u, gone) ==
    "super_admin" \in RolesOf(u)
        /\ Cardinality({a \in User : "super_admin" \in RolesOf(a)} \ gone) <= 1

\* _guard_not_last_super_admin; "gone" are accounts the request has deactivated.
LastSuperAdmin(u, gone) ==
    "super_admin" \in RolesOf(u) /\ Cardinality(ActiveSuperAdmins \ gone) <= 1

\* create_user and bulk_create of teacher accounts; the e-mail is unique.
CreateUser(u, role, password) ==
    /\ accounts[u].status = "absent" /\ Len(grants) < MaxGrants
    /\ accounts' = [accounts EXCEPT ![u] = Account("active", password)]
    /\ grants' = Append(grants, [user |-> u, role |-> role, live |-> TRUE])
    /\ work' = Crossing /\ UNCHANGED <<tokens, clock, crossed>>

Deactivating(u, status) == [Writing(u, [accounts[u] EXCEPT !.status = status]) EXCEPT
                                !.revoked = LiveTokens(u)]

\* What set_user_role adds to a request.
WithRole(w, u, role) ==
    [w EXCEPT !.dropped = LiveGrants(u),
              !.granted = <<[user |-> u, role |-> role, live |-> TRUE]>>]

\* update_user: the status, the role, or both.  A demotion counts again, after
\* the account was deactivated.
BeginDeactivate(d, u) ==
    /\ Exists(u) /\ Actor(u) /\ ~ LastSuperAdmin(u, {})
    /\ BeginAccess(d, Deactivating(u, "inactive"))

BeginActivate(d, u) ==
    /\ Exists(u)
    /\ BeginAccess(d, Writing(u, [accounts[u] EXCEPT !.status = "active"]))

BeginSetRole(d, u, role) ==
    /\ Exists(u) /\ Len(grants) < MaxGrants
    /\ role # "super_admin" => ~ LastSuperAdmin(u, {})
    /\ BeginAccess(d, WithRole(Writing(u, accounts[u]), u, role))

BeginDeactivateWithRole(d, u, role) ==
    /\ Exists(u) /\ Actor(u) /\ Len(grants) < MaxGrants
    /\ ~ LastSuperAdmin(u, {})
    /\ role # "super_admin" => ~ LastSuperAdmin(u, {u})
    /\ BeginAccess(d, WithRole(Deactivating(u, "inactive"), u, role))

BeginDelete(d, u) ==
    /\ Exists(u) /\ Actor(u) /\ ~ LastSuperAdmin(u, {})
    /\ BeginAccess(d, Deactivating(u, "deleted"))

\* change_own_password, and reset_password of an administrator.
BeginNewPassword(d, u, password) ==
    /\ Exists(u) /\ password # accounts[u].password
    /\ BeginAccess(d, [Writing(u, [accounts[u] EXCEPT !.password = password]) EXCEPT
                          !.revoked = LiveTokens(u)])

\* reset_password of a teacher account: the lock is lifted, too.
BeginTemporaryPassword(d, u, password) ==
    /\ u \in TeacherUser /\ Exists(u)
    /\ BeginAccess(d, [Writing(u, Account(accounts[u].status, password)) EXCEPT
                          !.revoked = LiveTokens(u)])

\* unlock.
BeginUnlock(d, u) ==
    /\ u \in TeacherUser /\ Exists(u)
    /\ BeginAccess(d, Writing(u, [accounts[u] EXCEPT !.failed = 0, !.lockedUntil = Unlocked]))

\* set_enabled of a teacher account: no one is counted.
BeginDisable(d, u) ==
    /\ u \in TeacherUser /\ Exists(u)
    /\ BeginAccess(d, Deactivating(u, "inactive"))

TokenExpires(n) ==
    /\ tokens[n].live
    /\ tokens' = [tokens EXCEPT ![n].live = FALSE]
    /\ UNCHANGED <<accounts, grants, work, clock, crossed>>

ClockTicks == clock < LastTick /\ clock' = clock + 1 /\ UNCHANGED <<accessTables, work, crossed>>

AccessNext ==
    \/ \E d \in Desk :
          \/ \E n \in DOMAIN tokens : BeginRefresh(d, n)
          \/ \E u \in User :
                \/ BeginLogin(d, u) \/ BeginWrongPassword(d, u)
                \/ BeginDeactivate(d, u) \/ BeginActivate(d, u) \/ BeginDelete(d, u)
                \/ BeginUnlock(d, u) \/ BeginDisable(d, u)
                \/ \E r \in Role : BeginSetRole(d, u, r) \/ BeginDeactivateWithRole(d, u, r)
                \/ \E p \in Password : BeginNewPassword(d, u, p) \/ BeginTemporaryPassword(d, u, p)
          \/ CommitAccess(d) \/ AbortAccess(d)
    \/ \E u \in User, r \in Role, p \in Password : CreateUser(u, r, p)
    \/ \E n \in DOMAIN tokens : Logout(n) \/ TokenExpires(n)
    \/ ClockTicks

AccessSpec == AccessInit /\ [][AccessNext]_accessVars

-----------------------------------------------------------------------------
(* Properties.                                                              *)

\* The shape of the tables.  Also under overlapping failures the count of an
\* account stays below the limit that locks it.
AccessTypeOK ==
    /\ \A u \in User :
          /\ accounts[u].status \in {"absent", "active", "inactive", "deleted"}
          /\ accounts[u].password \in Password
          /\ accounts[u].failed \in 0 .. MaxFail - 1
          /\ accounts[u].lockedUntil \in {Unlocked} \cup 0 .. LastTick + LockTime
    /\ \A n \in DOMAIN grants : grants[n].user \in User /\ grants[n].role \in Role
    /\ \A n \in DOMAIN tokens : tokens[n].user \in User /\ tokens[n].from \in 0 .. n - 1

\* "the last active super_admin cannot be deactivated, deleted, or demoted":
\* if none is left, requests crossed, or a teacher account was switched off.
SuperAdminRemains ==
    [][(ActiveSuperAdmins # {} /\ ~ crossed')
          => \/ ActiveSuperAdmins' # {}
             \/ \E u \in TeacherUser : accounts[u].status = "active"
                                      /\ accounts'[u].status = "inactive"]_accessVars

\* Deactivating, deleting or a new password ends the sessions of the account:
\* what is live was opened by an active account with its present password,
\* however often it was refreshed, unless requests crossed.
SessionsEndWithAccount ==
    crossed \/ \A n \in DOMAIN tokens :
                   tokens[n].live => /\ accounts[tokens[n].user].status = "active"
                                     /\ accounts[tokens[n].user].password = tokens[n].password

\* A refresh token is traded once, so a session has one that is live, unless two
\* requests with one token crossed.
TokenSpentOnce ==
    crossed \/ \A m, n \in DOMAIN tokens :
                   (m # n /\ tokens[m].from = tokens[n].from) => tokens[m].from = 0

\* set_user_role makes a role the sole role of the user, unless two role changes
\* crossed.
SoleRole ==
    crossed \/ \A u \in User : Exists(u) => Cardinality(LiveGrants(u)) = 1

\* Sessions and roles of every account.
AccountsSound == SessionsEndWithAccount /\ TokenSpentOnce /\ SoleRole
=============================================================================
