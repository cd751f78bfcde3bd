------------------------------ MODULE Identity ------------------------------
(***************************************************************************)
(* Accounts, their devices, sessions and push endpoints, and the deletion of *)
(* an account.  Every request reads in one step and writes in a later one    *)
(* (READ COMMITTED, no row is locked between the two), so that any other     *)
(* request or the deletion worker may commit in between.  The worker's       *)
(* transaction claims the job, applies it and settles it under the job row's *)
(* lock, and is one step.                                                    *)
(*                                                                           *)
(* An account is named by its external subject, which is unique.  A push     *)
(* endpoint is a row per account and device.  A device's active flag and time *)
(* zone are written and never read, and the automations that the deletion     *)
(* cancels are those of Automations: neither is here.                         *)
(***************************************************************************)
EXTENDS Naturals, Sequences

CONSTANTS
    Subjects,       \* Huawei accounts
    Devices,
    Handlers,       \* requests the API serves at the same time
    None,           \* no owner, no device
    MaxSessions     \* bound on the sessions ever issued

ASSUME IdentityAssumption == None \notin Subjects \cup Devices /\ MaxSessions \in Nat

VARIABLES
    users,          \* users.status by external subject, ABSENT when there is no row
    devices,        \* the account that owns a device
    endpoints,      \* push_endpoints by account and device
    sessions,       \* business_sessions in the order they were issued
    job,            \* the account's ACCOUNT_DELETION job
    handler         \* the requests: what each has read and is about to write

vars == <<users, devices, endpoints, sessions, job, handler>>

UserStatus == {"ABSENT", "ACTIVE", "DELETING", "DELETED"}

Session ==
    [user: Subjects, device: Devices \cup {None}, state: {"live", "expired", "revoked"}]

Idle == [op |-> "idle", user |-> None, device |-> None, bind |-> FALSE,
         read |-> "ABSENT", session |-> 0]

\* A request under way: what it has read, or a session by its place in sessions.
Request ==
    [op: {"idle", "login", "refresh", "logout", "register", "push", "delete"},
     user: Subjects \cup {None}, device: Devices \cup {None}, bind: BOOLEAN,
     read: UserStatus, session: Nat]

TypeOK ==
    /\ users \in [Subjects -> UserStatus]
    /\ devices \in [Devices -> Subjects \cup {None}]
    /\ endpoints \in [Subjects \X Devices -> {"none", "active", "invalid"}]
    /\ sessions \in Seq(Session)
    /\ job \in [Subjects -> {"none", "READY", "COMPLETED"}]
    /\ handler \in [Handlers -> Request]
    /\ \A h \in Handlers :
         /\ handler[h].op # "idle" => handler[h].user \in Subjects
         /\ handler[h].op \in {"register", "push"} \/ handler[h].bind => handler[h].device \in Devices
         /\ handler[h].op \in {"refresh", "logout"} => handler[h].session \in DOMAIN sessions

Init ==
    /\ users = [s \in Subjects |-> "ABSENT"]
    /\ devices = [d \in Devices |-> None]
    /\ endpoints = [p \in Subjects \X Devices |-> "none"]
    /\ sessions = <<>>
    /\ job = [s \in Subjects |-> "none"]
    /\ handler = [h \in Handlers |-> Idle]

-----------------------------------------------------------------------------
(* Reads.                                                                    *)

Begin(h, request) ==
    /\ handler[h] = Idle
    /\ handler' = [handler EXCEPT ![h] = request]
    /\ UNCHANGED <<users, devices, endpoints, sessions, job>>

\* _register_device_locked, which locks nothing: the device is nobody else's.
MayOwn(s, d) == devices[d] \in {None, s}

\* huawei_login.  The device is registered only if its time zone is given; else
\* the session refers to it as it is.
BeginLogin(h, s, d, bind) ==
    /\ users[s] \in {"ABSENT", "ACTIVE"}
    /\ bind => d # None /\ MayOwn(s, d)
    /\ Begin(h, [Idle EXCEPT !.op = "login", !.user = s, !.device = d, !.bind = bind,
                             !.read = users[s]])

\* refresh_session does not ask whether the session has expired.
BeginRefresh(h, i) ==
    /\ sessions[i].state # "revoked"
    /\ users[sessions[i].user] = "ACTIVE"
    /\ Begin(h, [Idle EXCEPT !.op = "refresh", !.user = sessions[i].user, !.session = i])

\* get_current_user_id.
Authenticated(i) ==
    /\ sessions[i].state = "live"
    /\ users[sessions[i].user] = "ACTIVE"

BeginLogout(h, i) ==
    /\ Authenticated(i)
    /\ Begin(h, [Idle EXCEPT !.op = "logout", !.user = sessions[i].user, !.session = i])

BeginRegister(h, i, d) ==
    /\ Authenticated(i)
    /\ MayOwn(sessions[i].user, d)
    /\ Begin(h, [Idle EXCEPT !.op = "register", !.user = sessions[i].user, !.device = d])

BeginPushToken(h, i, d) ==
    /\ Authenticated(i)
    /\ devices[d] = sessions[i].user
    /\ Begin(h, [Idle EXCEPT !.op = "push", !.user = sessions[i].user, !.device = d])

BeginDeletion(h, i) ==
    /\ Authenticated(i)
    /\ Begin(h, [Idle EXCEPT !.op = "delete", !.user = sessions[i].user])

-----------------------------------------------------------------------------
(* Writes.                                                                   *)

Done(h, op) == handler[h].op = op /\ handler' = [handler EXCEPT ![h] = Idle]

\* Faulty: the account that owned the device loses it.
UpsertedToLast(s, d) == [devices EXCEPT ![d] = s]

\* The insert's conflict clause leaves user_id alone: of two accounts that register
\* a device at the same time the first keeps it.
Upserted(s, d) ==
    [devices EXCEPT ![d] = IF @ = None THEN s ELSE @]

Issued(s, d) ==
    Append(sessions, [user |-> s, device |-> d, state |-> "live"])

Invalidated(s, ds) ==
    [p \in Subjects \X Devices |->
        IF p[1] = s /\ p[2] \in ds /\ endpoints[p] # "none" THEN "invalid"
        ELSE endpoints[p]]

\* Faulty: the insert overwrites the row of another first login.
UserAddedOrReset(r) == r.read \in {"ABSENT", "ACTIVE"}

\* The unique index refuses the second of two first logins.
UserAdded(r) == r.read = "ABSENT" => users[r.user] = "ABSENT"

FinishLogin(h) ==
    LET r == handler[h]
    IN  /\ Done(h, "login")
        /\ Len(sessions) < MaxSessions
        /\ UserAdded(r)
        /\ r.device # None => r.bind \/ devices[r.device] # None   \* foreign key
        /\ users' = [users EXCEPT ![r.user] = IF r.read = "ABSENT" THEN "ACTIVE" ELSE @]
        /\ devices' = IF r.bind THEN Upserted(r.user, r.device) ELSE devices
        /\ sessions' = Issued(r.user, r.device)
        /\ UNCHANGED <<endpoints, job>>

FailLogin(h) ==
    LET r == handler[h]
    IN  /\ Done(h, "login")
        /\ \/ ~UserAdded(r)
           \/ r.device # None /\ ~r.bind /\ devices[r.device] = None
        /\ UNCHANGED <<users, devices, endpoints, sessions, job>>

\* Two refreshes of one token that overlap both issue a session.
FinishRefresh(h) ==
    LET i == handler[h].session
    IN  /\ Done(h, "refresh")
        /\ Len(sessions) < MaxSessions
        /\ sessions' = [Issued(sessions[i].user, sessions[i].device)
                            EXCEPT ![i].state = "revoked"]
        /\ UNCHANGED <<users, devices, endpoints, job>>

FinishLogout(h) ==
    LET i == handler[h].session
    IN  /\ Done(h, "logout")
        /\ sessions' = [sessions EXCEPT ![i].state = "revoked"]
        /\ endpoints' = Invalidated(handler[h].user, {sessions[i].device})
        /\ UNCHANGED <<users, devices, job>>

FinishRegister(h) ==
    /\ Done(h, "register")
    /\ devices' = Upserted(handler[h].user, handler[h].device)
    /\ UNCHANGED <<users, endpoints, sessions, job>>

FinishPushToken(h) ==
    /\ Done(h, "push")
    /\ endpoints' = [endpoints EXCEPT ![<<handler[h].user, handler[h].device>>] = "active"]
    /\ UNCHANGED <<users, devices, sessions, job>>

\* delete_push_token reads nothing before it writes.
DeletePushToken(i, d) ==
    /\ Authenticated(i)
    /\ endpoints' = Invalidated(sessions[i].user, {d})
    /\ UNCHANGED <<users, devices, sessions, job, handler>>

\* Faulty: the job is left to a later request, which the status refuses.
FinishDeletionOnly(h) ==
    /\ Done(h, "delete")
    /\ users' = [users EXCEPT ![handler[h].user] = "DELETING"]
    /\ UNCHANGED <<devices, endpoints, sessions, job>>

\* request_account_deletion: the status that was read decides, so that a late
\* duplicate writes DELETING over DELETED; the job is there already.
FinishDeletion(h) ==
    LET s == handler[h].user
    IN  /\ Done(h, "delete")
        /\ users' = [users EXCEPT ![s] = "DELETING"]
        /\ job' = [job EXCEPT ![s] = IF @ = "none" THEN "READY" ELSE @]
        /\ UNCHANGED <<devices, endpoints, sessions>>

Revoked(s) ==
    [i \in DOMAIN sessions |->
        IF sessions[i].user = s THEN [sessions[i] EXCEPT !.state = "revoked"] ELSE sessions[i]]

\* Requests that have read the account before write after this all the same.
ApplyAccountDeletion(s) ==
    /\ users' = [users EXCEPT ![s] = "DELETED"]
    /\ endpoints' = Invalidated(s, Devices)
    /\ sessions' = Revoked(s)

\* AccountDeletionWorker.run_once.  If it raises, the claim is rolled back with the
\* rest and the job stays READY.
DeleteAccount(s) ==
    /\ job[s] = "READY"
    /\ job' = [job EXCEPT ![s] = "COMPLETED"]
    /\ ApplyAccountDeletion(s)
    /\ UNCHANGED <<devices, handler>>

\* The session's time is over.
Expire(i) ==
    /\ sessions[i].state = "live"
    /\ sessions' = [sessions EXCEPT ![i].state = "expired"]
    /\ UNCHANGED <<users, devices, endpoints, job, handler>>

Requests(h) ==
    \/ \E s \in Subjects, d \in Devices \cup {None}, bind \in BOOLEAN : BeginLogin(h, s, d, bind)
    \/ \E i \in DOMAIN sessions :
           \/ BeginRefresh(h, i) \/ BeginLogout(h, i) \/ BeginDeletion(h, i)
           \/ \E d \in Devices : BeginRegister(h, i, d) \/ BeginPushToken(h, i, d)

Commits(h) ==
    \/ FinishLogin(h) \/ FailLogin(h) \/ FinishRefresh(h) \/ FinishLogout(h)
    \/ FinishRegister(h) \/ FinishPushToken(h) \/ FinishDeletion(h)

Next ==
    \/ \E h \in Handlers : Requests(h) \/ Commits(h)
    \/ \E i \in DOMAIN sessions : Expire(i) \/ \E d \in Devices : DeletePushToken(i, d)
    \/ \E s \in Subjects : DeleteAccount(s)

Spec == Init /\ [][Next]_vars

\* AccountDeletionScheduler polls until it is stopped.
FairSpec == Spec /\ \A s \in Subjects : WF_vars(DeleteAccount(s))

-----------------------------------------------------------------------------
\* A push endpoint belongs to the account that owns its device: reminders of one
\* account never reach a device that has become another's, however the logins and
\* registrations of two accounts on it overlap (_register_device_locked, upsert,
\* upsert_push_token).
EndpointFollowsOwner ==
    \A s \in Subjects, d \in Devices :
        endpoints[<<s, d>>] # "none" => devices[d] = s

\* A request to delete the account is never taken back: no login, refresh or late
\* duplicate that was under way makes the account usable again (huawei_login,
\* request_account_deletion, apply_account_deletion).
DeletionIsFinal ==
    [][\A s \in Subjects :
          users[s] \in {"DELETING", "DELETED"} => users'[s] \in {"DELETING", "DELETED"}]_vars

\* The cleanup of every account whose deletion was requested is carried out
\* (request_account_deletion enqueues, AccountDeletionWorker applies).
EveryDeletionRuns == \A s \in Subjects : users[s] = "DELETING" ~> job[s] = "COMPLETED"
=============================================================================
