--------------------------- MODULE IdentityProofs ---------------------------
(***************************************************************************)
(* Accounts and devices proved correct for any accounts, devices and number  *)
(* of requests under way: type correctness, the owner of a push endpoint and *)
(* the finality of a deletion.                                               *)
(***************************************************************************)
EXTENDS Identity, TLAPS

-----------------------------------------------------------------------------
(* What the statements do to a table. *)

\* Invalidating endpoints creates none.
LEMMA InvalidatedFacts ==
    ASSUME NEW s, NEW ds, endpoints \in [Subjects \X Devices -> {"none", "active", "invalid"}]
    PROVE  /\ Invalidated(s, ds) \in [Subjects \X Devices -> {"none", "active", "invalid"}]
           /\ \A u \in Subjects, d \in Devices :
                 Invalidated(s, ds)[<<u, d>>] # "none" => endpoints[<<u, d>>] # "none"
<1>1. \A p \in Subjects \X Devices : endpoints[p] \in {"none", "active", "invalid"}
  OBVIOUS
<1>2. Invalidated(s, ds) \in [Subjects \X Devices -> {"none", "active", "invalid"}]
  BY <1>1 DEF Invalidated
<1>3. ASSUME NEW u \in Subjects, NEW d \in Devices, Invalidated(s, ds)[<<u, d>>] # "none"
      PROVE  endpoints[<<u, d>>] # "none"
  <2>1. <<u, d>> \in Subjects \X Devices
    OBVIOUS
  <2>2. QED
    BY <1>3, <2>1 DEF Invalidated
<1>4. QED
  BY <1>2, <1>3

\* A device that has an owner keeps it.
LEMMA UpsertedFacts ==
    ASSUME NEW s \in Subjects, NEW d \in Devices,
           devices \in [Devices -> Subjects \cup {None}]
    PROVE  /\ Upserted(s, d) \in [Devices -> Subjects \cup {None}]
           /\ \A e \in Devices : devices[e] # None => Upserted(s, d)[e] = devices[e]
  BY DEF Upserted

\* A session issued is appended, and none goes away.
LEMMA IssuedFacts ==
    ASSUME NEW s \in Subjects, NEW d \in Devices \cup {None}, sessions \in Seq(Session)
    PROVE  /\ Issued(s, d) \in Seq(Session)
           /\ DOMAIN sessions \subseteq DOMAIN Issued(s, d)
  BY DEF Issued, Session

\* Rewriting one session keeps the others and their number.
LEMMA RestatedFacts ==
    ASSUME NEW ss \in Seq(Session), NEW i \in DOMAIN ss,
           NEW state \in {"live", "expired", "revoked"}
    PROVE  /\ [ss EXCEPT ![i].state = state] \in Seq(Session)
           /\ DOMAIN [ss EXCEPT ![i].state = state] = DOMAIN ss
<1>1. [ss[i] EXCEPT !.state = state] \in Session
  <2>1. ss[i] \in Session
    OBVIOUS
  <2>2. QED
    BY <2>1 DEF Session
<1>2. QED
  BY <1>1

\* Revoking the sessions of an account keeps their number.
LEMMA RevokedFacts ==
    ASSUME NEW s, sessions \in Seq(Session)
    PROVE  /\ Revoked(s) \in Seq(Session)
           /\ DOMAIN Revoked(s) = DOMAIN sessions
<1> DEFINE r(i) == IF sessions[i].user = s THEN [sessions[i] EXCEPT !.state = "revoked"]
                                           ELSE sessions[i]
<1>1. ASSUME NEW i \in DOMAIN sessions
      PROVE  r(i) \in Session
  <2>1. sessions[i] \in Session
    OBVIOUS
  <2>2. QED
    BY <2>1 DEF Session
<1>2. DOMAIN sessions = 1 .. Len(sessions) /\ Len(sessions) \in Nat
  OBVIOUS
<1>3. Revoked(s) = [i \in 1 .. Len(sessions) |-> r(i)]
  BY <1>2 DEF Revoked
<1> HIDE DEF r
<1>4. QED
  BY <1>1, <1>2, <1>3

-----------------------------------------------------------------------------
(* Requests *)

\* What TypeOK asks of a request under way, when there are the sessions ss.
Sound(r, ss) ==
    /\ r \in Request
    /\ r.op # "idle" => r.user \in Subjects
    /\ r.op \in {"register", "push"} \/ r.bind => r.device \in Devices
    /\ r.op \in {"refresh", "logout"} => r.session \in DOMAIN ss

LEMMA IdleIsSound == \A ss : Sound(Idle, ss)
  BY DEF Sound, Idle, Request, UserStatus

\* A request that begins is sound and leaves the tables alone.
LEMMA BeginType ==
    ASSUME TypeOK, NEW h \in Handlers, NEW r, Sound(r, sessions), Begin(h, r)
    PROVE  TypeOK'
  BY DEF TypeOK, Begin, Sound

\* A request that ends leaves the others sound, when no session goes away.
LEMMA DoneType ==
    ASSUME TypeOK, NEW h \in Handlers, NEW op, Done(h, op),
           DOMAIN sessions \subseteq DOMAIN sessions'
    PROVE  /\ handler' \in [Handlers -> Request]
           /\ \A k \in Handlers : Sound(handler'[k], sessions')
<1>1. Sound(Idle, sessions') /\ Idle \in Request
  BY IdleIsSound DEF Sound
<1>2. QED
  BY <1>1 DEF TypeOK, Done, Sound

\* The requests of Requests are sound when they begin.
LEMMA RequestsType ==
    ASSUME TypeOK, NEW h \in Handlers, Requests(h)
    PROVE  TypeOK'
<1>1. \A i \in DOMAIN sessions : sessions[i].user \in Subjects
  <2>1. \A i \in DOMAIN sessions : sessions[i] \in Session
    BY DEF TypeOK
  <2>2. QED
    BY <2>1 DEF Session
<1>2. DOMAIN sessions \subseteq Nat
  BY DEF TypeOK
<1>3. Idle \in Request
  BY IdleIsSound DEF Sound
<1>4. CASE \E s \in Subjects, d \in Devices \cup {None}, bind \in BOOLEAN : BeginLogin(h, s, d, bind)
  <2>1. PICK s \in Subjects, d \in Devices \cup {None}, bind \in BOOLEAN : BeginLogin(h, s, d, bind)
    BY <1>4
  <2> DEFINE r == [Idle EXCEPT !.op = "login", !.user = s, !.device = d, !.bind = bind,
                                  !.read = users[s]]
  <2>2. Begin(h, r) /\ (bind => d # None)
    BY <2>1 DEF BeginLogin
  <2>3. r \in Request
    BY <1>1, <1>2, <1>3 DEF Request, TypeOK
  <2>4. r.op = "login" /\ r.user = s /\ r.device = d /\ r.bind = bind
    BY DEF Idle
  <2> HIDE DEF r
  <2>5. Sound(r, sessions)
    BY <2>2, <2>3, <2>4 DEF Sound
  <2>6. QED
    BY <2>2, <2>5, BeginType
<1>5. CASE \E i \in DOMAIN sessions : BeginRefresh(h, i)
  <2>1. PICK i \in DOMAIN sessions : BeginRefresh(h, i)
    BY <1>5
  <2> DEFINE r == [Idle EXCEPT !.op = "refresh", !.user = sessions[i].user, !.session = i]
  <2>2. Begin(h, r)
    BY <2>1 DEF BeginRefresh
  <2>3. r \in Request
    BY <1>1, <1>2, <1>3 DEF Request
  <2>4. r.op = "refresh" /\ r.user = sessions[i].user /\ r.bind = FALSE /\ r.session = i
    BY DEF Idle
  <2> HIDE DEF r
  <2>5. Sound(r, sessions)
    BY <1>1, <2>3, <2>4 DEF Sound
  <2>6. QED
    BY <2>2, <2>5, BeginType
<1>6. CASE \E i \in DOMAIN sessions : BeginLogout(h, i)
  <2>1. PICK i \in DOMAIN sessions : BeginLogout(h, i)
    BY <1>6
  <2> DEFINE r == [Idle EXCEPT !.op = "logout", !.user = sessions[i].user, !.session = i]
  <2>2. Begin(h, r)
    BY <2>1 DEF BeginLogout
  <2>3. r \in Request
    BY <1>1, <1>2, <1>3 DEF Request
  <2>4. r.op = "logout" /\ r.user = sessions[i].user /\ r.bind = FALSE /\ r.session = i
    BY DEF Idle
  <2> HIDE DEF r
  <2>5. Sound(r, sessions)
    BY <1>1, <2>3, <2>4 DEF Sound
  <2>6. QED
    BY <2>2, <2>5, BeginType
<1>7. CASE \E i \in DOMAIN sessions : BeginDeletion(h, i)
  <2>1. PICK i \in DOMAIN sessions : BeginDeletion(h, i)
    BY <1>7
  <2> DEFINE r == [Idle EXCEPT !.op = "delete", !.user = sessions[i].user]
  <2>2. Begin(h, r)
    BY <2>1 DEF BeginDeletion
  <2>3. r \in Request
    BY <1>1, <1>2, <1>3 DEF Request
  <2>4. r.op = "delete" /\ r.user = sessions[i].user /\ r.bind = FALSE
    BY DEF Idle
  <2> HIDE DEF r
  <2>5. Sound(r, sessions)
    BY <1>1, <2>3, <2>4 DEF Sound
  <2>6. QED
    BY <2>2, <2>5, BeginType
<1>8. CASE \E i \in DOMAIN sessions, d \in Devices : BeginRegister(h, i, d)
  <2>1. PICK i \in DOMAIN sessions, d \in Devices : BeginRegister(h, i, d)
    BY <1>8
  <2> DEFINE r == [Idle EXCEPT !.op = "register", !.user = sessions[i].user, !.device = d]
  <2>2. Begin(h, r)
    BY <2>1 DEF BeginRegister
  <2>3. r \in Request
    BY <1>1, <1>2, <1>3 DEF Request
  <2>4. r.op = "register" /\ r.user = sessions[i].user /\ r.device = d
    BY DEF Idle
  <2> HIDE DEF r
  <2>5. Sound(r, sessions)
    BY <1>1, <2>3, <2>4 DEF Sound
  <2>6. QED
    BY <2>2, <2>5, BeginType
<1>9. CASE \E i \in DOMAIN sessions, d \in Devices : BeginPushToken(h, i, d)
  <2>1. PICK i \in DOMAIN sessions, d \in Devices : BeginPushToken(h, i, d)
    BY <1>9
  <2> DEFINE r == [Idle EXCEPT !.op = "push", !.user = sessions[i].user, !.device = d]
  <2>2. Begin(h, r)
    BY <2>1 DEF BeginPushToken
  <2>3. r \in Request
    BY <1>1, <1>2, <1>3 DEF Request
  <2>4. r.op = "push" /\ r.user = sessions[i].user /\ r.device = d
    BY DEF Idle
  <2> HIDE DEF r
  <2>5. Sound(r, sessions)
    BY <1>1, <2>3, <2>4 DEF Sound
  <2>6. QED
    BY <2>2, <2>5, BeginType
<1>10. QED
  BY <1>4, <1>5, <1>6, <1>7, <1>8, <1>9 DEF Requests

\* The commits keep the tables well typed and the requests under way sound.
LEMMA CommitsType ==
    ASSUME TypeOK, NEW h \in Handlers, Commits(h)
    PROVE  TypeOK'
<1> DEFINE r == handler[h]
<1>1. /\ r \in Request
      /\ r.op # "idle" => r.user \in Subjects
      /\ r.op \in {"register", "push"} \/ r.bind => r.device \in Devices
      /\ r.op \in {"refresh", "logout"} => r.session \in DOMAIN sessions
  BY DEF TypeOK
<1>2. r.device \in Devices \cup {None}
  BY <1>1 DEF Request
<1>3. \A i \in DOMAIN sessions :
         sessions[i].user \in Subjects /\ sessions[i].device \in Devices \cup {None}
  <2>1. \A i \in DOMAIN sessions : sessions[i] \in Session
    BY DEF TypeOK
  <2>2. QED
    BY <2>1 DEF Session
<1> HIDE DEF r
<1>4. CASE FinishLogin(h)
  <2>1. Done(h, "login") /\ r.op = "login" /\ r.user \in Subjects
    BY <1>1, <1>4 DEF FinishLogin, Done, r
  <2>2. users' \in [Subjects -> UserStatus]
    BY <1>4, <2>1 DEF FinishLogin, r, TypeOK, UserStatus
  <2>3. devices' \in [Devices -> Subjects \cup {None}]
    <3>1. CASE r.bind
      BY <1>1, <1>4, <2>1, <3>1, UpsertedFacts DEF FinishLogin, r, TypeOK
    <3>2. CASE ~r.bind
      BY <1>4, <3>2 DEF FinishLogin, r, TypeOK
    <3>3. QED
      BY <3>1, <3>2
  <2>4. sessions' \in Seq(Session) /\ DOMAIN sessions \subseteq DOMAIN sessions'
    BY <1>2, <1>4, <2>1, IssuedFacts DEF FinishLogin, r, TypeOK
  <2>5. UNCHANGED <<endpoints, job>>
    BY <1>4 DEF FinishLogin
  <2>6. QED
    BY <2>1, <2>2, <2>3, <2>4, <2>5, DoneType DEF TypeOK, Sound
<1>5. CASE FailLogin(h)
  <2>1. Done(h, "login") /\ UNCHANGED <<users, devices, endpoints, sessions, job>>
    BY <1>5 DEF FailLogin
  <2>2. QED
    BY <2>1, DoneType DEF TypeOK, Sound
<1>6. CASE FinishRefresh(h)
  <2> DEFINE i == r.session
             ss == Issued(sessions[i].user, sessions[i].device)
  <2>1. Done(h, "refresh") /\ i \in DOMAIN sessions
    BY <1>1, <1>6 DEF FinishRefresh, Done, r
  <2>2. ss \in Seq(Session) /\ DOMAIN sessions \subseteq DOMAIN ss
    BY <1>3, <2>1, IssuedFacts DEF TypeOK
  <2>3. sessions' = [ss EXCEPT ![i].state = "revoked"]
    BY <1>6 DEF FinishRefresh, r
  <2> HIDE DEF ss, i
  <2>4. sessions' \in Seq(Session) /\ DOMAIN sessions' = DOMAIN ss
    BY <2>1, <2>2, <2>3, RestatedFacts
  <2>5. UNCHANGED <<users, devices, endpoints, job>>
    BY <1>6 DEF FinishRefresh
  <2>6. QED
    BY <2>1, <2>2, <2>4, <2>5, DoneType DEF TypeOK, Sound
<1>7. CASE FinishLogout(h)
  <2>1. Done(h, "logout") /\ r.session \in DOMAIN sessions
    BY <1>1, <1>7 DEF FinishLogout, Done, r
  <2>2. sessions' = [sessions EXCEPT ![r.session].state = "revoked"]
    BY <1>7 DEF FinishLogout, r
  <2>3. sessions' \in Seq(Session) /\ DOMAIN sessions' = DOMAIN sessions
    BY <2>1, <2>2, RestatedFacts DEF TypeOK
  <2>4. endpoints' \in [Subjects \X Devices -> {"none", "active", "invalid"}]
    BY <1>7, InvalidatedFacts DEF FinishLogout, TypeOK
  <2>5. UNCHANGED <<users, devices, job>>
    BY <1>7 DEF FinishLogout
  <2>6. QED
    BY <2>1, <2>3, <2>4, <2>5, DoneType DEF TypeOK, Sound
<1>8. CASE FinishRegister(h)
  <2>1. Done(h, "register") /\ r.user \in Subjects /\ r.device \in Devices
    BY <1>1, <1>8 DEF FinishRegister, Done, r
  <2>2. devices' \in [Devices -> Subjects \cup {None}]
    BY <1>8, <2>1, UpsertedFacts DEF FinishRegister, r, TypeOK
  <2>3. UNCHANGED <<users, endpoints, sessions, job>>
    BY <1>8 DEF FinishRegister
  <2>4. QED
    BY <2>1, <2>2, <2>3, DoneType DEF TypeOK, Sound
<1>9. CASE FinishPushToken(h)
  <2>1. Done(h, "push") /\ r.user \in Subjects /\ r.device \in Devices
    BY <1>1, <1>9 DEF FinishPushToken, Done, r
  <2>2. endpoints' \in [Subjects \X Devices -> {"none", "active", "invalid"}]
    BY <1>9, <2>1 DEF FinishPushToken, r, TypeOK
  <2>3. UNCHANGED <<users, devices, sessions, job>>
    BY <1>9 DEF FinishPushToken
  <2>4. QED
    BY <2>1, <2>2, <2>3, DoneType DEF TypeOK, Sound
<1>10. CASE FinishDeletion(h)
  <2>1. Done(h, "delete") /\ r.user \in Subjects
    BY <1>1, <1>10 DEF FinishDeletion, Done, r
  <2>2. users' \in [Subjects -> UserStatus]
    BY <1>10, <2>1 DEF FinishDeletion, r, TypeOK, UserStatus
  <2>3. job' \in [Subjects -> {"none", "READY", "COMPLETED"}]
    BY <1>10, <2>1 DEF FinishDeletion, r, TypeOK
  <2>4. UNCHANGED <<devices, endpoints, sessions>>
    BY <1>10 DEF FinishDeletion
  <2>5. QED
    BY <2>1, <2>2, <2>3, <2>4, DoneType DEF TypeOK, Sound
<1>11. QED
  BY <1>4, <1>5, <1>6, <1>7, <1>8, <1>9, <1>10 DEF Commits

-----------------------------------------------------------------------------
(* Type correctness *)

LEMMA TypeInit == Init => TypeOK
<1> SUFFICES ASSUME Init PROVE TypeOK
  OBVIOUS
<1>1. Idle \in Request /\ Idle.op = "idle" /\ Idle.bind = FALSE
  BY IdleIsSound DEF Sound, Idle
<1>2. sessions \in Seq(Session)
  BY DEF Init
<1>3. QED
  BY <1>1, <1>2 DEF Init, TypeOK, UserStatus

LEMMA TypeStep == TypeOK /\ [Next]_vars => TypeOK'
<1> SUFFICES ASSUME TypeOK, [Next]_vars PROVE TypeOK'
  OBVIOUS
<1>1. CASE \E h \in Handlers : Requests(h)
  BY <1>1, RequestsType
<1>2. CASE \E h \in Handlers : Commits(h)
  BY <1>2, CommitsType
<1>3. CASE \E i \in DOMAIN sessions : Expire(i)
  <2>1. PICK i \in DOMAIN sessions : Expire(i)
    BY <1>3
  <2>2. sessions' \in Seq(Session) /\ DOMAIN sessions' = DOMAIN sessions
    BY <2>1, RestatedFacts DEF Expire, TypeOK
  <2>3. UNCHANGED <<users, devices, endpoints, job, handler>>
    BY <2>1 DEF Expire
  <2>4. QED
    BY <2>2, <2>3 DEF TypeOK
<1>4. CASE \E i \in DOMAIN sessions, d \in Devices : DeletePushToken(i, d)
  <2>1. PICK i \in DOMAIN sessions, d \in Devices : DeletePushToken(i, d)
    BY <1>4
  <2>2. endpoints' \in [Subjects \X Devices -> {"none", "active", "invalid"}]
    BY <2>1, InvalidatedFacts DEF DeletePushToken, TypeOK
  <2>3. UNCHANGED <<users, devices, sessions, job, handler>>
    BY <2>1 DEF DeletePushToken
  <2>4. QED
    BY <2>2, <2>3 DEF TypeOK
<1>5. CASE \E s \in Subjects : DeleteAccount(s)
  <2>1. PICK s \in Subjects : DeleteAccount(s)
    BY <1>5
  <2>2. endpoints' \in [Subjects \X Devices -> {"none", "active", "invalid"}]
    BY <2>1, InvalidatedFacts DEF DeleteAccount, ApplyAccountDeletion, TypeOK
  <2>3. sessions' \in Seq(Session) /\ DOMAIN sessions' = DOMAIN sessions
    BY <2>1, RevokedFacts DEF DeleteAccount, ApplyAccountDeletion, TypeOK
  <2>4. users' \in [Subjects -> UserStatus] /\ job' \in [Subjects -> {"none", "READY", "COMPLETED"}]
    BY <2>1 DEF DeleteAccount, ApplyAccountDeletion, TypeOK, UserStatus
  <2>5. UNCHANGED <<devices, handler>>
    BY <2>1 DEF DeleteAccount
  <2>6. QED
    BY <2>2, <2>3, <2>4, <2>5 DEF TypeOK
<1>6. CASE UNCHANGED vars
  BY <1>6 DEF vars, TypeOK
<1>7. QED
  BY <1>1, <1>2, <1>3, <1>4, <1>5, <1>6 DEF Next

\* The tables and the requests under way stay well typed, and a request refers to
\* an account, a device and a session there are (IdentityService).
THEOREM IdentityTypeCorrect == Spec => []TypeOK
  BY TypeInit, TypeStep, PTL DEF Spec

-----------------------------------------------------------------------------
(* The owner of a push endpoint *)

\* A request that stores a push token has read that the device is its account's, and
\* this is still so when it writes.
PushOwned ==
    \A h \in Handlers :
        handler[h].op = "push" => devices[handler[h].device] = handler[h].user

OwnerInv == TypeOK /\ EndpointFollowsOwner /\ PushOwned

\* No step takes a device away from its owner.
LEMMA OwnerStays ==
    ASSUME TypeOK, [Next]_vars
    PROVE  \A d \in Devices : devices[d] # None => devices'[d] = devices[d]
<1>1. CASE \E h \in Handlers : FinishLogin(h) \/ FinishRegister(h)
  <2>1. PICK h \in Handlers : FinishLogin(h) \/ FinishRegister(h)
    BY <1>1
  <2>2. /\ handler[h].user \in Subjects
        /\ handler[h].op = "register" \/ handler[h].bind => handler[h].device \in Devices
    BY <2>1 DEF FinishLogin, FinishRegister, Done, TypeOK
  <2>3. \/ devices' = devices
        \/ devices' = Upserted(handler[h].user, handler[h].device) /\ handler[h].device \in Devices
    BY <2>1, <2>2 DEF FinishLogin, FinishRegister, Done
  <2>4. QED
    BY <2>2, <2>3, UpsertedFacts DEF TypeOK
<1>2. CASE UNCHANGED devices
  BY <1>2
<1>3. QED
  BY <1>1, <1>2 DEF Next, vars, Requests, Commits, Begin, BeginLogin, BeginRefresh, BeginLogout,
     BeginRegister, BeginPushToken, BeginDeletion, FailLogin, FinishRefresh, FinishLogout,
     FinishPushToken, FinishDeletion, Expire, DeletePushToken, DeleteAccount

\* A step stores a push token for the account and device of a request that has read
\* the owner; the others create no endpoint.
LEMMA EndpointsStep ==
    ASSUME TypeOK, [Next]_vars,
           NEW s \in Subjects, NEW d \in Devices,
           endpoints'[<<s, d>>] # "none"
    PROVE  \/ endpoints[<<s, d>>] # "none"
           \/ \E h \in Handlers : handler[h].op = "push" /\ handler[h].user = s /\ handler[h].device = d
<1>1. CASE \E h \in Handlers : FinishPushToken(h)
  <2>1. PICK h \in Handlers : FinishPushToken(h)
    BY <1>1
  <2>2. /\ handler[h].op = "push"
        /\ endpoints' = [endpoints EXCEPT ![<<handler[h].user, handler[h].device>>] = "active"]
    BY <2>1 DEF FinishPushToken, Done
  <2>3. CASE <<handler[h].user, handler[h].device>> = <<s, d>>
    BY <2>2, <2>3
  <2>4. CASE <<handler[h].user, handler[h].device>> # <<s, d>>
    <3>1. <<s, d>> \in Subjects \X Devices
      OBVIOUS
    <3>2. endpoints'[<<s, d>>] = endpoints[<<s, d>>]
      BY <2>2, <2>4, <3>1 DEF TypeOK
    <3>3. QED
      BY <3>2
  <2>5. QED
    BY <2>3, <2>4
<1>2. CASE \E u, ds : endpoints' = Invalidated(u, ds)
  BY <1>2, InvalidatedFacts DEF TypeOK
<1>3. CASE UNCHANGED endpoints
  BY <1>3
<1>4. ASSUME NEW h \in Handlers, Requests(h)
      PROVE  UNCHANGED endpoints
  BY <1>4 DEF Requests, Begin, BeginLogin, BeginRefresh, BeginLogout, BeginRegister,
     BeginPushToken, BeginDeletion
<1>5. ASSUME NEW h \in Handlers, Commits(h)
      PROVE  \/ FinishPushToken(h)
             \/ \E u, ds : endpoints' = Invalidated(u, ds)
             \/ UNCHANGED endpoints
  BY <1>5 DEF Commits, FinishLogin, FailLogin, FinishRefresh, FinishLogout, FinishRegister,
     FinishDeletion
<1>6. ASSUME NEW i, NEW e \in Devices, Expire(i) \/ DeletePushToken(i, e)
      PROVE  (\E u, ds : endpoints' = Invalidated(u, ds)) \/ UNCHANGED endpoints
  BY <1>6 DEF Expire, DeletePushToken
<1>7. ASSUME NEW i, Expire(i)
      PROVE  UNCHANGED endpoints
  BY <1>7 DEF Expire
<1>8. ASSUME NEW u \in Subjects, DeleteAccount(u)
      PROVE  \E v, ds : endpoints' = Invalidated(v, ds)
  BY <1>8 DEF DeleteAccount, ApplyAccountDeletion
<1>9. CASE UNCHANGED vars
  BY <1>3, <1>9 DEF vars
<1>10. QED
  BY <1>1, <1>2, <1>3, <1>4, <1>5, <1>6, <1>7, <1>8, <1>9 DEF Next

\* A step that begins to store a push token has read the owner; the others leave every
\* such request as it is or end it.
LEMMA PushRequestStep ==
    ASSUME TypeOK, [Next]_vars, NEW k \in Handlers, handler'[k].op = "push"
    PROVE  \/ handler[k] = handler'[k]
           \/ devices[handler'[k].device] = handler'[k].user /\ handler'[k].user \in Subjects
<1>1. \A i \in DOMAIN sessions : sessions[i].user \in Subjects
  <2>1. \A i \in DOMAIN sessions : sessions[i] \in Session
    BY DEF TypeOK
  <2>2. QED
    BY <2>1 DEF Session
<1>2. CASE \E h \in Handlers, i \in DOMAIN sessions, d \in Devices : BeginPushToken(h, i, d)
  <2>1. PICK h \in Handlers, i \in DOMAIN sessions, d \in Devices : BeginPushToken(h, i, d)
    BY <1>2
  <2> DEFINE r == [Idle EXCEPT !.op = "push", !.user = sessions[i].user, !.device = d]
  <2>2. r.user = sessions[i].user /\ r.device = d
    BY DEF Idle
  <2>3. handler' = [handler EXCEPT ![h] = r] /\ devices[d] = sessions[i].user
    BY <2>1 DEF BeginPushToken, Begin
  <2> HIDE DEF r
  <2>4. QED
    BY <1>1, <2>2, <2>3 DEF TypeOK
<1>3. CASE \E h \in Handlers : \E r : handler' = [handler EXCEPT ![h] = r] /\ r.op # "push"
  BY <1>3 DEF TypeOK
<1>4. CASE UNCHANGED handler
  BY <1>4
<1>5. ASSUME NEW h \in Handlers, Requests(h),
             ~ \E i \in DOMAIN sessions, d \in Devices : BeginPushToken(h, i, d)
      PROVE  \E r : handler' = [handler EXCEPT ![h] = r] /\ r.op # "push"
  <2>1. CASE \E u \in Subjects, d \in Devices \cup {None}, bind \in BOOLEAN : BeginLogin(h, u, d, bind)
    <3>1. PICK u \in Subjects, d \in Devices \cup {None}, bind \in BOOLEAN : BeginLogin(h, u, d, bind)
      BY <2>1
    <3> DEFINE r == [Idle EXCEPT !.op = "login", !.user = u, !.device = d, !.bind = bind,
                                 !.read = users[u]]
    <3>2. r.op = "login"
      BY DEF Idle
    <3>3. handler' = [handler EXCEPT ![h] = r]
      BY <3>1 DEF BeginLogin, Begin
    <3> HIDE DEF r
    <3>4. QED
      BY <3>2, <3>3
  <2>2. CASE \E i \in DOMAIN sessions, op \in {"refresh", "logout"} :
                Begin(h, [Idle EXCEPT !.op = op, !.user = sessions[i].user, !.session = i])
    <3>1. PICK i \in DOMAIN sessions, op \in {"refresh", "logout"} :
                Begin(h, [Idle EXCEPT !.op = op, !.user = sessions[i].user, !.session = i])
      BY <2>2
    <3> DEFINE r == [Idle EXCEPT !.op = op, !.user = sessions[i].user, !.session = i]
    <3>2. r.op = op
      BY DEF Idle
    <3>3. handler' = [handler EXCEPT ![h] = r]
      BY <3>1 DEF Begin
    <3> HIDE DEF r
    <3>4. QED
      BY <3>2, <3>3
  <2>3. CASE \E i \in DOMAIN sessions : BeginDeletion(h, i)
    <3>1. PICK i \in DOMAIN sessions : BeginDeletion(h, i)
      BY <2>3
    <3> DEFINE r == [Idle EXCEPT !.op = "delete", !.user = sessions[i].user]
    <3>2. r.op = "delete"
      BY DEF Idle
    <3>3. handler' = [handler EXCEPT ![h] = r]
      BY <3>1 DEF BeginDeletion, Begin
    <3> HIDE DEF r
    <3>4. QED
      BY <3>2, <3>3
  <2>4. CASE \E i \in DOMAIN sessions, d \in Devices : BeginRegister(h, i, d)
    <3>1. PICK i \in DOMAIN sessions, d \in Devices : BeginRegister(h, i, d)
      BY <2>4
    <3> DEFINE r == [Idle EXCEPT !.op = "register", !.user = sessions[i].user, !.device = d]
    <3>2. r.op = "register"
      BY DEF Idle
    <3>3. handler' = [handler EXCEPT ![h] = r]
      BY <3>1 DEF BeginRegister, Begin
    <3> HIDE DEF r
    <3>4. QED
      BY <3>2, <3>3
  <2>5. CASE \E i \in DOMAIN sessions : BeginRefresh(h, i) \/ BeginLogout(h, i)
    BY <2>2, <2>5 DEF BeginRefresh, BeginLogout
  <2>6. QED
    BY <1>5, <2>1, <2>3, <2>4, <2>5 DEF Requests
<1>6. ASSUME NEW h \in Handlers, Commits(h)
      PROVE  \E r : handler' = [handler EXCEPT ![h] = r] /\ r.op # "push"
  <2>1. Idle.op # "push"
    BY DEF Idle
  <2>2. handler' = [handler EXCEPT ![h] = Idle]
    BY <1>6 DEF Commits, FinishLogin, FailLogin, FinishRefresh, FinishLogout, FinishRegister,
       FinishPushToken, FinishDeletion, Done
  <2>3. QED
    BY <2>1, <2>2
<1>7. QED
  BY <1>2, <1>3, <1>4, <1>5, <1>6 DEF Next, vars, Expire, DeletePushToken, DeleteAccount

LEMMA OwnerStep == OwnerInv /\ [Next]_vars => OwnerInv'
<1> SUFFICES ASSUME OwnerInv, [Next]_vars PROVE OwnerInv'
  OBVIOUS
<1>1. TypeOK /\ TypeOK'
  BY TypeStep DEF OwnerInv
<1>2. \A d \in Devices : devices[d] # None => devices'[d] = devices[d]
  BY <1>1, OwnerStays
<1>3. \A s \in Subjects : s # None
  BY IdentityAssumption
<1>4. \A h \in Handlers : handler[h].op = "push" =>
          handler[h].user \in Subjects /\ handler[h].device \in Devices
  BY <1>1 DEF TypeOK
<1>5. EndpointFollowsOwner'
  <2> SUFFICES ASSUME NEW s \in Subjects, NEW d \in Devices, endpoints'[<<s, d>>] # "none"
               PROVE  devices'[d] = s
    BY DEF EndpointFollowsOwner
  <2>1. devices[d] = s
    BY <1>1, EndpointsStep DEF OwnerInv, EndpointFollowsOwner, PushOwned
  <2>2. QED
    BY <1>2, <1>3, <2>1
<1>6. PushOwned'
  <2> SUFFICES ASSUME NEW k \in Handlers, handler'[k].op = "push"
               PROVE  devices'[handler'[k].device] = handler'[k].user
    BY DEF PushOwned
  <2>1. handler'[k].device \in Devices
    BY <1>1 DEF TypeOK
  <2>2. devices[handler'[k].device] = handler'[k].user /\ handler'[k].user \in Subjects
    BY <1>1, <1>4, PushRequestStep DEF OwnerInv, PushOwned
  <2>3. QED
    BY <1>2, <1>3, <2>1, <2>2
<1>7. QED
  BY <1>1, <1>5, <1>6 DEF OwnerInv

\* A push endpoint belongs to the account that owns its device, for any number of
\* accounts, devices and overlapping requests (_register_device_locked, upsert_push_token).
THEOREM EndpointsFollowOwners == Spec => []EndpointFollowsOwner
<1>1. Init => OwnerInv
  <2> SUFFICES ASSUME Init PROVE OwnerInv
    OBVIOUS
  <2>1. \A p \in Subjects \X Devices : endpoints[p] = "none"
    BY DEF Init
  <2>2. \A s \in Subjects, d \in Devices : <<s, d>> \in Subjects \X Devices
    OBVIOUS
  <2>3. Idle.op # "push"
    BY DEF Idle
  <2>4. PushOwned
    BY <2>3 DEF Init, PushOwned
  <2>5. QED
    BY <2>1, <2>2, <2>4, TypeInit DEF OwnerInv, EndpointFollowsOwner
<1>2. OwnerInv => EndpointFollowsOwner
  BY DEF OwnerInv
<1>3. QED
  BY <1>1, <1>2, OwnerStep, PTL DEF Spec

-----------------------------------------------------------------------------
(* Deletion *)

\* No step makes an account usable whose deletion was requested: a first login that was
\* under way finds the row and fails, the others never write ACTIVE.
LEMMA DeletionStep ==
    ASSUME TypeOK, [Next]_vars, NEW s \in Subjects, users[s] \in {"DELETING", "DELETED"}
    PROVE  users'[s] \in {"DELETING", "DELETED"}
<1>1. CASE \E h \in Handlers : FinishLogin(h)
  BY <1>1 DEF FinishLogin, UserAdded, TypeOK
<1>2. CASE \E h \in Handlers : FinishDeletion(h)
  BY <1>2 DEF FinishDeletion, TypeOK
<1>3. CASE \E u \in Subjects : DeleteAccount(u)
  BY <1>3 DEF DeleteAccount, ApplyAccountDeletion, TypeOK
<1>4. CASE UNCHANGED users
  BY <1>4
<1>5. QED
  BY <1>1, <1>2, <1>3, <1>4 DEF Next, vars, Requests, Commits, Begin, BeginLogin, BeginRefresh,
     BeginLogout, BeginRegister, BeginPushToken, BeginDeletion, FailLogin, FinishRefresh,
     FinishLogout, FinishRegister, FinishPushToken, Expire, DeletePushToken

\* A request to delete an account is never taken back, whatever logins, refreshes and
\* duplicates were under way (huawei_login, request_account_deletion).
THEOREM DeletionsAreFinal == Spec => DeletionIsFinal
<1>1. TypeOK /\ [Next]_vars =>
        [\A s \in Subjects :
            users[s] \in {"DELETING", "DELETED"} => users'[s] \in {"DELETING", "DELETED"}]_vars
  BY DeletionStep
<1>2. QED
  BY <1>1, IdentityTypeCorrect, PTL DEF Spec, DeletionIsFinal
=============================================================================
