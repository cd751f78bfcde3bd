------------------------ MODULE PersonalStateProofs ------------------------
(***************************************************************************)
(* The personal state proved correct for any tables, clients and requests:    *)
(* every version a row has gone through was recorded by exactly one mutation,  *)
(* and the deadline of a current thing is the value of one of its primary      *)
(* dates.                                                                    *)
(*                                                                           *)
(* Versions do the work of locks.  A write of an existing row goes through     *)
(* only if the row still has the version its transaction has read, so the next *)
(* version is one that no mutation has recorded.  A new row has an identifier   *)
(* that only the transactions of one idempotency key know, and only one of      *)
(* them can commit.  The deadline and the dates are in two tables; they stay     *)
(* together because whatever moves a date, or its primary mark, away from a       *)
(* thing writes the thing too, so that a transaction that has read both misses    *)
(* the version of the thing.                                                  *)
(***************************************************************************)
EXTENDS PersonalState, FiniteSetTheorems, TLAPS

-----------------------------------------------------------------------------
(* The inductive invariant *)

ThingOps == {"update_thing", "change_archive", "delete_thing", "merge_things",
             "add_relation", "set_deadline", "update_date", "set_thing_context",
             "create_blocker"}
TaskOps == {"create_task", "complete_task", "transition_task"}
BlockerOps == {"create_blocker", "resolve_blocker"}

\* The requests that the service makes transactions of.
RequestOk(r) ==
    /\ r.op \in ThingOps \cup TaskOps \cup BlockerOps \cup {"create_thing"}
    /\ r.thing \in Things \cup {None}
    /\ r.op \in ThingOps \cup {"create_thing"} => r.thing \in Things
    /\ r.op = "create_thing" => r.thing \notin Existing
    /\ r.op = "change_archive" => r.args[1] \in BOOLEAN
    /\ r.op \in {"merge_things", "add_relation"} => r.args[1] \in Things
    /\ r.op \in TaskOps => r.table = "task" /\ r.item \in Tasks
    /\ r.op = "create_task" => r.args[1] \in BOOLEAN
    /\ r.op = "transition_task" => r.args[1] \in {"TODO", "DONE", "CANCELLED"}
    /\ r.op \in {"set_deadline", "update_date"} => r.table = "date" /\ r.item \in Dates
    /\ r.op = "set_deadline" =>
        r.args[1] \in Kinds /\ r.args[2] \in Values /\ r.args[3] \in BOOLEAN
    /\ r.op = "update_date" => r.args[1] \in Values /\ r.args[2] \in BOOLEAN
    /\ r.op = "set_thing_context" => r.table = "entry" /\ r.item \in Entries
    /\ r.op \in BlockerOps => r.table = "blocker" /\ r.item \in Blockers
    /\ r.op = "create_blocker" => r.args[1] \in Tasks \cup {None}

\* The identifier of the row that a transaction adds.
NewId(tx) ==
    IF tx.req.op = "create_thing" THEN tx.req.thing
    ELSE IF \/ tx.req.op \in {"create_task", "set_deadline", "create_blocker"}
            \/ tx.req.op = "set_thing_context" /\ tx.row.version = 0
         THEN tx.req.item
    ELSE None

\* A row has moved on since it was read, or is still the row that was read.
Fresh(read, row) ==
    /\ read.version <= row.version
    /\ read.version = row.version => read = row

\* The identifier occurs in the log of mutations.
Used(log, id) == \E m \in log : \E s \in m.steps : s[1] = id

\* A date that has been read and has not got a new version since belongs to the thing that
\* was read with it, as long as that has not got a new version either; it may have lost the
\* primary mark but has not gained it.
DateRead(things, dates, log, tx) ==
    LET d == dates[tx.req.item]
        t == tx.req.thing
    IN /\ tx.row.version > 0
       /\ Used(log, tx.req.item)
       /\ d.version = 0 \/ tx.row.version <= d.version
       /\ d.version = tx.row.version =>
            /\ d.kind = tx.row.kind
            /\ d.primary => tx.row.primary
            /\ things[t].version = tx.seen.version => d.thing = t

\* A task that has been read and has not got a new version since has kept its status, which
\* is not DONE if the task is to move to DONE.
TaskRead(tasks, tx) ==
    LET k == tasks[tx.req.item]
    IN /\ tx.row.version <= k.version
       /\ k.version = tx.row.version => k.status = tx.row.status
       /\ tx.req.op = "transition_task" /\ tx.req.args[1] = "DONE" => tx.row.status # "DONE"

\* What an open transaction has read.
Sound(things, tasks, dates, log, tx) ==
    /\ RequestOk(tx.req)
    /\ tx.seen \in ThingRow
    /\ tx.req.thing # None => Fresh(tx.seen, things[tx.req.thing])
    /\ tx.req.op \in ThingOps => tx.seen.version > 0
    /\ tx.req.op \in TaskOps => tx.row \in TaskRow
    /\ tx.req.op \in {"set_deadline", "update_date"} => tx.row \in DateRow
    /\ tx.req.op = "set_thing_context" => tx.row \in EntryRow
    /\ tx.req.op \in BlockerOps => tx.row \in BlockerRow
    /\ tx.req.op \in {"complete_task", "transition_task", "resolve_blocker"} =>
        tx.row.version > 0
    /\ tx.req.op \in {"complete_task", "transition_task"} => TaskRead(tasks, tx)
    /\ tx.req.op = "update_date" => DateRead(things, dates, log, tx)

OpenInv == \A c \in Clients : at[c] # Idle => Sound(thing, task, date, audit, at[c])

\* The versions of all rows.
Versions == [id \in Ids |-> VersionOf(id)]

\* Until the key of a creation is recorded its row does not exist, and only transactions
\* under the same key can add it.
NotRecorded(key) == \A m \in audit : m.key # key

CreationInv ==
    \A c \in Clients :
        at[c] # Idle /\ NewId(at[c]) # None =>
            /\ NotRecorded(at[c].key) =>
                    ~Used(audit, NewId(at[c])) /\ Versions[NewId(at[c])] = 0
            /\ \A b \in Clients :
                    at[b] # Idle /\ NewId(at[b]) = NewId(at[c]) => at[b].key = at[c].key

FirstVersion(id) == IF id \in Existing THEN 2 ELSE 1

\* The log holds every version exactly once and no version to come.
AuditInv ==
    /\ \A m, n \in audit : \A s \in m.steps : s \in n.steps => m = n
    /\ \A id \in Ids : \A v \in FirstVersion(id)..Versions[id] :
            \E m \in audit : <<id, v>> \in m.steps
    /\ \A m \in audit : \A s \in m.steps :
            Versions[s[1]] = 0 \/ s[2] <= Versions[s[1]]

DatesInv ==
    /\ \A d \in Dates : date[d].version > 0 => date[d].thing \in Things
    /\ DeadlineHasDate

PersonalInv == TypeOK /\ OpenInv /\ CreationInv /\ AuditInv /\ DatesInv

-----------------------------------------------------------------------------
(* Versions *)

\* A row is in one table, and its version is the one there.
LEMMA VersionFacts ==
    /\ \A t \in Things : Versions[t] = thing[t].version /\ Versions'[t] = thing'[t].version
    /\ \A k \in Tasks : Versions[k] = task[k].version /\ Versions'[k] = task'[k].version
    /\ \A d \in Dates : Versions[d] = date[d].version /\ Versions'[d] = date'[d].version
    /\ \A e \in Entries : Versions[e] = entry[e].version /\ Versions'[e] = entry'[e].version
    /\ \A b \in Blockers :
            Versions[b] = blocker[b].version /\ Versions'[b] = blocker'[b].version
<1>1. ASSUME NEW t \in Things
      PROVE  Versions[t] = thing[t].version /\ Versions'[t] = thing'[t].version
  BY PersonalStateAssumption DEF Versions, VersionOf, Ids
<1>2. ASSUME NEW k \in Tasks
      PROVE  Versions[k] = task[k].version /\ Versions'[k] = task'[k].version
  BY PersonalStateAssumption DEF Versions, VersionOf, Ids
<1>3. ASSUME NEW d \in Dates
      PROVE  Versions[d] = date[d].version /\ Versions'[d] = date'[d].version
  BY PersonalStateAssumption DEF Versions, VersionOf, Ids
<1>4. ASSUME NEW e \in Entries
      PROVE  Versions[e] = entry[e].version /\ Versions'[e] = entry'[e].version
  BY PersonalStateAssumption DEF Versions, VersionOf, Ids
<1>5. ASSUME NEW b \in Blockers
      PROVE  Versions[b] = blocker[b].version /\ Versions'[b] = blocker'[b].version
  BY PersonalStateAssumption DEF Versions, VersionOf, Ids
<1>6. QED
  BY <1>1, <1>2, <1>3, <1>4, <1>5

LEMMA VersionsAreNumbers ==
    ASSUME TypeOK
    PROVE  \A id \in Ids : Versions[id] \in Nat
BY VersionFacts DEF TypeOK, Ids, ThingRow, TaskRow, DateRow, EntryRow, BlockerRow

\* While no table changes, no version does.
LEMMA VersionsKept ==
    ASSUME UNCHANGED tables
    PROVE  Versions' = Versions
BY DEF Versions, VersionOf, tables

\* A row that exists, or once existed, has been recorded unless it was there at the start.
LEMMA VersionsAreUsed ==
    ASSUME PersonalInv, NEW id \in Ids, id \notin Existing, ~Used(audit, id)
    PROVE  Versions[id] = 0
<1>1. Versions[id] \in Nat
  BY VersionsAreNumbers DEF PersonalInv
<1>2. ASSUME Versions[id] # 0 PROVE FALSE
  <2>1. 1 \in FirstVersion(id)..Versions[id]
    BY <1>1, <1>2 DEF FirstVersion
  <2>2. PICK m \in audit : <<id, 1>> \in m.steps
    BY <2>1 DEF PersonalInv, AuditInv
  <2>3. QED
    BY <2>2 DEF Used
<1>3. QED
  BY <1>2

-----------------------------------------------------------------------------
(* What other transactions do to the rows an open one has read *)

ThingMoved(old, new) == new = old \/ new.version = old.version + 1

\* A task gets a new version or keeps its status.
TaskMoved(old, new) ==
    \/ new.version = old.version + 1
    \/ new.version = old.version /\ new.status = old.status

\* A date gets a new version, goes, or stays what it is but for the primary mark and, when
\* its thing is written too, for the thing.
DateMoved(things, newThings, old, new, used) ==
    \/ new.version = 0
    \/ new.version > old.version /\ (old.version > 0 \/ ~used)
    \/ /\ new.version = old.version /\ new.kind = old.kind
       /\ new.primary => old.primary
       /\ \/ new.thing = old.thing
          \/ /\ old.thing \in Things
             /\ newThings[old.thing].version > things[old.thing].version

\* So what has been read stays sound.
LEMMA FreshKept ==
    ASSUME NEW read \in ThingRow, NEW old \in ThingRow, NEW new \in ThingRow,
           Fresh(read, old), ThingMoved(old, new)
    PROVE  Fresh(read, new) /\ (new.version = read.version => old.version = read.version)
<1>1. read.version \in Nat /\ old.version \in Nat /\ new.version \in Nat
  BY DEF ThingRow
<1>2. CASE new = old
  BY <1>2
<1>3. CASE new.version = old.version + 1
  BY <1>1, <1>3 DEF Fresh
<1>4. QED
  BY <1>2, <1>3 DEF ThingMoved

LEMMA SoundKept ==
    ASSUME NEW things \in [Things -> ThingRow], NEW newThings \in [Things -> ThingRow],
           NEW tasks \in [Tasks -> TaskRow], NEW newTasks \in [Tasks -> TaskRow],
           NEW dates \in [Dates -> DateRow], NEW newDates \in [Dates -> DateRow],
           NEW log, NEW newLog, log \subseteq newLog,
           \A t \in Things : ThingMoved(things[t], newThings[t]),
           \A k \in Tasks : TaskMoved(tasks[k], newTasks[k]),
           \A d \in Dates : DateMoved(things, newThings, dates[d], newDates[d], Used(log, d)),
           NEW tx, Sound(things, tasks, dates, log, tx)
    PROVE  Sound(newThings, newTasks, newDates, newLog, tx)
<1> DEFINE t == tx.req.thing
           d == tx.req.item
<1>1. RequestOk(tx.req) /\ tx.seen \in ThingRow /\ (t # None => t \in Things)
  BY DEF Sound, RequestOk
<1>2. ASSUME t # None
      PROVE  /\ Fresh(tx.seen, newThings[t])
             /\ newThings[t].version = tx.seen.version => things[t].version = tx.seen.version
  <2>1. Fresh(tx.seen, things[t])
    BY <1>2 DEF Sound
  <2>2. things[t] \in ThingRow /\ newThings[t] \in ThingRow /\ ThingMoved(things[t], newThings[t])
    BY <1>1, <1>2
  <2>3. QED
    BY <1>1, <2>1, <2>2, FreshKept
<1>3. ASSUME tx.req.op = "update_date"
      PROVE  DateRead(newThings, newDates, newLog, tx)
  <2>1. t \in Things /\ d \in Dates /\ tx.row \in DateRow
    BY <1>1, <1>3 DEF RequestOk, ThingOps, Sound
  <2>2. DateRead(things, dates, log, tx)
    BY <1>3 DEF Sound
  <2>3. Used(log, d) /\ Used(newLog, d) /\ tx.row.version > 0
    BY <2>2 DEF DateRead, Used
  <2>4. DateMoved(things, newThings, dates[d], newDates[d], TRUE)
    BY <2>1, <2>3
  <2>5. /\ dates[d].version \in Nat /\ newDates[d].version \in Nat /\ tx.row.version \in Nat
        /\ things[t].version \in Nat /\ newThings[t].version \in Nat
    BY <2>1 DEF DateRow, ThingRow
  <2>6. dates[d].version = 0 \/ tx.row.version <= dates[d].version
    BY <2>2 DEF DateRead
  <2>7. newDates[d].version = 0 \/ tx.row.version <= newDates[d].version
    BY <2>4, <2>5, <2>6 DEF DateMoved
  <2>8. ASSUME newDates[d].version = tx.row.version
        PROVE  /\ newDates[d].kind = tx.row.kind
               /\ newDates[d].primary => tx.row.primary
               /\ newThings[t].version = tx.seen.version => newDates[d].thing = t
    <3>1. /\ newDates[d].version = dates[d].version /\ newDates[d].kind = dates[d].kind
          /\ newDates[d].primary => dates[d].primary
          /\ \/ newDates[d].thing = dates[d].thing
             \/ /\ dates[d].thing \in Things
                /\ newThings[dates[d].thing].version > things[dates[d].thing].version
      BY <2>3, <2>4, <2>5, <2>6, <2>8 DEF DateMoved
    <3>2. /\ dates[d].kind = tx.row.kind
          /\ dates[d].primary => tx.row.primary
          /\ things[t].version = tx.seen.version => dates[d].thing = t
      BY <2>2, <2>8, <3>1 DEF DateRead
    <3>3. ASSUME newThings[t].version = tx.seen.version
          PROVE  newDates[d].thing = t
      <4>1. things[t].version = tx.seen.version
        BY <1>2, <2>1, <3>3, PersonalStateAssumption
      <4>2. QED
        BY <2>5, <3>1, <3>2, <3>3, <4>1
    <3>4. QED
      BY <3>1, <3>2, <3>3
  <2>9. QED
    BY <2>3, <2>7, <2>8 DEF DateRead
<1>4. ASSUME tx.req.op \in {"complete_task", "transition_task"}
      PROVE  TaskRead(newTasks, tx)
  <2>1. d \in Tasks /\ tx.row \in TaskRow /\ TaskRead(tasks, tx)
    BY <1>1, <1>4 DEF RequestOk, TaskOps, Sound
  <2>2. /\ TaskMoved(tasks[d], newTasks[d])
        /\ tasks[d].version \in Nat /\ newTasks[d].version \in Nat /\ tx.row.version \in Nat
    BY <2>1 DEF TaskRow
  <2>3. QED
    BY <2>1, <2>2 DEF TaskRead, TaskMoved
<1>5. QED
  BY <1>2, <1>3, <1>4 DEF Sound

-----------------------------------------------------------------------------
(* Opening and rolling back *)

\* A transaction is opened: the tables and the log stay as they are.
LEMMA OpenStep ==
    ASSUME PersonalInv, UNCHANGED <<tables, audit>>,
           issued' \in 0..MaxRequests, issued <= issued',
           NEW c \in Clients, NEW mine, mine # Idle, at' = [at EXCEPT ![c] = mine],
           mine.key \in 1..issued',
           Sound(thing, task, date, audit, mine),
           NewId(mine) # None =>
               /\ NotRecorded(mine.key) => ~Used(audit, NewId(mine)) /\ Versions[NewId(mine)] = 0
               /\ \A b \in Clients :
                    b # c /\ at[b] # Idle /\ NewId(at[b]) = NewId(mine) => at[b].key = mine.key
    PROVE  PersonalInv'
<1>1. /\ TypeOK /\ OpenInv /\ CreationInv /\ AuditInv /\ DatesInv
      /\ DOMAIN at = Clients /\ issued \in 0..MaxRequests
  BY DEF PersonalInv, TypeOK
<1>2. /\ thing' = thing /\ task' = task /\ date' = date /\ entry' = entry
      /\ blocker' = blocker /\ relations' = relations /\ audit' = audit
      /\ Versions' = Versions
  BY VersionsKept DEF tables
<1>3. at'[c] = mine /\ DOMAIN at' = Clients /\ \A b \in Clients : b # c => at'[b] = at[b]
  BY <1>1
<1>4. TypeOK'
  <2>1. issued \in Nat /\ issued' \in Nat
    BY <1>1, PersonalStateAssumption
  <2>2. \A b \in Clients : at'[b] # Idle => at'[b].key \in 1..issued'
    BY <1>1, <1>3, <2>1 DEF TypeOK
  <2>3. QED
    BY <1>1, <1>2, <1>3, <2>2 DEF TypeOK
<1>5. OpenInv'
  BY <1>1, <1>2, <1>3 DEF OpenInv
<1>6. CreationInv'
  <2>1. ASSUME NEW b \in Clients, at'[b] # Idle, NewId(at'[b]) # None
        PROVE  NotRecorded(at'[b].key) => ~Used(audit, NewId(at'[b]))
                                          /\ Versions[NewId(at'[b])] = 0
    BY <1>1, <1>3, <2>1 DEF CreationInv
  <2>2. ASSUME NEW a \in Clients, at'[a] # Idle, NewId(at'[a]) # None,
               NEW b \in Clients, at'[b] # Idle, NewId(at'[b]) = NewId(at'[a])
        PROVE  at'[b].key = at'[a].key
    <3>1. CASE a = c \/ b = c
      BY <1>3, <2>2, <3>1
    <3>2. CASE a # c /\ b # c
      BY <1>1, <1>3, <2>2, <3>2 DEF CreationInv
    <3>3. QED
      BY <3>1, <3>2
  <2>3. QED
    BY <1>2, <2>1, <2>2 DEF CreationInv, NotRecorded
<1>7. AuditInv'
  BY <1>1, <1>2 DEF AuditInv
<1>8. DatesInv'
  BY <1>1, <1>2 DEF DatesInv, DeadlineHasDate, Found
<1>9. QED
  BY <1>4, <1>5, <1>6, <1>7, <1>8 DEF PersonalInv

\* What a request has loaded.
LEMMA OpenedFacts ==
    ASSUME NEW key, NEW r
    PROVE  /\ Opened(key, r).key = key /\ Opened(key, r).req = r
           /\ Opened(key, r).seen = (IF r.thing = None THEN NoThing ELSE thing[r.thing])
           /\ Opened(key, r).row = RowOf(r.table, r.item)
           /\ Opened(key, r) # Idle
<1>1. Opened(key, r).pc = "open" /\ Idle.pc = "idle"
  BY DEF Opened, Idle
<1>2. QED
  BY <1>1 DEF Opened

\* The rows that a request loads are of the tables it names.
LEMMA LoadedFacts ==
    ASSUME TypeOK, NEW key, NEW r, RequestOk(r)
    PROVE  LET tx == Opened(key, r)
           IN  /\ tx.seen \in ThingRow
               /\ r.thing # None => tx.seen = thing[r.thing] /\ Fresh(tx.seen, thing[r.thing])
               /\ r.op \in TaskOps => tx.row \in TaskRow /\ tx.row = task[r.item]
               /\ r.op \in {"set_deadline", "update_date"} =>
                    tx.row \in DateRow /\ tx.row = date[r.item]
               /\ r.op = "set_thing_context" => tx.row \in EntryRow /\ tx.row = entry[r.item]
               /\ r.op \in BlockerOps => tx.row \in BlockerRow /\ tx.row = blocker[r.item]
<1> DEFINE tx == Opened(key, r)
<1>1. /\ tx.seen = (IF r.thing = None THEN NoThing ELSE thing[r.thing])
      /\ tx.row = RowOf(r.table, r.item)
  BY OpenedFacts
<1> HIDE DEF tx
<1>2. NoThing \in ThingRow
  BY DEF NoThing, NewThing, ThingRow
<1>3. /\ tx.seen \in ThingRow
      /\ r.thing # None => tx.seen = thing[r.thing] /\ Fresh(tx.seen, thing[r.thing])
  BY <1>1, <1>2 DEF TypeOK, RequestOk, Fresh, ThingRow
<1>4. r.op \in TaskOps => tx.row \in TaskRow /\ tx.row = task[r.item]
  BY <1>1 DEF TypeOK, RequestOk, RowOf
<1>5. r.op \in {"set_deadline", "update_date"} => tx.row \in DateRow /\ tx.row = date[r.item]
  BY <1>1 DEF TypeOK, RequestOk, RowOf
<1>6. r.op = "set_thing_context" => tx.row \in EntryRow /\ tx.row = entry[r.item]
  BY <1>1 DEF TypeOK, RequestOk, RowOf
<1>7. r.op \in BlockerOps => tx.row \in BlockerRow /\ tx.row = blocker[r.item]
  BY <1>1 DEF TypeOK, RequestOk, RowOf
<1>8. QED
  BY <1>3, <1>4, <1>5, <1>6, <1>7 DEF tx

\* An identifier that no row has had.
LEMMA UnusedFacts ==
    ASSUME PersonalInv, NEW id \in Ids \ Existing, Unused(id)
    PROVE  /\ ~Used(audit, id) /\ Versions[id] = 0
           /\ \A b \in Clients : at[b] # Idle /\ NewId(at[b]) # None => NewId(at[b]) # id
<1>1. ~Used(audit, id)
  BY DEF Unused, Used
<1>2. QED
  BY <1>1, VersionsAreUsed DEF Unused, NewId

\* A request under a new key.
LEMMA AskInv ==
    ASSUME PersonalInv, NEW c \in Clients, NEW r, Ask(c, r), RequestOk(r),
           r.op \in ThingOps => Found(r.thing),
           r.op \in {"complete_task", "transition_task"} => task[r.item].version > 0,
           r.op = "transition_task" /\ r.args[1] = "DONE" => task[r.item].status # "DONE",
           r.op = "resolve_blocker" => blocker[r.item].version > 0,
           r.op = "update_date" => date[r.item].version > 0 /\ date[r.item].thing = r.thing,
           NewId(Opened(issued + 1, r)) # None => Unused(NewId(Opened(issued + 1, r)))
    PROVE  PersonalInv'
<1> DEFINE mine == Opened(issued + 1, r)
<1>1. /\ TypeOK /\ issued < MaxRequests /\ issued' = issued + 1
      /\ at' = [at EXCEPT ![c] = mine] /\ UNCHANGED <<tables, audit>>
  BY DEF PersonalInv, Ask
<1>2. issued' \in 0..MaxRequests /\ issued <= issued' /\ issued + 1 \in 1..issued'
  BY <1>1, PersonalStateAssumption DEF TypeOK
<1>3. /\ mine.key = issued + 1 /\ mine.req = r /\ mine # Idle
      /\ mine.seen = (IF r.thing = None THEN NoThing ELSE thing[r.thing])
  BY OpenedFacts
<1>4. /\ mine.seen \in ThingRow
      /\ r.thing # None => mine.seen = thing[r.thing] /\ Fresh(mine.seen, thing[r.thing])
      /\ r.op \in TaskOps => mine.row \in TaskRow /\ mine.row = task[r.item]
      /\ r.op \in {"set_deadline", "update_date"} => mine.row \in DateRow /\ mine.row = date[r.item]
      /\ r.op = "set_thing_context" => mine.row \in EntryRow /\ mine.row = entry[r.item]
      /\ r.op \in BlockerOps => mine.row \in BlockerRow /\ mine.row = blocker[r.item]
  BY <1>1, LoadedFacts
<1> HIDE DEF mine
<1>5. r.op \in ThingOps => mine.seen.version > 0
  BY <1>4, PersonalStateAssumption DEF RequestOk, Found
<1>6. r.op = "update_date" => DateRead(thing, date, audit, mine)
  <2> SUFFICES ASSUME r.op = "update_date" PROVE DateRead(thing, date, audit, mine)
    OBVIOUS
  <2>1. r.item \in Dates /\ r.item \in Ids /\ r.item \notin Existing
    BY PersonalStateAssumption DEF RequestOk, Ids
  <2>2. Versions[r.item] = date[r.item].version /\ mine.row = date[r.item]
    BY <1>4, <2>1, VersionFacts
  <2>3. Used(audit, r.item)
    BY <2>1, <2>2, VersionsAreUsed
  <2>4. mine.row.version <= date[r.item].version
    BY <1>4, <2>2 DEF DateRow
  <2>5. QED
    BY <1>3, <2>2, <2>3, <2>4 DEF DateRead
<1>7. r.op \in {"complete_task", "transition_task"} => TaskRead(task, mine)
  BY <1>3, <1>4 DEF TaskRead, TaskOps, TaskRow
<1>8. Sound(thing, task, date, audit, mine)
  BY <1>3, <1>4, <1>5, <1>6, <1>7 DEF Sound, TaskOps, BlockerOps
<1>9. ASSUME NewId(mine) # None
      PROVE  /\ ~Used(audit, NewId(mine)) /\ Versions[NewId(mine)] = 0
             /\ \A b \in Clients : at[b] # Idle => NewId(at[b]) # NewId(mine)
  <2>1. NewId(mine) \in Ids \ Existing
    BY <1>3, <1>9, PersonalStateAssumption
    DEF NewId, RequestOk, TaskOps, BlockerOps, ThingOps, Ids
  <2>2. QED
    BY <1>9, <2>1, UnusedFacts DEF mine
<1>10. QED
  BY <1>1, <1>2, <1>3, <1>8, <1>9, OpenStep

\* The same request while the first is under way.
LEMMA AskAgainInv ==
    ASSUME PersonalInv, NEW c \in Clients, NEW b \in Clients, AskAgain(c, b)
    PROVE  PersonalInv'
<1> DEFINE mine == Opened(at[b].key, at[b].req)
           r == at[b].req
<1>1. /\ TypeOK /\ OpenInv /\ CreationInv /\ at[b] # Idle /\ at[c] = Idle
      /\ Sound(thing, task, date, audit, at[b]) /\ at[b].key \in 1..issued
      /\ issued \in 0..MaxRequests
  BY DEF PersonalInv, AskAgain, OpenInv, TypeOK
<1>2. /\ mine.seen.version = at[b].seen.version /\ mine.row.version = at[b].row.version
      /\ at' = [at EXCEPT ![c] = mine] /\ UNCHANGED <<tables, audit, issued>>
  BY DEF AskAgain
<1>3. /\ mine.key = at[b].key /\ mine.req = r /\ mine # Idle /\ RequestOk(r)
  BY <1>1, OpenedFacts DEF Sound
<1>4. /\ mine.seen \in ThingRow
      /\ r.thing # None => mine.seen = thing[r.thing] /\ Fresh(mine.seen, thing[r.thing])
      /\ r.op \in TaskOps => mine.row \in TaskRow /\ mine.row = task[r.item]
      /\ r.op \in {"set_deadline", "update_date"} => mine.row \in DateRow /\ mine.row = date[r.item]
      /\ r.op = "set_thing_context" => mine.row \in EntryRow /\ mine.row = entry[r.item]
      /\ r.op \in BlockerOps => mine.row \in BlockerRow /\ mine.row = blocker[r.item]
  BY <1>1, <1>3, LoadedFacts
<1> HIDE DEF mine
<1>5. r.op = "update_date" => DateRead(thing, date, audit, mine)
  <2> SUFFICES ASSUME r.op = "update_date" PROVE DateRead(thing, date, audit, mine)
    OBVIOUS
  <2>1. DateRead(thing, date, audit, at[b])
    BY <1>1 DEF Sound
  <2>2. r.thing \in Things /\ mine.seen = thing[r.thing] /\ mine.row = date[r.item]
    BY <1>3, <1>4, PersonalStateAssumption DEF RequestOk, ThingOps
  <2>3. mine.row.version <= date[r.item].version
    BY <1>4, <2>2 DEF DateRow
  <2>4. date[r.item].thing = r.thing
    BY <1>2, <2>1, <2>2 DEF DateRead
  <2>5. QED
    BY <1>2, <1>3, <2>1, <2>2, <2>3, <2>4 DEF DateRead
<1>6. r.op \in {"complete_task", "transition_task"} => TaskRead(task, mine)
  <2>1. r.op \in {"complete_task", "transition_task"} => TaskRead(task, at[b])
    BY <1>1 DEF Sound
  <2>2. QED
    BY <1>2, <1>3, <1>4, <2>1 DEF TaskRead, TaskOps, TaskRow
<1>7. Sound(thing, task, date, audit, mine)
  BY <1>1, <1>2, <1>3, <1>4, <1>5, <1>6 DEF Sound
<1>8. NewId(mine) = NewId(at[b])
  BY <1>2, <1>3 DEF NewId
<1>9. NewId(mine) # None =>
        /\ NotRecorded(mine.key) => ~Used(audit, NewId(mine)) /\ Versions[NewId(mine)] = 0
        /\ \A a \in Clients :
             a # c /\ at[a] # Idle /\ NewId(at[a]) = NewId(mine) => at[a].key = mine.key
  BY <1>1, <1>3, <1>8 DEF CreationInv
<1>10. issued' \in 0..MaxRequests /\ issued <= issued' /\ mine.key \in 1..issued'
  BY <1>1, <1>2, <1>3, PersonalStateAssumption
<1>11. QED
  BY <1>2, <1>3, <1>7, <1>9, <1>10, OpenStep

LEMMA RollbackInv ==
    ASSUME PersonalInv, NEW c \in Clients, Rollback(c)
    PROVE  PersonalInv'
<1>1. /\ TypeOK /\ OpenInv /\ CreationInv /\ AuditInv /\ DatesInv
      /\ DOMAIN at = Clients
  BY DEF PersonalInv, TypeOK
<1>2. /\ thing' = thing /\ task' = task /\ date' = date /\ entry' = entry
      /\ blocker' = blocker /\ relations' = relations /\ audit' = audit /\ issued' = issued
      /\ Versions' = Versions
  BY VersionsKept DEF Rollback, tables
<1>3. at'[c] = Idle /\ DOMAIN at' = Clients /\ \A b \in Clients : b # c => at'[b] = at[b]
  BY <1>1 DEF Rollback
<1>4. TypeOK'
  BY <1>1, <1>2, <1>3 DEF TypeOK
<1>5. OpenInv'
  BY <1>1, <1>2, <1>3 DEF OpenInv
<1>6. CreationInv'
  BY <1>1, <1>2, <1>3 DEF CreationInv, NotRecorded
<1>7. AuditInv'
  BY <1>1, <1>2 DEF AuditInv
<1>8. DatesInv'
  BY <1>1, <1>2 DEF DatesInv, DeadlineHasDate, Found
<1>9. QED
  BY <1>4, <1>5, <1>6, <1>7, <1>8 DEF PersonalInv

-----------------------------------------------------------------------------
(* Committing *)

\* The steps a mutation records: the next version of a row that exists, or the first of the
\* row that its transaction adds.
StepsOk(c, steps) ==
    \A s \in steps :
        /\ s \in Ids \X Nat
        /\ s[2] = Versions[s[1]] + 1
        /\ Versions[s[1]] = 0 => s[1] = NewId(at[c])

\* The log stays exact.
LEMMA AuditKept ==
    ASSUME PersonalInv, NEW c \in Clients, at[c] # Idle, NEW steps,
           Commit(c, steps), StepsOk(c, steps),
           \A s \in steps : Versions'[s[1]] = s[2],
           \A id \in Ids : \/ Versions'[id] = Versions[id] \/ Versions'[id] = 0
                           \/ \E s \in steps : s = <<id, Versions'[id]>>
    PROVE  AuditInv'
<1> DEFINE new == [key |-> at[c].key, steps |-> steps]
<1>1. /\ audit' = audit \cup {new} /\ NotRecorded(at[c].key)
      /\ TypeOK /\ AuditInv /\ CreationInv
  BY DEF Commit, NotRecorded, PersonalInv
<1>2. new.steps = steps
  OBVIOUS
<1> HIDE DEF new
<1>3. \A id \in Ids : Versions[id] \in Nat
  BY <1>1, VersionsAreNumbers
<1>4. \A m \in audit : \A s \in m.steps : s[1] \in Ids /\ s[2] \in Nat
  BY <1>1 DEF TypeOK, MutationRow
<1>5. ASSUME NEW m \in audit, NEW s \in m.steps
      PROVE  s \notin steps /\ \A t \in steps : t[1] = s[1] => Versions[s[1]] # 0
  <2>1. ASSUME NEW t \in steps, t[1] = s[1], Versions[s[1]] = 0 PROVE FALSE
    <3>1. NewId(at[c]) = s[1] /\ s[1] \in Ids
      BY <1>4, <2>1 DEF StepsOk
    <3>2. NewId(at[c]) # None
      BY <3>1, PersonalStateAssumption DEF Ids
    <3>3. ~Used(audit, s[1])
      BY <1>1, <3>1, <3>2 DEF CreationInv
    <3>4. QED
      BY <3>3 DEF Used
  <2>2. ASSUME s \in steps PROVE FALSE
    <3>1. s[2] = Versions[s[1]] + 1 /\ Versions[s[1]] # 0
      BY <2>1, <2>2 DEF StepsOk
    <3>2. s[2] <= Versions[s[1]]
      BY <1>1, <3>1 DEF AuditInv
    <3>3. QED
      BY <1>3, <1>4, <3>1, <3>2
  <2>3. QED
    BY <2>1, <2>2
<1>6. ASSUME NEW m \in audit', NEW n \in audit', NEW s \in m.steps, s \in n.steps
      PROVE  m = n
  <2>1. CASE m \in audit /\ n \in audit
    BY <1>1, <1>6, <2>1 DEF AuditInv
  <2>2. CASE m = new \/ n = new
    BY <1>1, <1>2, <1>5, <1>6, <2>2
  <2>3. QED
    BY <1>1, <2>1, <2>2
<1>7. ASSUME NEW id \in Ids, NEW v \in FirstVersion(id)..Versions'[id]
      PROVE  \E m \in audit' : <<id, v>> \in m.steps
  <2>1. CASE v \in FirstVersion(id)..Versions[id]
    BY <1>1, <2>1 DEF AuditInv
  <2>2. CASE v \notin FirstVersion(id)..Versions[id]
    <3>1. FirstVersion(id) \in Nat /\ FirstVersion(id) > 0
      BY DEF FirstVersion
    <3>2. Versions'[id] # Versions[id] /\ Versions'[id] # 0
      BY <1>7, <2>2, <3>1
    <3>3. <<id, Versions'[id]>> \in steps
      BY <3>2
    <3>4. Versions'[id] = Versions[id] + 1
      BY <3>3 DEF StepsOk
    <3>5. v = Versions'[id]
      BY <1>3, <1>7, <2>2, <3>1, <3>4
    <3>6. QED
      BY <1>1, <1>2, <3>3, <3>5
  <2>3. QED
    BY <2>1, <2>2
<1>8. ASSUME NEW m \in audit', NEW s \in m.steps
      PROVE  Versions'[s[1]] = 0 \/ s[2] <= Versions'[s[1]]
  <2>1. CASE m \in audit
    <3>1. /\ Versions[s[1]] = 0 \/ s[2] <= Versions[s[1]]
          /\ s[1] \in Ids /\ s[2] \in Nat /\ Versions[s[1]] \in Nat
      BY <1>1, <1>3, <1>4, <2>1 DEF AuditInv
    <3>2. CASE Versions'[s[1]] = Versions[s[1]] \/ Versions'[s[1]] = 0
      BY <3>1, <3>2
    <3>3. CASE <<s[1], Versions'[s[1]]>> \in steps
      <4>1. Versions'[s[1]] = Versions[s[1]] + 1
        BY <3>3 DEF StepsOk
      <4>2. Versions[s[1]] # 0
        BY <1>5, <2>1, <3>3
      <4>3. QED
        BY <3>1, <4>1, <4>2
    <3>4. QED
      BY <3>1, <3>2, <3>3
  <2>2. CASE m = new
    <3>1. s \in steps
      BY <1>2, <2>2
    <3>2. Versions'[s[1]] = s[2] /\ s[2] = Versions[s[1]] + 1 /\ Versions[s[1]] \in Nat
      BY <1>3, <3>1 DEF StepsOk
    <3>3. QED
      BY <3>2
  <2>3. QED
    BY <1>1, <2>1, <2>2
<1>9. QED
  BY <1>6, <1>7, <1>8 DEF AuditInv

\* The identifier of a creation that is still open stays unused.
LEMMA CreationKept ==
    ASSUME PersonalInv, NEW c \in Clients, at[c] # Idle, NEW steps,
           Commit(c, steps), StepsOk(c, steps),
           \A id \in Ids : \/ Versions'[id] = Versions[id] \/ Versions'[id] = 0
                           \/ \E s \in steps : s = <<id, Versions'[id]>>
    PROVE  CreationInv'
<1> DEFINE new == [key |-> at[c].key, steps |-> steps]
<1>1. /\ audit' = audit \cup {new} /\ at' = [at EXCEPT ![c] = Idle]
      /\ TypeOK /\ CreationInv /\ OpenInv /\ DOMAIN at = Clients
  BY DEF Commit, PersonalInv, TypeOK
<1>2. new.steps = steps /\ new.key = at[c].key
  OBVIOUS
<1> HIDE DEF new
<1>3. at'[c] = Idle /\ \A b \in Clients : b # c => at'[b] = at[b]
  BY <1>1
<1>4. ASSUME NEW b \in Clients, at'[b] # Idle, NewId(at'[b]) # None,
             \A m \in audit' : m.key # at'[b].key
      PROVE  ~Used(audit', NewId(at'[b])) /\ Versions'[NewId(at'[b])] = 0
  <2> DEFINE x == NewId(at[b])
  <2>1. b # c /\ at'[b] = at[b] /\ at[b] # Idle
    BY <1>3, <1>4
  <2>2. NotRecorded(at[b].key) /\ at[b].key # at[c].key
    BY <1>1, <1>2, <1>4, <2>1 DEF NotRecorded
  <2>3. x # None
    BY <1>4, <2>1
  <2>4. ~Used(audit, x) /\ Versions[x] = 0
    BY <1>1, <2>1, <2>2, <2>3 DEF CreationInv
  <2>5. x \in Ids
    <3>1. RequestOk(at[b].req)
      BY <1>1, <2>1 DEF OpenInv, Sound
    <3>2. QED
      BY <2>3, <3>1 DEF NewId, RequestOk, TaskOps, BlockerOps, ThingOps, Ids
  <2>6. NewId(at[c]) # x
    BY <1>1, <2>1, <2>2, <2>3 DEF CreationInv
  <2> HIDE DEF x
  <2>7. \A s \in steps : s[1] # x
    BY <2>4, <2>6 DEF StepsOk
  <2>8. ~Used(audit', x)
    BY <1>1, <1>2, <2>4, <2>7 DEF Used
  <2>9. Versions'[x] = 0
    <3>1. ASSUME <<x, Versions'[x]>> \in steps PROVE FALSE
      BY <2>7, <3>1
    <3>2. QED
      BY <2>4, <2>5, <3>1
  <2>10. QED
    BY <2>1, <2>8, <2>9 DEF x
<1>5. ASSUME NEW a \in Clients, at'[a] # Idle, NewId(at'[a]) # None,
             NEW b \in Clients, at'[b] # Idle, NewId(at'[b]) = NewId(at'[a])
      PROVE  at'[b].key = at'[a].key
  <2>1. at'[a] = at[a] /\ at'[b] = at[b]
    BY <1>3, <1>5
  <2>2. QED
    BY <1>1, <1>5, <2>1 DEF CreationInv
<1>6. QED
  BY <1>4, <1>5 DEF CreationInv, NotRecorded

\* A transaction commits.  What remains to be shown of an operation is what it does to the
\* things, to the dates and to the versions, and that the deadlines keep their dates.
LEMMA CommitStep ==
    ASSUME PersonalInv, NEW c \in Clients, at[c] # Idle, NEW steps,
           Commit(c, steps), StepsOk(c, steps),
           \A s \in steps : Versions'[s[1]] = s[2],
           \A id \in Ids : \/ Versions'[id] = Versions[id] \/ Versions'[id] = 0
                           \/ \E s \in steps : s = <<id, Versions'[id]>>,
           thing' \in [Things -> ThingRow], task' \in [Tasks -> TaskRow],
           date' \in [Dates -> DateRow], entry' \in [Entries -> EntryRow],
           blocker' \in [Blockers -> BlockerRow], relations' \subseteq Things \X Things,
           \A t \in Things : ThingMoved(thing[t], thing'[t]),
           \A k \in Tasks : TaskMoved(task[k], task'[k]),
           \A d \in Dates : DateMoved(thing, thing', date[d], date'[d], Used(audit, d)),
           DatesInv'
    PROVE  PersonalInv'
<1> DEFINE new == [key |-> at[c].key, steps |-> steps]
<1>1. /\ audit' = audit \cup {new} /\ at' = [at EXCEPT ![c] = Idle] /\ issued' = issued
      /\ TypeOK /\ OpenInv /\ DOMAIN at = Clients /\ at[c].key \in 1..issued
      /\ issued \in 0..MaxRequests
  BY DEF Commit, PersonalInv, TypeOK
<1>2. at'[c] = Idle /\ DOMAIN at' = Clients /\ \A b \in Clients : b # c => at'[b] = at[b]
  BY <1>1
<1>3. new \in MutationRow
  <2>1. at[c].key \in Keys
    BY <1>1, PersonalStateAssumption DEF Keys
  <2>2. steps \subseteq Ids \X Nat
    BY DEF StepsOk
  <2>3. QED
    BY <2>1, <2>2 DEF MutationRow
<1> HIDE DEF new
<1>4. TypeOK'
  BY <1>1, <1>2, <1>3 DEF TypeOK
<1>5. OpenInv'
  <2>1. ASSUME NEW b \in Clients, at'[b] # Idle
        PROVE  Sound(thing', task', date', audit', at'[b])
    <3>1. at'[b] = at[b] /\ at[b] # Idle
      BY <1>2, <2>1
    <3>2. Sound(thing, task, date, audit, at[b])
      BY <1>1, <3>1 DEF OpenInv
    <3>3. audit \subseteq audit'
      BY <1>1
    <3>4. /\ thing \in [Things -> ThingRow] /\ task \in [Tasks -> TaskRow]
          /\ date \in [Dates -> DateRow]
      BY <1>1 DEF TypeOK
    <3>5. Sound(thing', task', date', audit', at[b])
      BY <3>2, <3>3, <3>4, SoundKept
    <3>6. QED
      BY <3>1, <3>5
  <2>2. QED
    BY <2>1 DEF OpenInv
<1>6. QED
  BY <1>4, <1>5, AuditKept, CreationKept DEF PersonalInv

-----------------------------------------------------------------------------
(* Operations on one row *)

\* What is known of an open transaction.
LEMMA OpenFacts ==
    ASSUME PersonalInv, NEW c \in Clients, at[c] # Idle
    PROVE  /\ TypeOK /\ DatesInv
           /\ Sound(thing, task, date, audit, at[c]) /\ RequestOk(at[c].req)
           /\ at[c].seen \in ThingRow
BY DEF PersonalInv, OpenInv, Sound

\* The row that a committing transaction adds does not exist.
LEMMA AddedFacts ==
    ASSUME PersonalInv, NEW c \in Clients, at[c] # Idle, NEW steps, Commit(c, steps),
           NewId(at[c]) # None
    PROVE  Versions[NewId(at[c])] = 0 /\ ~Used(audit, NewId(at[c]))
BY DEF Commit, PersonalInv, CreationInv, NotRecorded

\* A row that is written under the version of its thing is the row that was read.
LEMMA SeenFacts ==
    ASSUME PersonalInv, NEW c \in Clients, at[c] # Idle, at[c].req.op \in ThingOps,
           thing[at[c].req.thing].version = at[c].seen.version
    PROVE  /\ at[c].req.thing \in Things /\ thing[at[c].req.thing] = at[c].seen
           /\ at[c].seen \in ThingRow /\ at[c].seen.version > 0
<1>1. Sound(thing, task, date, audit, at[c]) /\ RequestOk(at[c].req)
  BY OpenFacts
<1>2. at[c].req.thing \in Things /\ at[c].req.thing # None
  BY <1>1, PersonalStateAssumption DEF RequestOk
<1>3. QED
  BY <1>1, <1>2 DEF Sound, Fresh

\* A version and the step that is recorded for it.
NextVersion(c, id, old, new, steps) ==
    \/ new.version = old.version /\ steps = {}
    \/ /\ new.version = old.version + 1 /\ steps = {<<id, new.version>>}
       /\ old.version = 0 => id = NewId(at[c])

\* A transaction that writes no thing and no date and one row of another table, or none.
LEMMA ItemStep ==
    ASSUME PersonalInv, NEW c \in Clients, at[c] # Idle, NEW steps, Commit(c, steps),
           UNCHANGED <<thing, date>>, task' \in [Tasks -> TaskRow],
           entry' \in [Entries -> EntryRow], blocker' \in [Blockers -> BlockerRow],
           relations' \subseteq Things \X Things,
           \A k \in Tasks : TaskMoved(task[k], task'[k]),
           NEW x \in Ids, \A id \in Ids : id # x => Versions'[id] = Versions[id],
           \/ Versions'[x] = Versions[x] /\ steps = {}
           \/ /\ Versions'[x] = Versions[x] + 1 /\ steps = {<<x, Versions'[x]>>}
              /\ Versions[x] = 0 => x = NewId(at[c])
    PROVE  PersonalInv'
<1>1. TypeOK /\ DatesInv /\ Versions[x] \in Nat
  BY OpenFacts, VersionsAreNumbers
<1>2. StepsOk(c, steps) /\ \A s \in steps : Versions'[s[1]] = s[2]
  BY <1>1 DEF StepsOk
<1>3. \A id \in Ids : \/ Versions'[id] = Versions[id] \/ Versions'[id] = 0
                      \/ \E s \in steps : s = <<id, Versions'[id]>>
  OBVIOUS
<1>4. thing' \in [Things -> ThingRow] /\ date' \in [Dates -> DateRow]
  BY <1>1 DEF TypeOK
<1>5. \A t \in Things : ThingMoved(thing[t], thing'[t])
  BY DEF ThingMoved
<1>6. \A d \in Dates : DateMoved(thing, thing', date[d], date'[d], Used(audit, d))
  BY DEF DateMoved
<1>7. DatesInv'
  BY <1>1 DEF DatesInv, DeadlineHasDate, Found
<1>8. QED
  BY <1>2, <1>3, <1>4, <1>5, <1>6, <1>7, CommitStep

LEMMA TaskStep ==
    ASSUME PersonalInv, NEW c \in Clients, at[c] # Idle, NEW steps, Commit(c, steps),
           UNCHANGED <<thing, date, entry, blocker, relations>>,
           NEW k \in Tasks, NEW new \in TaskRow, task' = [task EXCEPT ![k] = new],
           NextVersion(c, k, task[k], new, steps),
           new.version = task[k].version => new.status = task[k].status
    PROVE  PersonalInv'
<1>1. TypeOK
  BY OpenFacts
<1>2. task' \in [Tasks -> TaskRow] /\ task'[k] = new /\ \A l \in Tasks : l # k => task'[l] = task[l]
  BY <1>1 DEF TypeOK
<1>3. Versions[k] = task[k].version /\ Versions'[k] = new.version
  BY <1>2, VersionFacts
<1>4. \A id \in Ids : id # k => Versions'[id] = Versions[id]
  BY <1>2, VersionFacts DEF Ids
<1>5. k \in Ids
  BY DEF Ids
<1>6. \A l \in Tasks : TaskMoved(task[l], task'[l])
  BY <1>2 DEF TaskMoved, NextVersion
<1>7. QED
  BY <1>1, <1>2, <1>3, <1>4, <1>5, <1>6, ItemStep DEF TypeOK, NextVersion

LEMMA EntryStep ==
    ASSUME PersonalInv, NEW c \in Clients, at[c] # Idle, NEW steps, Commit(c, steps),
           UNCHANGED <<thing, task, date, blocker, relations>>,
           NEW e \in Entries, NEW new \in EntryRow, entry' = [entry EXCEPT ![e] = new],
           NextVersion(c, e, entry[e], new, steps)
    PROVE  PersonalInv'
<1>1. TypeOK
  BY OpenFacts
<1>2. entry' \in [Entries -> EntryRow] /\ entry'[e] = new
      /\ \A l \in Entries : l # e => entry'[l] = entry[l]
  BY <1>1 DEF TypeOK
<1>3. Versions[e] = entry[e].version /\ Versions'[e] = new.version
  BY <1>2, VersionFacts
<1>4. \A id \in Ids : id # e => Versions'[id] = Versions[id]
  BY <1>2, VersionFacts DEF Ids
<1>5. e \in Ids
  BY DEF Ids
<1>6. \A k \in Tasks : TaskMoved(task[k], task'[k])
  BY DEF TaskMoved
<1>7. QED
  BY <1>1, <1>2, <1>3, <1>4, <1>5, <1>6, ItemStep DEF TypeOK, NextVersion

LEMMA BlockerStep ==
    ASSUME PersonalInv, NEW c \in Clients, at[c] # Idle, NEW steps, Commit(c, steps),
           UNCHANGED <<thing, task, date, entry, relations>>,
           NEW b \in Blockers, NEW new \in BlockerRow, blocker' = [blocker EXCEPT ![b] = new],
           NextVersion(c, b, blocker[b], new, steps)
    PROVE  PersonalInv'
<1>1. TypeOK
  BY OpenFacts
<1>2. blocker' \in [Blockers -> BlockerRow] /\ blocker'[b] = new
      /\ \A l \in Blockers : l # b => blocker'[l] = blocker[l]
  BY <1>1 DEF TypeOK
<1>3. Versions[b] = blocker[b].version /\ Versions'[b] = new.version
  BY <1>2, VersionFacts
<1>4. \A id \in Ids : id # b => Versions'[id] = Versions[id]
  BY <1>2, VersionFacts DEF Ids
<1>5. b \in Ids
  BY DEF Ids
<1>6. \A k \in Tasks : TaskMoved(task[k], task'[k])
  BY DEF TaskMoved
<1>7. QED
  BY <1>1, <1>2, <1>3, <1>4, <1>5, <1>6, ItemStep DEF TypeOK, NextVersion

\* A thing is written and keeps its deadline, or has none.
LEMMA ThingStep ==
    ASSUME PersonalInv, NEW c \in Clients, at[c] # Idle, NEW steps, Commit(c, steps),
           UNCHANGED <<task, date, entry, blocker, relations>>,
           NEW t \in Things, NEW new \in ThingRow, thing' = [thing EXCEPT ![t] = new],
           NextVersion(c, t, thing[t], new, steps),
           new.version = thing[t].version => new = thing[t],
           \/ new.deadline = None
           \/ /\ thing[t].version > 0
              /\ new.deadline = thing[t].deadline
              /\ new.deleted = thing[t].deleted /\ new.into = thing[t].into
    PROVE  PersonalInv'
<1>1. TypeOK /\ DatesInv /\ Versions[t] \in Nat
  BY OpenFacts, VersionsAreNumbers DEF Ids
<1>2. /\ thing' \in [Things -> ThingRow] /\ thing'[t] = new
      /\ \A u \in Things : u # t => thing'[u] = thing[u]
      /\ t \in Ids
  BY <1>1 DEF TypeOK, Ids
<1>3. Versions[t] = thing[t].version /\ Versions'[t] = new.version
  BY <1>2, VersionFacts
<1>4. \A id \in Ids : id # t => Versions'[id] = Versions[id]
  BY <1>2, VersionFacts DEF Ids
<1>5. StepsOk(c, steps) /\ \A s \in steps : Versions'[s[1]] = s[2]
  BY <1>1, <1>2, <1>3 DEF StepsOk, NextVersion
<1>6. \A id \in Ids : \/ Versions'[id] = Versions[id] \/ Versions'[id] = 0
                      \/ \E s \in steps : s = <<id, Versions'[id]>>
  BY <1>3, <1>4 DEF NextVersion
<1>7. \A u \in Things : ThingMoved(thing[u], thing'[u])
  BY <1>2 DEF ThingMoved, NextVersion
<1>8. /\ \A k \in Tasks : TaskMoved(task[k], task'[k])
      /\ \A d \in Dates : DateMoved(thing, thing', date[d], date'[d], Used(audit, d))
  BY DEF DateMoved, TaskMoved
<1>9. DatesInv'
  <2>1. ASSUME NEW u \in Things, Found(u)', thing'[u].into = None, thing'[u].deadline # None
        PROVE  Found(u) /\ thing[u].into = None /\ thing'[u].deadline = thing[u].deadline
    BY <1>2, <2>1 DEF Found
  <2>2. QED
    BY <1>1, <2>1 DEF DatesInv, DeadlineHasDate
<1>10. QED
  BY <1>1, <1>2, <1>5, <1>6, <1>7, <1>8, <1>9, CommitStep DEF TypeOK

-----------------------------------------------------------------------------
(* Rows *)

LEMMA TouchedThing ==
    ASSUME NEW row \in ThingRow
    PROVE  /\ Touched(row) \in ThingRow /\ Touched(row).version = row.version + 1
           /\ Touched(row).deadline = row.deadline /\ Touched(row).deleted = row.deleted
           /\ Touched(row).into = row.into
BY DEF Touched, ThingRow

LEMMA TouchedTask ==
    ASSUME NEW row \in TaskRow
    PROVE  Touched(row) \in TaskRow /\ Touched(row).version = row.version + 1
BY DEF Touched, TaskRow

LEMMA CompletedFacts ==
    ASSUME NEW row \in TaskRow
    PROVE  /\ Completed(row) \in TaskRow
           /\ Completed(row) = row \/ Completed(row).version = row.version + 1
<1> DEFINE done == [row EXCEPT !.status = "DONE"]
<1>1. done \in TaskRow /\ done.version = row.version
  BY DEF TaskRow
<1>2. Completed(row) \in {row, Touched(row), Touched(done)}
  BY DEF Completed
<1> HIDE DEF done
<1>3. QED
  BY <1>1, <1>2, TouchedTask

LEMMA TransitionedFacts ==
    ASSUME NEW row \in TaskRow, NEW status \in {"TODO", "DONE", "CANCELLED"},
           status = "DONE" => row.status # "DONE"
    PROVE  /\ TransitionedTo(row, status) \in TaskRow
           /\ TransitionedTo(row, status).version = row.version + 1
<1> DEFINE changed == [row EXCEPT !.status = status]
<1>1. changed \in TaskRow /\ changed.version = row.version
  BY DEF TaskRow
<1>2. CASE status # "DONE"
  BY <1>1, <1>2, TouchedTask DEF TransitionedTo
<1>3. CASE status = "DONE"
  <2>1. Completed(row) \in {Touched(row), Touched(changed)}
    BY <1>3 DEF Completed
  <2>2. TransitionedTo(row, status) = Completed(row)
    BY <1>3 DEF TransitionedTo
  <2> HIDE DEF changed
  <2>3. QED
    BY <1>1, <2>1, <2>2, TouchedTask
<1>4. QED
  BY <1>2, <1>3

-----------------------------------------------------------------------------
(* Requests *)

\* The identifier that a request is going to add.
LEMMA NewIdFacts ==
    ASSUME NEW key, NEW r
    PROVE  NewId(Opened(key, r)) =
              IF r.op = "create_thing" THEN r.thing
              ELSE IF \/ r.op \in {"create_task", "set_deadline", "create_blocker"}
                      \/ r.op = "set_thing_context" /\ RowOf(r.table, r.item).version = 0
                   THEN r.item
              ELSE None
BY OpenedFacts DEF NewId

LEMMA ThingRequestsInv ==
    ASSUME PersonalInv, NEW c \in Clients,
           \/ CreateThing(c) \/ ChangeThingState(c) \/ DeleteThing(c)
           \/ MergeThings(c) \/ AddRelation(c)
           \/ \E archive \in BOOLEAN : ArchiveThing(c, archive)
    PROVE  PersonalInv'
<1>1. ASSUME NEW t \in Things \ Existing, Unused(t),
             Ask(c, Request("create_thing", t, None, None, <<>>))
      PROVE  PersonalInv'
  <2> DEFINE r == Request("create_thing", t, None, None, <<>>)
  <2>1. r.op = "create_thing" /\ r.thing = t
    BY DEF Request
  <2> HIDE DEF r
  <2>2. RequestOk(r) /\ NewId(Opened(issued + 1, r)) = t
    BY <2>1, NewIdFacts DEF RequestOk, ThingOps, TaskOps, BlockerOps
  <2>3. QED
    BY <1>1, <2>1, <2>2, AskInv DEF r, ThingOps
<1>2. ASSUME NEW t \in Things, Found(t), NEW r, Ask(c, r), r.thing = t,
             \/ r.op \in {"update_thing", "delete_thing"}
             \/ r.op = "change_archive" /\ r.args[1] \in BOOLEAN
             \/ r.op \in {"merge_things", "add_relation"} /\ r.args[1] \in Things
      PROVE  PersonalInv'
  <2>1. RequestOk(r) /\ NewId(Opened(issued + 1, r)) = None
    BY <1>2, NewIdFacts DEF RequestOk, ThingOps, TaskOps, BlockerOps
  <2>2. QED
    BY <1>2, <2>1, AskInv
<1>3. CASE CreateThing(c)
  BY <1>1, <1>3 DEF CreateThing
<1>4. CASE ChangeThingState(c)
  BY <1>2, <1>4 DEF ChangeThingState, Request
<1>5. CASE DeleteThing(c)
  BY <1>2, <1>5 DEF DeleteThing, Request
<1>6. CASE MergeThings(c)
  BY <1>2, <1>6 DEF MergeThings, Request
<1>7. CASE AddRelation(c)
  BY <1>2, <1>7 DEF AddRelation, Request
<1>8. CASE \E archive \in BOOLEAN : ArchiveThing(c, archive)
  BY <1>2, <1>8 DEF ArchiveThing, Request
<1>9. QED
  BY <1>3, <1>4, <1>5, <1>6, <1>7, <1>8

LEMMA TaskRequestsInv ==
    ASSUME PersonalInv, NEW c \in Clients,
           CreateTask(c) \/ CompleteTask(c) \/ TransitionTask(c)
    PROVE  PersonalInv'
<1>1. CASE CreateTask(c)
  <2>1. PICK k \in Tasks, t \in Things \cup {None}, recurring \in BOOLEAN :
            Unused(k) /\ Ask(c, Request("create_task", t, "task", k, <<recurring>>))
    BY <1>1 DEF CreateTask
  <2> DEFINE r == Request("create_task", t, "task", k, <<recurring>>)
  <2>2. /\ r.op = "create_task" /\ r.thing = t /\ r.table = "task" /\ r.item = k
        /\ r.args[1] = recurring
    BY DEF Request
  <2> HIDE DEF r
  <2>3. RequestOk(r) /\ NewId(Opened(issued + 1, r)) = k
    BY <2>2, NewIdFacts DEF RequestOk, ThingOps, TaskOps, BlockerOps
  <2>4. QED
    BY <2>1, <2>2, <2>3, AskInv DEF r, ThingOps
<1>2. CASE CompleteTask(c)
  <2>1. PICK k \in Tasks :
            task[k].version > 0 /\ Ask(c, Request("complete_task", None, "task", k, <<>>))
    BY <1>2 DEF CompleteTask
  <2> DEFINE r == Request("complete_task", None, "task", k, <<>>)
  <2>2. r.op = "complete_task" /\ r.thing = None /\ r.table = "task" /\ r.item = k
    BY DEF Request
  <2> HIDE DEF r
  <2>3. RequestOk(r) /\ NewId(Opened(issued + 1, r)) = None
    BY <2>2, NewIdFacts DEF RequestOk, ThingOps, TaskOps, BlockerOps
  <2>4. QED
    BY <2>1, <2>2, <2>3, AskInv DEF r, ThingOps
<1>3. CASE TransitionTask(c)
  <2>1. PICK k \in Tasks : \E status \in Targets(task[k]) :
            task[k].version > 0 /\ Ask(c, Request("transition_task", None, "task", k, <<status>>))
    BY <1>3 DEF TransitionTask
  <2>2. PICK status \in Targets(task[k]) :
            task[k].version > 0 /\ Ask(c, Request("transition_task", None, "task", k, <<status>>))
    BY <2>1
  <2>3. status \in {"TODO", "DONE", "CANCELLED"} /\ (status = "DONE" => task[k].status # "DONE")
    BY <2>2 DEF Targets
  <2> DEFINE r == Request("transition_task", None, "task", k, <<status>>)
  <2>4. /\ r.op = "transition_task" /\ r.thing = None /\ r.table = "task" /\ r.item = k
        /\ r.args[1] = status
    BY DEF Request
  <2> HIDE DEF r
  <2>5. RequestOk(r) /\ NewId(Opened(issued + 1, r)) = None
    BY <2>3, <2>4, NewIdFacts DEF RequestOk, ThingOps, TaskOps, BlockerOps
  <2>6. QED
    BY <2>2, <2>3, <2>4, <2>5, AskInv DEF r, ThingOps
<1>4. QED
  BY <1>1, <1>2, <1>3

LEMMA DateRequestsInv ==
    ASSUME PersonalInv, NEW c \in Clients, SetDeadline(c) \/ UpdateDate(c)
    PROVE  PersonalInv'
<1>1. CASE SetDeadline(c)
  <2>1. PICK d \in Dates, t \in Things, kind \in Kinds, value \in Values, primary \in BOOLEAN :
            /\ Unused(d) /\ Found(t)
            /\ Ask(c, Request("set_deadline", t, "date", d, <<kind, value, primary>>))
    BY <1>1 DEF SetDeadline
  <2> DEFINE r == Request("set_deadline", t, "date", d, <<kind, value, primary>>)
  <2>2. /\ r.op = "set_deadline" /\ r.thing = t /\ r.table = "date" /\ r.item = d
        /\ r.args[1] = kind /\ r.args[2] = value /\ r.args[3] = primary
    BY DEF Request
  <2> HIDE DEF r
  <2>3. RequestOk(r) /\ NewId(Opened(issued + 1, r)) = d
    BY <2>2, NewIdFacts DEF RequestOk, ThingOps, TaskOps, BlockerOps
  <2>4. QED
    BY <2>1, <2>2, <2>3, AskInv DEF r
<1>2. CASE UpdateDate(c)
  <2>1. PICK d \in Dates, value \in Values, primary \in BOOLEAN :
            /\ date[d].version > 0 /\ Found(date[d].thing)
            /\ Ask(c, Request("update_date", date[d].thing, "date", d, <<value, primary>>))
    BY <1>2 DEF UpdateDate
  <2> DEFINE r == Request("update_date", date[d].thing, "date", d, <<value, primary>>)
  <2>2. /\ r.op = "update_date" /\ r.thing = date[d].thing /\ r.table = "date" /\ r.item = d
        /\ r.args[1] = value /\ r.args[2] = primary
    BY DEF Request
  <2>3. r.thing \in Things
    BY <2>1, <2>2 DEF PersonalInv, DatesInv
  <2> HIDE DEF r
  <2>4. RequestOk(r) /\ NewId(Opened(issued + 1, r)) = None
    BY <2>2, <2>3, NewIdFacts DEF RequestOk, ThingOps, TaskOps, BlockerOps
  <2>5. QED
    BY <2>1, <2>2, <2>4, AskInv DEF r
<1>3. QED
  BY <1>1, <1>2

LEMMA ContextRequestInv ==
    ASSUME PersonalInv, NEW c \in Clients, SetThingContext(c)
    PROVE  PersonalInv'
<1>1. PICK e \in Entries, t \in Things :
          /\ Found(t)
          /\ Unused(e) \/ (entry[e].version > 0 /\ entry[e].thing = t)
          /\ Ask(c, Request("set_thing_context", t, "entry", e, <<>>))
  BY DEF SetThingContext
<1> DEFINE r == Request("set_thing_context", t, "entry", e, <<>>)
<1>2. r.op = "set_thing_context" /\ r.thing = t /\ r.table = "entry" /\ r.item = e
  BY DEF Request
<1> HIDE DEF r
<1>3. RequestOk(r)
  BY <1>2 DEF RequestOk, ThingOps, TaskOps, BlockerOps
<1>4. RowOf(r.table, r.item) = entry[e]
  BY <1>2 DEF RowOf
<1>5. NewId(Opened(issued + 1, r)) # None => Unused(NewId(Opened(issued + 1, r)))
  BY <1>1, <1>2, <1>4, NewIdFacts
<1>6. QED
  BY <1>1, <1>2, <1>3, <1>5, AskInv DEF r

LEMMA BlockerRequestsInv ==
    ASSUME PersonalInv, NEW c \in Clients, CreateBlocker(c) \/ ResolveBlocker(c)
    PROVE  PersonalInv'
<1>1. CASE CreateBlocker(c)
  <2>1. PICK b \in Blockers, t \in Things, k \in Tasks \cup {None} :
            /\ Unused(b) /\ Found(t)
            /\ Ask(c, Request("create_blocker", t, "blocker", b, <<k>>))
    BY <1>1 DEF CreateBlocker
  <2> DEFINE r == Request("create_blocker", t, "blocker", b, <<k>>)
  <2>2. /\ r.op = "create_blocker" /\ r.thing = t /\ r.table = "blocker" /\ r.item = b
        /\ r.args[1] = k
    BY DEF Request
  <2> HIDE DEF r
  <2>3. RequestOk(r) /\ NewId(Opened(issued + 1, r)) = b
    BY <2>2, NewIdFacts DEF RequestOk, ThingOps, TaskOps, BlockerOps
  <2>4. QED
    BY <2>1, <2>2, <2>3, AskInv DEF r
<1>2. CASE ResolveBlocker(c)
  <2>1. PICK b \in Blockers :
            /\ blocker[b].version > 0
            /\ Ask(c, Request("resolve_blocker", None, "blocker", b, <<>>))
    BY <1>2 DEF ResolveBlocker
  <2> DEFINE r == Request("resolve_blocker", None, "blocker", b, <<>>)
  <2>2. r.op = "resolve_blocker" /\ r.thing = None /\ r.table = "blocker" /\ r.item = b
    BY DEF Request
  <2> HIDE DEF r
  <2>3. RequestOk(r) /\ NewId(Opened(issued + 1, r)) = None
    BY <2>2, NewIdFacts DEF RequestOk, ThingOps, TaskOps, BlockerOps
  <2>4. QED
    BY <2>1, <2>2, <2>3, AskInv DEF r, ThingOps
<1>3. QED
  BY <1>1, <1>2

-----------------------------------------------------------------------------
(* Commits that write one row *)

LEMMA ApplyCreateThingInv ==
    ASSUME PersonalInv, NEW c \in Clients, ApplyCreateThing(c)
    PROVE  PersonalInv'
<1> DEFINE t == at[c].req.thing
<1>1. at[c] # Idle /\ at[c].req.op = "create_thing" /\ RequestOk(at[c].req)
  BY OpenFacts DEF ApplyCreateThing, Doing
<1>2. t \in Things /\ NewId(at[c]) = t /\ t # None
  BY <1>1, PersonalStateAssumption DEF RequestOk, NewId
<1>3. /\ thing' = [thing EXCEPT ![t] = NewThing] /\ Commit(c, {<<t, 1>>})
      /\ UNCHANGED <<task, date, entry, blocker, relations>>
  BY DEF ApplyCreateThing
<1>4. NewThing \in ThingRow /\ NewThing.version = 1 /\ NewThing.deadline = None
  BY DEF NewThing, ThingRow
<1> HIDE DEF t
<1>5. thing[t].version = 0
  BY <1>1, <1>2, <1>3, AddedFacts, VersionFacts
<1> DEFINE steps == {<<t, 1>>}
<1>6. NextVersion(c, t, thing[t], NewThing, steps) /\ NewThing.version # thing[t].version
  BY <1>2, <1>4, <1>5 DEF NextVersion
<1>7. Commit(c, steps)
  BY <1>3
<1> HIDE DEF steps
<1>8. QED
  BY <1>1, <1>2, <1>3, <1>4, <1>6, <1>7, ThingStep

LEMMA ApplyUpdateThingInv ==
    ASSUME PersonalInv, NEW c \in Clients, ApplyUpdateThing(c)
    PROVE  PersonalInv'
<1> DEFINE t == at[c].req.thing
           new == Touched(at[c].seen)
<1>1. at[c] # Idle /\ at[c].req.op \in ThingOps
  BY DEF ApplyUpdateThing, Doing, ThingOps
<1>2. /\ thing[t].version = at[c].seen.version /\ thing' = [thing EXCEPT ![t] = new]
      /\ Commit(c, {<<t, new.version>>}) /\ UNCHANGED <<task, date, entry, blocker, relations>>
  BY DEF ApplyUpdateThing, UpdateThing
<1>3. t \in Things /\ thing[t] = at[c].seen /\ at[c].seen \in ThingRow /\ thing[t].version > 0
  BY <1>1, <1>2, SeenFacts
<1>4. /\ new \in ThingRow /\ new.version = thing[t].version + 1
      /\ new.deadline = thing[t].deadline /\ new.deleted = thing[t].deleted
      /\ new.into = thing[t].into
  BY <1>3, TouchedThing
<1> HIDE DEF t, new
<1>5. NextVersion(c, t, thing[t], new, {<<t, new.version>>}) /\ new.version # thing[t].version
  BY <1>3, <1>4 DEF NextVersion, ThingRow
<1>6. QED
  BY <1>1, <1>2, <1>3, <1>4, <1>5, ThingStep

LEMMA ArchivedFacts ==
    ASSUME NEW row \in ThingRow, NEW archive \in BOOLEAN
    PROVE  /\ ArchivedTo(row, archive) \in ThingRow
           /\ \/ ArchivedTo(row, archive) = row
              \/ ArchivedTo(row, archive).version = row.version + 1
           /\ ArchivedTo(row, archive).deadline = row.deadline
           /\ ArchivedTo(row, archive).deleted = row.deleted
           /\ ArchivedTo(row, archive).into = row.into
<1> DEFINE changed == [row EXCEPT !.archived = archive]
<1>1. /\ changed \in ThingRow /\ changed.version = row.version
      /\ changed.deadline = row.deadline /\ changed.deleted = row.deleted
      /\ changed.into = row.into
  BY DEF ThingRow
<1>2. ArchivedTo(row, archive) \in {row, Touched(changed)}
  BY DEF ArchivedTo
<1> HIDE DEF changed
<1>3. QED
  BY <1>1, <1>2, TouchedThing

LEMMA ApplyChangeArchiveInv ==
    ASSUME PersonalInv, NEW c \in Clients, ApplyChangeArchive(c)
    PROVE  PersonalInv'
<1> DEFINE t == at[c].req.thing
           new == ArchivedTo(at[c].seen, at[c].req.args[1])
           steps == Moved(t, at[c].seen, new)
<1>1. at[c] # Idle /\ at[c].req.op \in ThingOps /\ at[c].req.args[1] \in BOOLEAN
  BY OpenFacts DEF ApplyChangeArchive, Doing, ThingOps, RequestOk
<1>2. /\ thing[t].version = at[c].seen.version /\ thing' = [thing EXCEPT ![t] = new]
      /\ Commit(c, steps) /\ UNCHANGED <<task, date, entry, blocker, relations>>
  BY DEF ApplyChangeArchive, UpdateThing
<1>3. t \in Things /\ thing[t] = at[c].seen /\ at[c].seen \in ThingRow /\ thing[t].version > 0
  BY <1>1, <1>2, SeenFacts
<1>4. /\ new \in ThingRow /\ (new = thing[t] \/ new.version = thing[t].version + 1)
      /\ new.deadline = thing[t].deadline /\ new.deleted = thing[t].deleted
      /\ new.into = thing[t].into
  BY <1>1, <1>3, ArchivedFacts
<1> HIDE DEF new
<1>5. /\ NextVersion(c, t, thing[t], new, steps)
      /\ new.version = thing[t].version => new = thing[t]
  BY <1>3, <1>4 DEF NextVersion, ThingRow, Moved
<1> HIDE DEF t, steps
<1>6. QED
  BY <1>1, <1>2, <1>3, <1>4, <1>5, ThingStep

LEMMA ApplyAddRelationInv ==
    ASSUME PersonalInv, NEW c \in Clients, ApplyAddRelation(c)
    PROVE  PersonalInv'
<1>1. /\ at[c] # Idle /\ at[c].req.thing \in Things /\ at[c].req.args[1] \in Things
      /\ TypeOK
  BY OpenFacts DEF ApplyAddRelation, Doing, RequestOk, ThingOps
<1>2. /\ Commit(c, {}) /\ UNCHANGED <<thing, task, date, entry, blocker>>
      /\ relations' = relations \cup {<<at[c].req.thing, at[c].req.args[1]>>}
  BY DEF ApplyAddRelation
<1>3. relations' \subseteq Things \X Things
  BY <1>1, <1>2 DEF TypeOK
<1>4. Versions' = Versions /\ at[c].req.thing \in Ids
  BY <1>1, <1>2 DEF Versions, VersionOf, Ids
<1>5. \A k \in Tasks : TaskMoved(task[k], task'[k])
  BY <1>2 DEF TaskMoved
<1>6. QED
  BY <1>1, <1>2, <1>3, <1>4, <1>5, ItemStep DEF TypeOK

LEMMA ApplyCreateTaskInv ==
    ASSUME PersonalInv, NEW c \in Clients, ApplyCreateTask(c)
    PROVE  PersonalInv'
<1> DEFINE k == at[c].req.item
           new == NewTask(at[c].req.thing, at[c].req.args[1])
<1>1. at[c] # Idle /\ at[c].req.op = "create_task" /\ RequestOk(at[c].req)
  BY OpenFacts DEF ApplyCreateTask, Doing
<1>2. /\ k \in Tasks /\ NewId(at[c]) = k /\ k # None
      /\ new \in TaskRow /\ new.version = 1
  BY <1>1, PersonalStateAssumption DEF RequestOk, NewId, TaskOps, NewTask, TaskRow
<1>3. /\ task' = [task EXCEPT ![k] = new] /\ Commit(c, {<<k, 1>>})
      /\ UNCHANGED <<thing, date, entry, blocker, relations>>
  BY DEF ApplyCreateTask
<1> HIDE DEF k, new
<1>4. task[k].version = 0
  BY <1>1, <1>2, <1>3, AddedFacts, VersionFacts
<1> DEFINE steps == {<<k, 1>>}
<1>5. NextVersion(c, k, task[k], new, steps) /\ new.version # task[k].version
  BY <1>2, <1>4 DEF NextVersion
<1>6. Commit(c, steps)
  BY <1>3
<1> HIDE DEF steps
<1>7. QED
  BY <1>1, <1>2, <1>3, <1>5, <1>6, TaskStep

LEMMA ApplyCompleteTaskInv ==
    ASSUME PersonalInv, NEW c \in Clients, ApplyCompleteTask(c)
    PROVE  PersonalInv'
<1> DEFINE k == at[c].req.item
           row == at[c].row
           done == Completed(row)
           new == [done EXCEPT !.thing = task[k].thing]
           steps == Moved(k, row, done)
<1>1. at[c] # Idle /\ at[c].req.op = "complete_task"
  BY DEF ApplyCompleteTask, Doing
<1>2. k \in Tasks /\ row \in TaskRow /\ row.version > 0 /\ task \in [Tasks -> TaskRow]
  BY <1>1, OpenFacts DEF Sound, RequestOk, TaskOps, TypeOK
<1>3. /\ task[k].version = row.version /\ task' = [task EXCEPT ![k] = new]
      /\ Commit(c, steps) /\ UNCHANGED <<thing, date, entry, blocker, relations>>
  BY DEF ApplyCompleteTask, UpdateTask
<1>4. done \in TaskRow /\ (done = row \/ done.version = row.version + 1)
  BY <1>2, CompletedFacts
<1>5. row.version \in Nat /\ task[k].thing \in Things \cup {None}
  BY <1>2 DEF TaskRow
<1> HIDE DEF row, done
<1>6. new \in TaskRow /\ new.version = done.version
  BY <1>4, <1>5 DEF TaskRow
<1>7. NextVersion(c, k, task[k], new, steps)
  BY <1>2, <1>3, <1>4, <1>5, <1>6 DEF NextVersion, Moved
<1>8. new.version = task[k].version => new.status = task[k].status
  <2>1. TaskRead(task, at[c])
    BY <1>1, OpenFacts DEF Sound
  <2>2. task[k].status = row.status
    BY <1>3, <2>1 DEF TaskRead, row
  <2>3. new.status = done.status
    BY <1>4 DEF TaskRow
  <2>4. QED
    BY <1>3, <1>4, <1>5, <1>6, <2>2, <2>3
<1> HIDE DEF k, new, steps
<1>9. QED
  BY <1>1, <1>2, <1>3, <1>6, <1>7, <1>8, TaskStep

LEMMA ApplyTransitionTaskInv ==
    ASSUME PersonalInv, NEW c \in Clients, ApplyTransitionTask(c)
    PROVE  PersonalInv'
<1> DEFINE k == at[c].req.item
           row == at[c].row
           status == at[c].req.args[1]
           moved == TransitionedTo(row, status)
           new == [moved EXCEPT !.thing = task[k].thing]
           steps == {<<k, moved.version>>}
<1>1. at[c] # Idle /\ at[c].req.op = "transition_task"
  BY DEF ApplyTransitionTask, Doing
<1>2. /\ k \in Tasks /\ row \in TaskRow /\ row.version > 0 /\ task \in [Tasks -> TaskRow]
      /\ status \in {"TODO", "DONE", "CANCELLED"}
  BY <1>1, OpenFacts DEF Sound, RequestOk, TaskOps, TypeOK
<1>3. /\ task[k].version = row.version /\ task' = [task EXCEPT ![k] = new]
      /\ Commit(c, steps) /\ UNCHANGED <<thing, date, entry, blocker, relations>>
  BY DEF ApplyTransitionTask, UpdateTask
<1>4. status = "DONE" => row.status # "DONE"
  BY <1>1, OpenFacts DEF Sound, TaskRead
<1>5. row.version \in Nat /\ task[k].thing \in Things \cup {None}
  BY <1>2 DEF TaskRow
<1> HIDE DEF row, status
<1>6. moved \in TaskRow /\ moved.version = row.version + 1
  BY <1>2, <1>4, TransitionedFacts
<1> HIDE DEF moved
<1>7. new \in TaskRow /\ new.version = moved.version
  BY <1>5, <1>6 DEF TaskRow
<1>8. NextVersion(c, k, task[k], new, steps) /\ new.version # task[k].version
  BY <1>2, <1>3, <1>5, <1>6, <1>7 DEF NextVersion
<1> HIDE DEF k, new, steps
<1>9. QED
  BY <1>1, <1>2, <1>3, <1>7, <1>8, TaskStep

\* The first entry of a thing is created, a later one revises it.
LEMMA ApplySetThingContextInv ==
    ASSUME PersonalInv, NEW c \in Clients, ApplySetThingContext(c)
    PROVE  PersonalInv'
<1> DEFINE e == at[c].req.item
           row == at[c].row
<1>1. at[c] # Idle /\ at[c].req.op = "set_thing_context" /\ RequestOk(at[c].req)
  BY OpenFacts DEF ApplySetThingContext, Doing
<1>2. /\ e \in Entries /\ row \in EntryRow /\ row.version \in Nat
      /\ entry \in [Entries -> EntryRow] /\ at[c].req.thing \in Things
  BY <1>1, OpenFacts DEF Sound, RequestOk, ThingOps, TypeOK, EntryRow
<1>3. UNCHANGED <<thing, task, date, blocker, relations>>
  BY DEF ApplySetThingContext
<1>4. CASE row.version = 0
  <2> DEFINE new == NewEntry(at[c].req.thing)
             steps == {<<e, 1>>}
  <2>1. entry' = [entry EXCEPT ![e] = new] /\ Commit(c, steps)
    BY <1>4 DEF ApplySetThingContext
  <2>2. new \in EntryRow /\ new.version = 1
    BY <1>2 DEF NewEntry, EntryRow
  <2>3. NewId(at[c]) = e /\ e # None
    BY <1>1, <1>2, <1>4, PersonalStateAssumption DEF NewId
  <2> HIDE DEF e, new
  <2>4. entry[e].version = 0
    BY <1>1, <1>2, <2>1, <2>3, AddedFacts, VersionFacts
  <2>5. NextVersion(c, e, entry[e], new, steps)
    BY <2>2, <2>3, <2>4 DEF NextVersion
  <2> HIDE DEF steps
  <2>6. QED
    BY <1>1, <1>2, <1>3, <2>1, <2>2, <2>5, EntryStep
<1>5. CASE row.version # 0
  <2> DEFINE new == [Touched(row) EXCEPT !.thing = entry[e].thing]
             steps == {<<e, row.version + 1>>}
  <2>1. /\ entry[e].version = row.version /\ entry' = [entry EXCEPT ![e] = new]
        /\ Commit(c, steps)
    BY <1>5 DEF ApplySetThingContext, UpdateEntry
  <2>2. new \in EntryRow /\ new.version = row.version + 1
    <3>1. Touched(row) \in EntryRow /\ Touched(row).version = row.version + 1
      BY <1>2 DEF Touched, EntryRow
    <3>2. entry[e].thing \in Things \cup {None}
      BY <1>2 DEF EntryRow
    <3> HIDE DEF e, row
    <3>3. QED
      BY <3>1, <3>2 DEF EntryRow
  <2> HIDE DEF e, row, new
  <2>3. NextVersion(c, e, entry[e], new, steps)
    BY <1>2, <1>5, <2>1, <2>2 DEF NextVersion
  <2> HIDE DEF steps
  <2>4. QED
    BY <1>1, <1>2, <1>3, <2>1, <2>2, <2>3, EntryStep
<1>6. QED
  BY <1>4, <1>5

LEMMA ApplyCreateBlockerInv ==
    ASSUME PersonalInv, NEW c \in Clients, ApplyCreateBlocker(c)
    PROVE  PersonalInv'
<1> DEFINE b == at[c].req.item
           new == NewBlocker(at[c].req.thing, at[c].req.args[1])
           steps == {<<b, 1>>}
<1>1. at[c] # Idle /\ at[c].req.op = "create_blocker" /\ RequestOk(at[c].req)
  BY OpenFacts DEF ApplyCreateBlocker, Doing
<1>2. b \in Blockers /\ NewId(at[c]) = b /\ b # None
  BY <1>1, PersonalStateAssumption DEF RequestOk, NewId, BlockerOps
<1>3. new \in BlockerRow /\ new.version = 1
  BY <1>1 DEF RequestOk, ThingOps, NewBlocker, BlockerRow
<1>4. /\ blocker' = [blocker EXCEPT ![b] = new] /\ Commit(c, steps)
      /\ UNCHANGED <<thing, task, date, entry, relations>>
  BY DEF ApplyCreateBlocker
<1> HIDE DEF b, new
<1>5. blocker[b].version = 0
  BY <1>1, <1>2, <1>4, AddedFacts, VersionFacts
<1>6. NextVersion(c, b, blocker[b], new, steps)
  BY <1>2, <1>3, <1>5 DEF NextVersion
<1> HIDE DEF steps
<1>7. QED
  BY <1>1, <1>2, <1>3, <1>4, <1>6, BlockerStep

LEMMA ApplyResolveBlockerInv ==
    ASSUME PersonalInv, NEW c \in Clients, ApplyResolveBlocker(c)
    PROVE  PersonalInv'
<1> DEFINE b == at[c].req.item
           row == at[c].row
           new == [blocker[b] EXCEPT !.open = Resolved(row).open, !.version = Resolved(row).version]
           steps == {<<b, row.version + 1>>}
<1>1. at[c] # Idle /\ at[c].req.op = "resolve_blocker"
  BY DEF ApplyResolveBlocker, Doing
<1>2. /\ b \in Blockers /\ row \in BlockerRow /\ row.version > 0 /\ row.version \in Nat
      /\ blocker \in [Blockers -> BlockerRow]
  BY <1>1, OpenFacts DEF Sound, RequestOk, BlockerOps, TypeOK, BlockerRow
<1>3. /\ blocker[b].version = row.version /\ blocker' = [blocker EXCEPT ![b] = new]
      /\ Commit(c, steps) /\ UNCHANGED <<thing, task, date, entry, relations>>
  BY DEF ApplyResolveBlocker, UpdateBlocker
<1>4. Resolved(row).open = FALSE /\ Resolved(row).version = row.version + 1
  BY <1>2 DEF Resolved, Touched, BlockerRow
<1>5. new \in BlockerRow /\ new.version = row.version + 1
  <2> DEFINE old == blocker[b]
             version == row.version + 1
  <2>1. old \in BlockerRow /\ version \in Nat
    BY <1>2
  <2>2. new = [old EXCEPT !.open = FALSE, !.version = version]
    BY <1>4
  <2> HIDE DEF old, version, new
  <2>3. new \in BlockerRow /\ new.version = version
    BY <2>1, <2>2 DEF BlockerRow
  <2>4. QED
    BY <2>3 DEF version
<1> HIDE DEF b, row, new
<1>6. NextVersion(c, b, blocker[b], new, steps)
  BY <1>2, <1>3, <1>5 DEF NextVersion
<1> HIDE DEF steps
<1>7. QED
  BY <1>1, <1>2, <1>3, <1>5, <1>6, BlockerStep

-----------------------------------------------------------------------------
(* Commits that write several tables *)

LEMMA DeadlineFacts ==
    ASSUME NEW row \in ThingRow, NEW value \in Values \cup {None}
    PROVE  /\ WithDeadline(row, value) \in ThingRow
           /\ WithDeadline(row, value).version = row.version + 1
           /\ WithDeadline(row, value).deadline = value
<1> DEFINE changed == [row EXCEPT !.deadline = value]
<1>1. changed \in ThingRow /\ changed.version = row.version /\ changed.deadline = value
  BY DEF ThingRow
<1>2. WithDeadline(row, value) = Touched(changed)
  BY DEF WithDeadline
<1> HIDE DEF changed
<1>3. QED
  BY <1>1, <1>2, TouchedThing

LEMMA DeletedFacts ==
    ASSUME NEW row \in ThingRow
    PROVE  /\ Deleted(row) \in ThingRow /\ Deleted(row).version = row.version + 1
           /\ Deleted(row).deleted
<1> DEFINE changed == [row EXCEPT !.deleted = TRUE]
<1>1. changed \in ThingRow /\ changed.version = row.version /\ changed.deleted
  BY DEF ThingRow
<1>2. Deleted(row) = Touched(changed)
  BY DEF Deleted
<1> HIDE DEF changed
<1>3. QED
  BY <1>1, <1>2, TouchedThing

LEMMA MergedFacts ==
    ASSUME NEW row \in ThingRow, NEW u \in Things
    PROVE  /\ MergedInto(row, u) \in ThingRow /\ MergedInto(row, u).version = row.version + 1
           /\ MergedInto(row, u).into = u
<1> DEFINE changed == [row EXCEPT !.into = u]
<1>1. changed \in ThingRow /\ changed.version = row.version /\ changed.into = u
  BY DEF ThingRow
<1>2. MergedInto(row, u) = Touched(changed)
  BY DEF MergedInto
<1> HIDE DEF changed
<1>3. QED
  BY <1>1, <1>2, TouchedThing

\* Dates of the thing t may lose the primary mark.
OnlyUnset(dates, t) ==
    \A e \in Dates :
        /\ dates[e].version = date[e].version /\ dates[e].kind = date[e].kind
        /\ dates[e].thing = date[e].thing
        /\ dates[e].primary => date[e].primary
        /\ date[e].thing # t => dates[e] = date[e]

\* Either the thing t and all marks stay as they are, or t is written too and the deadline it
\* is given is the one of the date d, or none.
DeadlineWritten(t, new, dates, d, row, steps) ==
    \/ new = thing[t] /\ dates = date /\ steps = {<<d, row.version>>}
    \/ /\ new.version = thing[t].version + 1 /\ thing[t].version > 0
       /\ steps = {<<d, row.version>>, <<t, new.version>>}
       /\ new.deadline # None => row.thing = t /\ row.primary /\ row.value = new.deadline

\* A date is written, and perhaps its thing.  The date as it was does not stand for the
\* deadline of a thing that is not written.
LEMMA DateStep ==
    ASSUME PersonalInv, NEW c \in Clients, at[c] # Idle, NEW steps, Commit(c, steps),
           UNCHANGED <<task, entry, blocker, relations>>,
           NEW t \in Things, NEW new \in ThingRow, thing' = [thing EXCEPT ![t] = new],
           NEW d \in Dates, NEW row \in DateRow,
           NEW dates \in [Dates -> DateRow], date' = [dates EXCEPT ![d] = row],
           row.version = date[d].version + 1, row.thing \in Things,
           date[d].version = 0 => d = NewId(at[c]),
           OnlyUnset(dates, t), DeadlineWritten(t, new, dates, d, row, steps),
           date[d].version > 0 /\ date[d].primary => date[d].thing = t /\ new # thing[t]
    PROVE  PersonalInv'
<1>1. TypeOK /\ DatesInv /\ thing[t].version \in Nat /\ date[d].version \in Nat
  BY OpenFacts DEF TypeOK, ThingRow, DateRow
<1>2. /\ thing' \in [Things -> ThingRow] /\ thing'[t] = new
      /\ \A u \in Things : u # t => thing'[u] = thing[u]
  BY <1>1 DEF TypeOK
<1>3. /\ date' \in [Dates -> DateRow] /\ date'[d] = row
      /\ \A e \in Dates : e # d => date'[e] = dates[e]
  OBVIOUS
<1>4. /\ Versions[t] = thing[t].version /\ Versions'[t] = new.version
      /\ Versions[d] = date[d].version /\ Versions'[d] = row.version
      /\ t \in Ids /\ d \in Ids /\ t # d
  BY <1>2, <1>3, VersionFacts, PersonalStateAssumption DEF Ids
<1>5. \A id \in Ids : id # t /\ id # d => Versions'[id] = Versions[id]
  <2>1. \A u \in Things : u # t => Versions'[u] = Versions[u]
    BY <1>2, VersionFacts
  <2>2. \A e \in Dates : e # d => Versions'[e] = Versions[e]
    BY <1>3, VersionFacts DEF OnlyUnset
  <2>3. \A x \in Tasks \cup Entries \cup Blockers : Versions'[x] = Versions[x]
    BY VersionFacts
  <2>4. QED
    BY <2>1, <2>2, <2>3 DEF Ids
<1>6. d = NewId(at[c]) => ~Used(audit, d)
  <2>1. d # None
    BY PersonalStateAssumption
  <2>2. QED
    BY <2>1, AddedFacts
<1>7. StepsOk(c, steps) /\ \A s \in steps : Versions'[s[1]] = s[2]
  BY <1>1, <1>4 DEF StepsOk, DeadlineWritten
<1>8. \A id \in Ids : \/ Versions'[id] = Versions[id] \/ Versions'[id] = 0
                      \/ \E s \in steps : s = <<id, Versions'[id]>>
  BY <1>4, <1>5 DEF DeadlineWritten
<1>9. /\ \A u \in Things : ThingMoved(thing[u], thing'[u])
      /\ \A k \in Tasks : TaskMoved(task[k], task'[k])
  BY <1>2 DEF ThingMoved, TaskMoved, DeadlineWritten
<1>10. ASSUME NEW e \in Dates
       PROVE  DateMoved(thing, thing', date[e], date'[e], Used(audit, e))
  <2>1. CASE e = d
    BY <1>1, <1>3, <1>6, <2>1 DEF DateMoved
  <2>2. CASE e # d
    BY <1>3, <2>2 DEF DateMoved, OnlyUnset
  <2>3. QED
    BY <2>1, <2>2
<1>11. DatesInv'
  <2>1. \A e \in Dates : date'[e].version > 0 => date'[e].thing \in Things
    BY <1>1, <1>3 DEF DatesInv, OnlyUnset
  <2>2. ASSUME NEW u \in Things, Found(u)', thing'[u].into = None, thing'[u].deadline # None
        PROVE  \E e \in Dates : /\ date'[e].version > 0 /\ date'[e].thing = u
                                /\ date'[e].primary /\ date'[e].value = thing'[u].deadline
    <3>1. CASE u = t /\ new # thing[t]
      <4>1. row.thing = u /\ row.primary /\ row.value = thing'[u].deadline /\ row.version > 0
        BY <1>1, <1>2, <2>2, <3>1 DEF DeadlineWritten
      <4>2. QED
        BY <1>3, <4>1
    <3>2. CASE u # t \/ new = thing[t]
      <4>1. thing'[u] = thing[u] /\ Found(u)
        BY <1>2, <2>2, <3>2 DEF Found
      <4>2. PICK e \in Dates : /\ date[e].version > 0 /\ date[e].thing = u
                               /\ date[e].primary /\ date[e].value = thing[u].deadline
        BY <1>1, <2>2, <4>1 DEF DatesInv, DeadlineHasDate
      <4>3. e # d
        BY <3>2, <4>2
      <4>4. dates[e] = date[e]
        <5>1. CASE u # t
          BY <4>2, <5>1 DEF OnlyUnset
        <5>2. CASE new = thing[t]
          BY <1>1, <5>2 DEF DeadlineWritten
        <5>3. QED
          BY <3>2, <5>1, <5>2
      <4>5. QED
        BY <1>3, <4>1, <4>2, <4>3, <4>4
    <3>3. QED
      BY <3>1, <3>2
  <2>3. QED
    BY <2>1, <2>2 DEF DatesInv, DeadlineHasDate
<1>12. /\ task' \in [Tasks -> TaskRow] /\ entry' \in [Entries -> EntryRow]
       /\ blocker' \in [Blockers -> BlockerRow] /\ relations' \subseteq Things \X Things
  BY <1>1 DEF TypeOK
<1>13. \A e \in Dates : DateMoved(thing, thing', date[e], date'[e], Used(audit, e))
  BY <1>10
<1>14. thing' \in [Things -> ThingRow] /\ date' \in [Dates -> DateRow]
  BY <1>2, <1>3
<1>15. QED
  BY <1>7, <1>8, <1>9, <1>11, <1>12, <1>13, <1>14, CommitStep

\* The dates of a kind lose the primary mark and keep the rest.
LEMMA UnsetFacts ==
    ASSUME TypeOK, NEW t \in Things, NEW kind
    PROVE  /\ PrimaryUnset(t, kind) \in [Dates -> DateRow]
           /\ OnlyUnset(PrimaryUnset(t, kind), t)
<1>1. ASSUME NEW row \in DateRow
      PROVE  LET unset == [row EXCEPT !.primary = FALSE]
             IN  /\ unset \in DateRow /\ unset.version = row.version /\ unset.kind = row.kind
                 /\ unset.thing = row.thing /\ unset.primary = FALSE
  BY DEF DateRow
<1>2. ASSUME NEW e \in Dates
      PROVE  date[e] \in DateRow
  BY DEF TypeOK
<1>3. QED
  BY <1>1, <1>2 DEF PrimaryUnset, OnlyUnset

LEMMA ApplySetDeadlineInv ==
    ASSUME PersonalInv, NEW c \in Clients, ApplySetDeadline(c)
    PROVE  PersonalInv'
<1> DEFINE t == at[c].req.thing
           d == at[c].req.item
           kind == at[c].req.args[1]
           value == at[c].req.args[2]
           primary == at[c].req.args[3]
           seen == at[c].seen
           new == IF primary THEN WithDeadline(seen, value) ELSE seen
           dates == IF primary THEN PrimaryUnset(t, kind) ELSE date
           row == NewDate(t, kind, value, primary)
           steps == {<<d, 1>>} \cup Moved(t, seen, new)
<1>1. at[c] # Idle /\ at[c].req.op = "set_deadline"
  BY DEF ApplySetDeadline, Doing
<1>2. /\ TypeOK /\ t \in Things /\ d \in Dates /\ kind \in Kinds /\ value \in Values
      /\ primary \in BOOLEAN /\ seen \in ThingRow
  BY <1>1, OpenFacts DEF RequestOk, ThingOps
<1>3. /\ IF primary THEN UpdateThing(t, new, seen.version) ELSE UNCHANGED thing
      /\ date' = [dates EXCEPT ![d] = row] /\ Commit(c, steps)
      /\ UNCHANGED <<task, entry, blocker, relations>>
  BY DEF ApplySetDeadline
<1>4. row \in DateRow /\ row.version = 1 /\ row.thing = t /\ row.primary = primary
      /\ row.value = value
  BY <1>2 DEF NewDate, DateRow
<1>5. NewId(at[c]) = d /\ d # None
  BY <1>1, <1>2, PersonalStateAssumption DEF NewId
<1>6. date[d].version = 0
  <2>1. Versions[d] = date[d].version
    BY <1>2, VersionFacts
  <2> HIDE DEF steps
  <2>2. Commit(c, steps)
    BY <1>3
  <2>3. Versions[NewId(at[c])] = 0
    BY <1>1, <1>5, <2>2, AddedFacts
  <2>4. QED
    BY <1>5, <2>1, <2>3
<1>7. /\ thing \in [Things -> ThingRow] /\ date \in [Dates -> DateRow]
      /\ ~(date[d].version > 0) /\ row.thing \in Things
  BY <1>2, <1>4, <1>6 DEF TypeOK
<1>8. CASE ~primary
  <2>1. new = seen /\ dates = date /\ steps = {<<d, 1>>}
    BY <1>8 DEF Moved
  <2>2. thing' = [thing EXCEPT ![t] = thing[t]]
    BY <1>3, <1>7, <1>8
  <2>3. thing[t] \in ThingRow
    BY <1>2, <1>7
  <2>4. row.version = date[d].version + 1
    BY <1>4, <1>6
  <2> HIDE DEF t, d, kind, value, primary, seen, new, dates, row
  <2>5. OnlyUnset(dates, t) /\ DeadlineWritten(t, thing[t], dates, d, row, steps)
    BY <1>4, <2>1 DEF OnlyUnset, DeadlineWritten
  <2> HIDE DEF steps
  <2>6. QED
    BY <1>1, <1>2, <1>3, <1>4, <1>5, <1>7, <2>1, <2>2, <2>3, <2>4, <2>5, DateStep
<1>9. CASE primary
  <2>1. /\ new = WithDeadline(seen, value) /\ dates = PrimaryUnset(t, kind)
        /\ thing[t].version = seen.version /\ thing' = [thing EXCEPT ![t] = new]
    BY <1>3, <1>9 DEF UpdateThing
  <2>2. thing[t] = seen /\ seen.version > 0 /\ seen.version \in Nat
    BY <1>1, <1>2, <2>1, SeenFacts DEF ThingOps, ThingRow
  <2>3. new \in ThingRow /\ new.version = thing[t].version + 1 /\ new.deadline = value
    BY <1>2, <2>1, <2>2, DeadlineFacts
  <2>4. dates \in [Dates -> DateRow] /\ OnlyUnset(dates, t)
    BY <1>2, <2>1, UnsetFacts
  <2> HIDE DEF new, dates, seen
  <2>5. steps = {<<d, row.version>>, <<t, new.version>>}
    <3>1. row.version = 1 /\ new.version # seen.version
      BY <1>4, <2>2, <2>3
    <3> HIDE DEF row
    <3>2. Moved(t, seen, new) = {<<t, new.version>>}
      BY <3>1 DEF Moved
    <3>3. QED
      BY <3>1, <3>2
  <2>6. row.version = date[d].version + 1
    BY <1>4, <1>6
  <2> HIDE DEF t, d, kind, value, primary, row, steps
  <2>7. DeadlineWritten(t, new, dates, d, row, steps) /\ new # thing[t]
    BY <1>4, <1>9, <2>2, <2>3, <2>5 DEF DeadlineWritten
  <2>8. QED
    BY <1>1, <1>2, <1>3, <1>4, <1>5, <1>7, <2>1, <2>3, <2>4, <2>6, <2>7, DateStep
<1>10. QED
  BY <1>2, <1>8, <1>9

\* The revision fences the thing exactly when it changes what the deadline depends on.
LEMMA ApplyUpdateDateInv ==
    ASSUME PersonalInv, NEW c \in Clients, ApplyUpdateDate(c)
    PROVE  PersonalInv'
<1> DEFINE t == at[c].req.thing
           d == at[c].req.item
           value == at[c].req.args[1]
           primary == at[c].req.args[2]
           seen == at[c].seen
           old == at[c].row
           new == RevisedDeadline(seen, old, value, primary)
           dates == IF primary THEN PrimaryUnset(t, old.kind) ELSE date
           row == [RevisedDate(old, value, primary) EXCEPT !.thing = dates[d].thing]
           steps == {<<d, old.version + 1>>} \cup Moved(t, seen, new)
<1>1. at[c] # Idle /\ at[c].req.op = "update_date"
  BY DEF ApplyUpdateDate, Doing
<1>2. /\ TypeOK /\ DatesInv /\ t \in Things /\ d \in Dates /\ value \in Values
      /\ primary \in BOOLEAN /\ seen \in ThingRow /\ old \in DateRow
      /\ DateRead(thing, date, audit, at[c])
  BY <1>1, OpenFacts DEF RequestOk, ThingOps, Sound
<1>3. /\ IF new = seen THEN UNCHANGED thing ELSE UpdateThing(t, new, seen.version)
      /\ date[d].version = old.version
      /\ date' = [dates EXCEPT ![d] = row] /\ Commit(c, steps)
      /\ UNCHANGED <<task, entry, blocker, relations>>
  BY DEF ApplyUpdateDate, UpdatedDate
<1>4. thing \in [Things -> ThingRow] /\ date \in [Dates -> DateRow]
  BY <1>2 DEF TypeOK
<1>5. /\ old.version > 0 /\ old.version \in Nat /\ old.primary \in BOOLEAN
      /\ date[d].primary => old.primary
      /\ thing[t].version = seen.version => date[d].thing = t
      /\ date[d].thing \in Things
  BY <1>2, <1>3 DEF DateRead, DateRow, DatesInv
<1>6. /\ dates \in [Dates -> DateRow] /\ OnlyUnset(dates, t)
      /\ ~primary => dates = date
  <2>1. OnlyUnset(date, t)
    BY DEF OnlyUnset
  <2>2. QED
    BY <1>2, <1>4, <2>1, UnsetFacts
<1> HIDE DEF dates
<1>7. /\ row \in DateRow /\ row.version = date[d].version + 1 /\ row.thing = date[d].thing
      /\ row.primary = primary /\ row.value = value
  <2> DEFINE revised == RevisedDate(old, value, primary)
             owner == dates[d].thing
  <2>1. /\ revised \in DateRow /\ revised.version = old.version + 1
        /\ revised.primary = primary /\ revised.value = value
    <3> DEFINE changed == [old EXCEPT !.value = value, !.primary = primary]
    <3>1. revised = [changed EXCEPT !.version = changed.version + 1]
      BY DEF RevisedDate, Touched
    <3> HIDE DEF revised, old, value, primary
    <3>2. /\ changed \in DateRow /\ changed.version = old.version
          /\ changed.primary = primary /\ changed.value = value
      BY <1>2 DEF DateRow
    <3> HIDE DEF changed
    <3>3. QED
      BY <1>5, <3>1, <3>2 DEF DateRow
  <2>2. owner = date[d].thing /\ owner \in Things
    BY <1>2, <1>5, <1>6 DEF OnlyUnset
  <2>3. row = [revised EXCEPT !.thing = owner]
    OBVIOUS
  <2> HIDE DEF revised, owner, row
  <2>4. row \in DateRow /\ row.version = revised.version /\ row.thing = owner
        /\ row.primary = revised.primary /\ row.value = revised.value
    BY <2>1, <2>2, <2>3 DEF DateRow
  <2>5. QED
    BY <1>3, <2>1, <2>2, <2>4
<1>8. CASE ~primary /\ ~old.primary
  <2>1. new = seen
    BY <1>8 DEF RevisedDeadline
  <2>2. thing' = [thing EXCEPT ![t] = thing[t]] /\ thing[t] \in ThingRow
    BY <1>2, <1>3, <1>4, <2>1
  <2>3. steps = {<<d, row.version>>}
    BY <1>3, <1>7, <2>1 DEF Moved
  <2> HIDE DEF t, d, value, primary, seen, old, new, row, steps
  <2>4. DeadlineWritten(t, thing[t], dates, d, row, steps)
    BY <1>6, <1>8, <2>3 DEF DeadlineWritten
  <2>5. date[d].version > 0 /\ ~date[d].primary /\ date[d].version # 0
    BY <1>3, <1>5, <1>8
  <2>6. QED
    BY <1>1, <1>2, <1>3, <1>5, <1>6, <1>7, <2>2, <2>4, <2>5, DateStep
<1>9. CASE primary \/ old.primary
  <2>1. new = WithDeadline(seen, IF primary THEN value ELSE None)
    BY <1>2, <1>5, <1>9 DEF RevisedDeadline
  <2>2. /\ new \in ThingRow /\ new.version = seen.version + 1
        /\ new.deadline = (IF primary THEN value ELSE None)
    BY <1>2, <2>1, DeadlineFacts
  <2>3. seen.version \in Nat
    BY <1>2 DEF ThingRow
  <2>4. thing[t].version = seen.version /\ thing' = [thing EXCEPT ![t] = new]
    <3>1. new # seen
      BY <2>2, <2>3
    <3> HIDE DEF new, seen
    <3>2. QED
      BY <1>3, <3>1 DEF UpdateThing
  <2>5. thing[t] = seen /\ seen.version > 0
    BY <1>1, <1>2, <2>4, SeenFacts DEF ThingOps
  <2> HIDE DEF new, seen
  <2>6. steps = {<<d, row.version>>, <<t, new.version>>}
    <3>1. row.version = old.version + 1
      BY <1>3, <1>7
    <3>2. new.version # seen.version
      BY <2>2, <2>3
    <3> HIDE DEF t, d, value, primary, old, row
    <3>3. Moved(t, seen, new) = {<<t, new.version>>}
      BY <3>2 DEF Moved
    <3>4. QED
      BY <3>1, <3>3
  <2> HIDE DEF t, d, value, primary, old, row, steps
  <2>7. DeadlineWritten(t, new, dates, d, row, steps) /\ new # thing[t]
    BY <1>5, <1>7, <2>2, <2>3, <2>4, <2>5, <2>6 DEF DeadlineWritten
  <2>8. date[d].version # 0 /\ date[d].thing = t
    BY <1>3, <1>5, <2>4
  <2>9. QED
    BY <1>1, <1>2, <1>3, <1>5, <1>6, <1>7, <2>2, <2>4, <2>7, <2>8, DateStep
<1>10. QED
  BY <1>2, <1>5, <1>8, <1>9

LEMMA NoRowFacts ==
    /\ NoTask \in TaskRow /\ NoTask.version = 0
    /\ NoDate \in DateRow /\ NoDate.version = 0 /\ NoDate.primary = FALSE
    /\ NoEntry \in EntryRow /\ NoEntry.version = 0
    /\ NoBlocker \in BlockerRow /\ NoBlocker.version = 0
<1>1. AnyKind \in Kinds /\ AnyValue \in Values
  BY PersonalStateAssumption DEF AnyKind, AnyValue
<1>2. NoTask \in TaskRow /\ NoTask.version = 0
  BY DEF NoTask, NewTask, TaskRow
<1>3. NoDate \in DateRow /\ NoDate.version = 0 /\ NoDate.primary = FALSE
  BY <1>1 DEF NoDate, NewDate, DateRow
<1>4. NoEntry \in EntryRow /\ NoEntry.version = 0
  BY DEF NoEntry, NewEntry, EntryRow
<1>5. NoBlocker \in BlockerRow /\ NoBlocker.version = 0
  BY DEF NoBlocker, NewBlocker, BlockerRow
<1>6. QED
  BY <1>2, <1>3, <1>4, <1>5

\* The tasks of a deleted thing are detached, everything else it owns goes with it.
LEMMA ApplyDeleteThingInv ==
    ASSUME PersonalInv, NEW c \in Clients, ApplyDeleteThing(c)
    PROVE  PersonalInv'
<1> DEFINE t == at[c].req.thing
           new == Deleted(at[c].seen)
           steps == {<<t, new.version>>}
<1>1. at[c] # Idle /\ at[c].req.op \in ThingOps
  BY DEF ApplyDeleteThing, Doing, ThingOps
<1>2. /\ thing[t].version = at[c].seen.version /\ thing' = [thing EXCEPT ![t] = new]
      /\ DetachTasks(t) /\ DeleteOwnedComponents(t) /\ Commit(c, steps)
  BY DEF ApplyDeleteThing, UpdateThing
<1>3. /\ TypeOK /\ DatesInv
      /\ t \in Things /\ thing[t] = at[c].seen /\ at[c].seen \in ThingRow /\ thing[t].version > 0
  BY <1>1, <1>2, SeenFacts, OpenFacts
<1>4. new \in ThingRow /\ new.version = thing[t].version + 1 /\ new.deleted
  BY <1>3, DeletedFacts
<1> HIDE DEF t, new
<1>5. /\ thing' \in [Things -> ThingRow] /\ thing'[t] = new
      /\ \A u \in Things : u # t => thing'[u] = thing[u]
      /\ thing[t].version \in Nat
  BY <1>2, <1>3, <1>4 DEF TypeOK, ThingRow
<1>6. /\ task' \in [Tasks -> TaskRow]
      /\ \A k \in Tasks : task'[k].version = task[k].version /\ task'[k].status = task[k].status
  <2>1. ASSUME NEW row \in TaskRow
        PROVE  LET detached == [row EXCEPT !.thing = None]
               IN  /\ detached \in TaskRow /\ detached.version = row.version
                   /\ detached.status = row.status
    BY DEF TaskRow
  <2>2. task \in [Tasks -> TaskRow]
    BY <1>3 DEF TypeOK
  <2>3. QED
    BY <1>2, <2>1, <2>2 DEF DetachTasks
<1>7. /\ date' \in [Dates -> DateRow]
      /\ \A d \in Dates : date'[d] = IF date[d].thing = t THEN NoDate ELSE date[d]
  BY <1>2, <1>3, NoRowFacts DEF DeleteOwnedComponents, TypeOK
<1>8. /\ entry' \in [Entries -> EntryRow]
      /\ \A e \in Entries : entry'[e].version = entry[e].version \/ entry'[e].version = 0
  BY <1>2, <1>3, NoRowFacts DEF DeleteOwnedComponents, TypeOK
<1>9. /\ blocker' \in [Blockers -> BlockerRow]
      /\ \A b \in Blockers : blocker'[b].version = blocker[b].version \/ blocker'[b].version = 0
  BY <1>2, <1>3, NoRowFacts DEF DeleteOwnedComponents, TypeOK
<1>10. relations' \subseteq Things \X Things
  BY <1>2, <1>3 DEF DeleteOwnedComponents, TypeOK
<1>11. Versions[t] = thing[t].version /\ Versions'[t] = new.version /\ t \in Ids
  BY <1>3, <1>5, VersionFacts DEF Ids
<1>12. ASSUME NEW id \in Ids, id # t
       PROVE  Versions'[id] = Versions[id] \/ Versions'[id] = 0
  <2>1. CASE id \in Things
    BY <1>5, <1>12, <2>1, VersionFacts
  <2>2. CASE id \in Tasks
    BY <1>6, <2>2, VersionFacts
  <2>3. CASE id \in Dates
    BY <1>7, <2>3, VersionFacts, NoRowFacts
  <2>4. CASE id \in Entries
    BY <1>8, <2>4, VersionFacts
  <2>5. CASE id \in Blockers
    BY <1>9, <2>5, VersionFacts
  <2>6. QED
    BY <2>1, <2>2, <2>3, <2>4, <2>5 DEF Ids
<1>13. StepsOk(c, steps) /\ \A s \in steps : Versions'[s[1]] = s[2]
  BY <1>3, <1>4, <1>5, <1>11 DEF StepsOk
<1>14. \A id \in Ids : \/ Versions'[id] = Versions[id] \/ Versions'[id] = 0
                       \/ \E s \in steps : s = <<id, Versions'[id]>>
  BY <1>11, <1>12
<1>15. /\ \A u \in Things : ThingMoved(thing[u], thing'[u])
       /\ \A k \in Tasks : TaskMoved(task[k], task'[k])
       /\ \A d \in Dates : DateMoved(thing, thing', date[d], date'[d], Used(audit, d))
  BY <1>4, <1>5, <1>6, <1>7, NoRowFacts DEF ThingMoved, TaskMoved, DateMoved
<1>16. DatesInv'
  <2>1. \A d \in Dates : date'[d].version > 0 => date'[d] = date[d]
    BY <1>7, NoRowFacts
  <2>2. ASSUME NEW u \in Things, Found(u)', thing'[u].into = None, thing'[u].deadline # None
        PROVE  \E d \in Dates : /\ date'[d].version > 0 /\ date'[d].thing = u
                                /\ date'[d].primary /\ date'[d].value = thing'[u].deadline
    <3>1. u # t /\ thing'[u] = thing[u] /\ Found(u)
      BY <1>4, <1>5, <2>2 DEF Found
    <3>2. PICK d \in Dates : /\ date[d].version > 0 /\ date[d].thing = u
                             /\ date[d].primary /\ date[d].value = thing[u].deadline
      BY <1>3, <2>2, <3>1 DEF DatesInv, DeadlineHasDate
    <3>3. QED
      BY <1>7, <3>1, <3>2
  <2>3. QED
    BY <1>3, <2>1, <2>2 DEF DatesInv, DeadlineHasDate
<1> HIDE DEF steps
<1>17. QED
  BY <1>1, <1>2, <1>5, <1>6, <1>7, <1>8, <1>9, <1>10, <1>13, <1>14, <1>15, <1>16, CommitStep

\* What belonged to the duplicate belongs to the canonical thing, at the same version.
LEMMA ApplyMergeThingsInv ==
    ASSUME PersonalInv, NEW c \in Clients, ApplyMergeThings(c)
    PROVE  PersonalInv'
<1> DEFINE t == at[c].req.thing
           u == at[c].req.args[1]
           new == MergedInto(at[c].seen, u)
           steps == {<<t, new.version>>}
<1>1. at[c] # Idle /\ at[c].req.op \in ThingOps /\ u \in Things
  BY OpenFacts DEF ApplyMergeThings, Doing, ThingOps, RequestOk
<1>2. /\ thing[t].version = at[c].seen.version /\ thing' = [thing EXCEPT ![t] = new]
      /\ RebindMergedReferences(t, u) /\ Commit(c, steps) /\ relations' = relations
  BY DEF ApplyMergeThings, UpdateThing
<1>3. /\ TypeOK /\ DatesInv
      /\ t \in Things /\ thing[t] = at[c].seen /\ at[c].seen \in ThingRow /\ thing[t].version > 0
  BY <1>1, <1>2, SeenFacts, OpenFacts
<1>4. new \in ThingRow /\ new.version = thing[t].version + 1 /\ new.into = u
  BY <1>1, <1>3, MergedFacts
<1> HIDE DEF t, u, new
<1>5. /\ thing' \in [Things -> ThingRow] /\ thing'[t] = new
      /\ \A v \in Things : v # t => thing'[v] = thing[v]
      /\ thing[t].version \in Nat
  BY <1>2, <1>3, <1>4 DEF TypeOK, ThingRow
<1>6. /\ task' \in [Tasks -> TaskRow]
      /\ \A k \in Tasks : task'[k].version = task[k].version /\ task'[k].status = task[k].status
  <2>1. ASSUME NEW row \in TaskRow
        PROVE  /\ Rebound(row, t, u) \in TaskRow /\ Rebound(row, t, u).version = row.version
               /\ Rebound(row, t, u).status = row.status
    BY <1>1 DEF Rebound, TaskRow
  <2>2. task \in [Tasks -> TaskRow] /\ task' = [k \in Tasks |-> Rebound(task[k], t, u)]
    BY <1>2, <1>3 DEF TypeOK, RebindMergedReferences
  <2>3. QED
    BY <2>1, <2>2
<1>7. /\ date' \in [Dates -> DateRow]
      /\ \A d \in Dates :
            /\ date'[d].version = date[d].version /\ date'[d].kind = date[d].kind
            /\ date'[d].primary = date[d].primary
            /\ date'[d].thing = IF date[d].thing = t THEN u ELSE date[d].thing
            /\ date[d].thing # t => date'[d] = date[d]
  <2>1. ASSUME NEW row \in DateRow
        PROVE  /\ Rebound(row, t, u) \in DateRow /\ Rebound(row, t, u).version = row.version
               /\ Rebound(row, t, u).kind = row.kind
               /\ Rebound(row, t, u).primary = row.primary
               /\ Rebound(row, t, u).thing = IF row.thing = t THEN u ELSE row.thing
               /\ row.thing # t => Rebound(row, t, u) = row
    BY <1>1 DEF Rebound, DateRow
  <2>2. date \in [Dates -> DateRow] /\ date' = [d \in Dates |-> Rebound(date[d], t, u)]
    BY <1>2, <1>3 DEF TypeOK, RebindMergedReferences
  <2>3. QED
    BY <2>1, <2>2
<1>8. /\ entry' \in [Entries -> EntryRow]
      /\ \A e \in Entries : entry'[e].version = entry[e].version
  <2>1. ASSUME NEW row \in EntryRow
        PROVE  Rebound(row, t, u) \in EntryRow /\ Rebound(row, t, u).version = row.version
    BY <1>1 DEF Rebound, EntryRow
  <2>2. entry \in [Entries -> EntryRow] /\ entry' = [e \in Entries |-> Rebound(entry[e], t, u)]
    BY <1>2, <1>3 DEF TypeOK, RebindMergedReferences
  <2>3. QED
    BY <2>1, <2>2
<1>9. /\ blocker' \in [Blockers -> BlockerRow]
      /\ \A b \in Blockers : blocker'[b].version = blocker[b].version
  <2>1. ASSUME NEW row \in BlockerRow
        PROVE  Rebound(row, t, u) \in BlockerRow /\ Rebound(row, t, u).version = row.version
    BY <1>1 DEF Rebound, BlockerRow
  <2>2. /\ blocker \in [Blockers -> BlockerRow]
        /\ blocker' = [b \in Blockers |-> Rebound(blocker[b], t, u)]
    BY <1>2, <1>3 DEF TypeOK, RebindMergedReferences
  <2>3. QED
    BY <2>1, <2>2
<1>10. relations' \subseteq Things \X Things
  BY <1>2, <1>3 DEF TypeOK
<1>11. Versions[t] = thing[t].version /\ Versions'[t] = new.version /\ t \in Ids
  BY <1>3, <1>5, VersionFacts DEF Ids
<1>12. \A id \in Ids : id # t => Versions'[id] = Versions[id]
  BY <1>5, <1>6, <1>7, <1>8, <1>9, VersionFacts DEF Ids
<1>13. StepsOk(c, steps) /\ \A s \in steps : Versions'[s[1]] = s[2]
  BY <1>3, <1>4, <1>5, <1>11 DEF StepsOk
<1>14. \A id \in Ids : \/ Versions'[id] = Versions[id] \/ Versions'[id] = 0
                       \/ \E s \in steps : s = <<id, Versions'[id]>>
  BY <1>11, <1>12
<1>15. /\ \A v \in Things : ThingMoved(thing[v], thing'[v])
       /\ \A k \in Tasks : TaskMoved(task[k], task'[k])
  BY <1>4, <1>5, <1>6 DEF ThingMoved, TaskMoved
<1>16. ASSUME NEW d \in Dates
       PROVE  DateMoved(thing, thing', date[d], date'[d], Used(audit, d))
  <2>1. CASE date[d].thing = t
    <3>1. thing'[t].version > thing[t].version
      BY <1>4, <1>5
    <3>2. QED
      BY <1>3, <1>7, <2>1, <3>1 DEF DateMoved
  <2>2. CASE date[d].thing # t
    BY <1>7, <2>2 DEF DateMoved
  <2>3. QED
    BY <2>1, <2>2
<1>17. DatesInv'
  <2>1. \A d \in Dates : date'[d].version > 0 => date'[d].thing \in Things
    BY <1>1, <1>3, <1>7 DEF DatesInv
  <2>2. ASSUME NEW v \in Things, Found(v)', thing'[v].into = None, thing'[v].deadline # None
        PROVE  \E d \in Dates : /\ date'[d].version > 0 /\ date'[d].thing = v
                                /\ date'[d].primary /\ date'[d].value = thing'[v].deadline
    <3>1. v # t
      BY <1>1, <1>4, <1>5, <2>2, PersonalStateAssumption
    <3>2. thing'[v] = thing[v] /\ Found(v)
      BY <1>5, <2>2, <3>1 DEF Found
    <3>3. PICK d \in Dates : /\ date[d].version > 0 /\ date[d].thing = v
                             /\ date[d].primary /\ date[d].value = thing[v].deadline
      BY <1>3, <2>2, <3>2 DEF DatesInv, DeadlineHasDate
    <3>4. QED
      BY <1>7, <3>1, <3>2, <3>3
  <2>3. QED
    BY <2>1, <2>2 DEF DatesInv, DeadlineHasDate
<1> HIDE DEF steps
<1>18. QED
  BY <1>1, <1>2, <1>5, <1>6, <1>7, <1>8, <1>9, <1>10, <1>13, <1>14, <1>15, <1>16, <1>17, CommitStep

-----------------------------------------------------------------------------
(* The specification *)

LEMMA PersonalInit ==
    ASSUME Init
    PROVE  PersonalInv
<1>1. NewThing \in ThingRow /\ NoThing \in ThingRow
  BY DEF NewThing, NoThing, ThingRow
<1>2. /\ NewThing.version = 1 /\ NoThing.version = 0
      /\ NewThing.deadline = None /\ NoThing.deadline = None
  BY DEF NewThing, NoThing
<1>3. /\ thing = [t \in Things |-> IF t \in Existing THEN NewThing ELSE NoThing]
      /\ task = [k \in Tasks |-> NoTask] /\ date = [d \in Dates |-> NoDate]
      /\ entry = [e \in Entries |-> NoEntry] /\ blocker = [b \in Blockers |-> NoBlocker]
      /\ relations = {} /\ audit = {} /\ issued = 0 /\ at = [c \in Clients |-> Idle]
  BY DEF Init
<1>4. TypeOK
  <2>1. issued \in 0..MaxRequests
    BY <1>3, PersonalStateAssumption
  <2>2. /\ thing \in [Things -> ThingRow] /\ task \in [Tasks -> TaskRow]
        /\ date \in [Dates -> DateRow] /\ entry \in [Entries -> EntryRow]
        /\ blocker \in [Blockers -> BlockerRow]
    BY <1>1, <1>3, NoRowFacts
  <2>3. /\ relations \subseteq Things \X Things /\ audit \subseteq MutationRow
        /\ DOMAIN at = Clients /\ \A c \in Clients : at[c] = Idle
    BY <1>3
  <2>4. QED
    BY <2>1, <2>2, <2>3 DEF TypeOK
<1>5. OpenInv /\ CreationInv
  BY <1>3 DEF OpenInv, CreationInv
<1>6. \A id \in Ids : Versions[id] = IF id \in Existing THEN 1 ELSE 0
  <2>1. \A t \in Things : Versions[t] = IF t \in Existing THEN 1 ELSE 0
    BY <1>2, <1>3, VersionFacts
  <2>2. \A x \in Tasks \cup Dates \cup Entries \cup Blockers : Versions[x] = 0
    BY <1>3, VersionFacts, NoRowFacts
  <2>3. \A x \in Tasks \cup Dates \cup Entries \cup Blockers : x \notin Existing
    BY PersonalStateAssumption
  <2>4. QED
    BY <2>1, <2>2, <2>3 DEF Ids
<1>7. AuditInv
  <2>1. \A id \in Ids : FirstVersion(id)..Versions[id] = {}
    BY <1>6 DEF FirstVersion
  <2>2. QED
    BY <1>3, <2>1 DEF AuditInv
<1>8. DatesInv
  BY <1>2, <1>3, NoRowFacts DEF DatesInv, DeadlineHasDate
<1>9. QED
  BY <1>4, <1>5, <1>7, <1>8 DEF PersonalInv

LEMMA PersonalStutter ==
    ASSUME PersonalInv, UNCHANGED vars
    PROVE  PersonalInv'
<1>1. /\ thing' = thing /\ task' = task /\ date' = date /\ entry' = entry
      /\ blocker' = blocker /\ relations' = relations /\ audit' = audit /\ issued' = issued
      /\ at' = at /\ Versions' = Versions
  BY VersionsKept DEF vars, tables
<1>2. QED
  BY <1>1 DEF PersonalInv, TypeOK, OpenInv, CreationInv, NotRecorded, AuditInv, DatesInv,
              DeadlineHasDate, Found

LEMMA PersonalNext ==
    ASSUME PersonalInv, [Next]_vars
    PROVE  PersonalInv'
<1>1. CASE UNCHANGED vars
  BY <1>1, PersonalStutter
<1>2. ASSUME NEW c \in Clients, ThingOperations(c)
      PROVE  PersonalInv'
  <2>1. CASE ApplyCreateThing(c)
    BY <2>1, ApplyCreateThingInv
  <2>2. CASE ApplyUpdateThing(c)
    BY <2>2, ApplyUpdateThingInv
  <2>3. CASE ApplyMergeThings(c)
    BY <2>3, ApplyMergeThingsInv
  <2>4. CASE ApplyChangeArchive(c)
    BY <2>4, ApplyChangeArchiveInv
  <2>5. CASE ApplyDeleteThing(c)
    BY <2>5, ApplyDeleteThingInv
  <2>6. CASE \/ CreateThing(c) \/ ChangeThingState(c) \/ DeleteThing(c) \/ MergeThings(c)
             \/ \E archive \in BOOLEAN : ArchiveThing(c, archive)
    BY <2>6, ThingRequestsInv
  <2>7. QED
    BY <1>2, <2>1, <2>2, <2>3, <2>4, <2>5, <2>6 DEF ThingOperations
<1>3. ASSUME NEW c \in Clients, TaskOperations(c)
      PROVE  PersonalInv'
  <2>1. CASE ApplyCreateTask(c)
    BY <2>1, ApplyCreateTaskInv
  <2>2. CASE ApplyCompleteTask(c)
    BY <2>2, ApplyCompleteTaskInv
  <2>3. CASE ApplySetDeadline(c)
    BY <2>3, ApplySetDeadlineInv
  <2>4. CASE ApplyTransitionTask(c)
    BY <2>4, ApplyTransitionTaskInv
  <2>5. CASE CreateTask(c) \/ CompleteTask(c) \/ TransitionTask(c)
    BY <2>5, TaskRequestsInv
  <2>6. CASE SetDeadline(c)
    BY <2>6, DateRequestsInv
  <2>7. QED
    BY <1>3, <2>1, <2>2, <2>3, <2>4, <2>5, <2>6 DEF TaskOperations
<1>4. ASSUME NEW c \in Clients, DateAndBlockerOperations(c)
      PROVE  PersonalInv'
  <2>1. CASE ApplyUpdateDate(c)
    BY <2>1, ApplyUpdateDateInv
  <2>2. CASE ApplyCreateBlocker(c)
    BY <2>2, ApplyCreateBlockerInv
  <2>3. CASE ApplyResolveBlocker(c)
    BY <2>3, ApplyResolveBlockerInv
  <2>4. CASE UpdateDate(c)
    BY <2>4, DateRequestsInv
  <2>5. CASE CreateBlocker(c) \/ ResolveBlocker(c)
    BY <2>5, BlockerRequestsInv
  <2>6. QED
    BY <1>4, <2>1, <2>2, <2>3, <2>4, <2>5 DEF DateAndBlockerOperations
<1>5. ASSUME NEW c \in Clients, ContextOperations(c)
      PROVE  PersonalInv'
  <2>1. CASE SetThingContext(c)
    BY <2>1, ContextRequestInv
  <2>2. CASE ApplySetThingContext(c)
    BY <2>2, ApplySetThingContextInv
  <2>3. CASE AddRelation(c)
    BY <2>3, ThingRequestsInv
  <2>4. CASE ApplyAddRelation(c)
    BY <2>4, ApplyAddRelationInv
  <2>5. QED
    BY <1>5, <2>1, <2>2, <2>3, <2>4 DEF ContextOperations
<1>6. QED
  BY <1>1, <1>2, <1>3, <1>4, <1>5, RollbackInv, AskAgainInv DEF Next

LEMMA PersonalAlways == Spec => []PersonalInv
BY PersonalInit, PersonalNext, PTL DEF Spec

-----------------------------------------------------------------------------
(* Results *)

\* The tables, the log of mutations and the open transactions keep their types, whatever the
\* requests (the ORM rows and MutationRow).
THEOREM PersonalTypeCorrect == Spec => []TypeOK
<1>1. PersonalInv => TypeOK
  BY DEF PersonalInv
<1>2. QED
  BY <1>1, PersonalAlways, PTL

\* Every version that a row has gone through was recorded by exactly one row of
\* state_mutations: no update of PersonalStateRepository is lost under a concurrent one and
\* none escapes the audit.
THEOREM VersionsAreAudited == Spec => []EveryVersionAudited
<1>1. ASSUME PersonalInv, NEW id \in Ids,
             NEW v \in (IF id \in Existing THEN 2 ELSE 1)..VersionOf(id)
      PROVE  Cardinality({m \in audit : <<id, v>> \in m.steps}) = 1
  <2>1. v \in FirstVersion(id)..Versions[id]
    BY <1>1 DEF FirstVersion, Versions
  <2>2. PICK m \in audit : <<id, v>> \in m.steps
    BY <1>1, <2>1 DEF PersonalInv, AuditInv
  <2>3. {n \in audit : <<id, v>> \in n.steps} = {m}
    BY <1>1, <2>2 DEF PersonalInv, AuditInv
  <2>4. QED
    BY <2>3, FS_Singleton
<1>2. PersonalInv => EveryVersionAudited
  BY <1>1 DEF EveryVersionAudited
<1>3. QED
  BY <1>2, PersonalAlways, PTL

\* The deadline of a current thing is the value of one of its primary dates, through every
\* deadline set or withdrawn, every primary mark lost, and every merge and deletion.
THEOREM DeadlinesHaveDates == Spec => []DeadlineHasDate
<1>1. PersonalInv => DeadlineHasDate
  BY DEF PersonalInv, DatesInv
<1>2. QED
  BY <1>1, PersonalAlways, PTL
=============================================================================
