---------------------------- MODULE PersonalState ----------------------------
(***************************************************************************)
(* Things and what hangs on them (tasks, dates, context entries, blockers,    *)
(* relations), written by agent tools and by the product API at once.         *)
(*                                                                           *)
(* Every write is one database transaction in two steps: the statements that  *)
(* look up the idempotency key, load the rows and validate, and the           *)
(* statements that write, up to the commit.  Other transactions commit in     *)
(* between.  A transaction that misses a version or breaks a unique index     *)
(* rolls back as a whole, and so does one whose process dies.                 *)
(*                                                                           *)
(* A request names the version its client has read; a request that is already *)
(* stale when it arrives is refused without a write and is left out, as is    *)
(* the replay of a key that has been applied.  Texts are abstract: what a     *)
(* revision writes is its new version.                                        *)
(***************************************************************************)
EXTENDS Integers, FiniteSets

CONSTANTS
    Things, Tasks, Dates, Entries, Blockers,    \* row identifiers
    Existing,       \* the things there are at the start
    Kinds, Values,  \* date types, and the instants a date can have
    Clients,        \* tool calls and API requests that run at once
    MaxRequests     \* bound: requests, each with its idempotency key

None == "none"

\* Identifiers are UUIDs, so that no two rows of any tables share one.
ASSUME PersonalStateAssumption ==
    /\ MaxRequests \in Nat
    /\ Existing \subseteq Things
    /\ None \notin Things \cup Tasks \cup Dates \cup Entries \cup Blockers \cup Values
    /\ Kinds # {} /\ Values # {}
    /\ Things \cap (Tasks \cup Dates \cup Entries \cup Blockers) = {}
    /\ Tasks \cap (Dates \cup Entries \cup Blockers) = {}
    /\ Dates \cap (Entries \cup Blockers) = {}
    /\ Entries \cap Blockers = {}
    /\ IsFiniteSet(Clients)

VARIABLES
    thing, task, date, entry, blocker,  \* the tables; version 0: no such row
    relations,  \* thing_relations
    audit,      \* state_mutations
    issued,     \* the keys that clients have used
    at          \* the transaction each client has open

tables == <<thing, task, date, entry, blocker, relations>>
vars == <<tables, audit, issued, at>>

Keys == 1..MaxRequests

ThingRow == [version: Nat, archived: BOOLEAN, deleted: BOOLEAN,
             into: Things \cup {None}, deadline: Values \cup {None}]
TaskRow == [version: Nat, thing: Things \cup {None}, recurring: BOOLEAN,
            status: {"TODO", "DONE", "CANCELLED"}]
DateRow == [version: Nat, thing: Things \cup {None}, kind: Kinds, value: Values,
            primary: BOOLEAN]
EntryRow == [version: Nat, thing: Things \cup {None}]
BlockerRow == [version: Nat, thing: Things \cup {None}, task: Tasks \cup {None},
               open: BOOLEAN]

Ids == Things \cup Tasks \cup Dates \cup Entries \cup Blockers

\* A row of state_mutations: before and after are the rows it moved to a new version.
\* A write that changes nothing is recorded too, with no steps.
MutationRow == [key: Keys, steps: SUBSET (Ids \X Nat)]

Idle == [pc |-> "idle"]

TypeOK ==
    /\ thing \in [Things -> ThingRow]
    /\ task \in [Tasks -> TaskRow]
    /\ date \in [Dates -> DateRow]
    /\ entry \in [Entries -> EntryRow]
    /\ blocker \in [Blockers -> BlockerRow]
    /\ relations \subseteq Things \X Things
    /\ audit \subseteq MutationRow
    /\ issued \in 0..MaxRequests
    /\ DOMAIN at = Clients
    /\ \A c \in Clients : at[c] # Idle => at[c].key \in 1..issued

NewThing == [version |-> 1, archived |-> FALSE, deleted |-> FALSE, into |-> None,
             deadline |-> None]
NoThing == [NewThing EXCEPT !.version = 0]
NewTask(t, recurring) ==
    [version |-> 1, thing |-> t, recurring |-> recurring, status |-> "TODO"]
NewDate(t, kind, value, primary) ==
    [version |-> 1, thing |-> t, kind |-> kind, value |-> value, primary |-> primary]
NewEntry(t) == [version |-> 1, thing |-> t]
NewBlocker(t, k) == [version |-> 1, thing |-> t, task |-> k, open |-> TRUE]

AnyKind == CHOOSE kind \in Kinds : TRUE
AnyValue == CHOOSE value \in Values : TRUE

NoTask == [NewTask(None, FALSE) EXCEPT !.version = 0]
NoDate == [NewDate(None, AnyKind, AnyValue, FALSE) EXCEPT !.version = 0]
NoEntry == [NewEntry(None) EXCEPT !.version = 0]
NoBlocker == [NewBlocker(None, None) EXCEPT !.version = 0]

Init ==
    /\ thing = [t \in Things |-> IF t \in Existing THEN NewThing ELSE NoThing]
    /\ task = [k \in Tasks |-> NoTask]
    /\ date = [d \in Dates |-> NoDate]
    /\ entry = [e \in Entries |-> NoEntry]
    /\ blocker = [b \in Blockers |-> NoBlocker]
    /\ relations = {}
    /\ audit = {}
    /\ issued = 0
    /\ at = [c \in Clients |-> Idle]

-----------------------------------------------------------------------------
(* Entities *)

Touched(row) == [row EXCEPT !.version = @ + 1]

\* set_primary_deadline
WithDeadline(row, value) == Touched([row EXCEPT !.deadline = value])

\* archive and unarchive return early when there is nothing to change.
ArchivedTo(row, archive) ==
    IF row.archived = archive THEN row ELSE Touched([row EXCEPT !.archived = archive])

MergedInto(row, t) == Touched([row EXCEPT !.into = t])

Deleted(row) == Touched([row EXCEPT !.deleted = TRUE])

\* complete: a done task stays as it is, a recurring one is due again.
Completed(row) ==
    CASE row.status = "DONE" -> row
      [] row.status # "DONE" /\ row.recurring -> Touched(row)
      [] OTHER -> Touched([row EXCEPT !.status = "DONE"])

\* transition_to: the targets that are not refused.
Targets(row) == IF row.status = "TODO" THEN {"DONE", "CANCELLED"} ELSE {"TODO"}
TransitionedTo(row, status) ==
    IF status = "DONE" THEN Completed(row) ELSE Touched([row EXCEPT !.status = status])

RevisedDate(row, value, primary) ==
    Touched([row EXCEPT !.value = value, !.primary = primary])

Resolved(row) == Touched([row EXCEPT !.open = FALSE])

-----------------------------------------------------------------------------
(* Repositories *)

\* things.get: archived and merged things are found, deleted ones are not.
Found(t) == thing[t].version > 0 /\ ~thing[t].deleted

\* Faulty: the update writes the row without the version in its condition.
UpdateThingAnyway(t, row, expected) == thing' = [thing EXCEPT ![t] = row]

\* The update writes every column of the row that was loaded.
UpdateThing(t, row, expected) ==
    /\ thing[t].version = expected
    /\ thing' = [thing EXCEPT ![t] = row]

UpdateTask(k, row, expected) ==
    /\ task[k].version = expected
    /\ task' = [task EXCEPT ![k] = [row EXCEPT !.thing = task[k].thing]]

\* unset_primary leaves the version of the date alone.
PrimaryUnset(t, kind) ==
    [d \in Dates |-> IF date[d].thing = t /\ date[d].kind = kind
                        THEN [date[d] EXCEPT !.primary = FALSE] ELSE date[d]]

\* The thing and the kind of a date are not among the columns written.
UpdatedDate(dates, d, row) == [dates EXCEPT ![d] = [row EXCEPT !.thing = dates[d].thing]]

UpdateEntry(e, row, expected) ==
    /\ entry[e].version = expected
    /\ entry' = [entry EXCEPT ![e] = [row EXCEPT !.thing = entry[e].thing]]

UpdateBlocker(b, row, expected) ==
    /\ blocker[b].version = expected
    /\ blocker' = [blocker EXCEPT ![b] = [blocker[b] EXCEPT !.open = row.open,
                                                           !.version = row.version]]

DetachTasks(t) ==
    task' = [k \in Tasks |-> IF task[k].thing = t THEN [task[k] EXCEPT !.thing = None] ELSE task[k]]

DeleteOwnedComponents(t) ==
    /\ date' = [d \in Dates |-> IF date[d].thing = t THEN NoDate ELSE date[d]]
    /\ entry' = [e \in Entries |-> IF entry[e].thing = t THEN NoEntry ELSE entry[e]]
    /\ blocker' = [b \in Blockers |-> IF blocker[b].thing = t THEN NoBlocker ELSE blocker[b]]
    /\ relations' = {r \in relations : t \notin {r[1], r[2]}}

Rebound(row, t, u) == IF row.thing = t THEN [row EXCEPT !.thing = u] ELSE row

\* rebind_merged_references, under the unique index on the primary dates of a kind.
\* Versions stay, and so does the row of the canonical thing.
RebindMergedReferences(t, u) ==
    /\ task' = [k \in Tasks |-> Rebound(task[k], t, u)]
    /\ date' = [d \in Dates |-> Rebound(date[d], t, u)]
    /\ entry' = [e \in Entries |-> Rebound(entry[e], t, u)]
    /\ blocker' = [b \in Blockers |-> Rebound(blocker[b], t, u)]

\* uq_thing_dates_primary_kind
OnePrimaryPerKind ==
    \A d, e \in Dates :
        /\ date[d].version > 0 /\ date[e].version > 0
        /\ date[d].primary /\ date[e].primary
        /\ date[d].thing = date[e].thing /\ date[d].kind = date[e].kind
        => d = e

-----------------------------------------------------------------------------
(* Transactions *)

RowOf(table, id) ==
    CASE table = "task" -> task[id]
      [] table = "date" -> date[id]
      [] table = "entry" -> entry[id]
      [] table = "blocker" -> blocker[id]
      [] OTHER -> NoEntry

\* A request: what it does, the thing and the row of a table it names, its arguments.
Request(op, t, table, id, args) ==
    [op |-> op, thing |-> t, table |-> table, item |-> id, args |-> args]

\* A new transaction: the key is looked up, the rows are loaded.
Opened(key, r) ==
    [pc |-> "open", key |-> key, req |-> r,
     seen |-> IF r.thing = None THEN NoThing ELSE thing[r.thing],
     row |-> RowOf(r.table, r.item)]

Ask(c, r) ==
    /\ at[c] = Idle
    /\ issued < MaxRequests
    /\ issued' = issued + 1
    /\ at' = [at EXCEPT ![c] = Opened(issued + 1, r)]
    /\ UNCHANGED <<tables, audit>>

\* The same request once more, under the same key, while the first is under way: an
\* HTTP retry, or a tool call that another worker took over.
AskAgain(c, b) ==
    /\ at[c] = Idle
    /\ at[b] # Idle
    /\ LET mine == Opened(at[b].key, at[b].req)
       IN /\ mine.seen.version = at[b].seen.version
          /\ mine.row.version = at[b].row.version
          /\ at' = [at EXCEPT ![c] = mine]
    /\ UNCHANGED <<tables, audit, issued>>

Doing(c, op) == at[c] # Idle /\ at[c].req.op = op

Moved(id, old, new) == IF new.version = old.version THEN {} ELSE {<<id, new.version>>}

\* The mutation, with its timeline event, and the commit.  idempotency_key is unique.
Commit(c, steps) ==
    /\ \A m \in audit : m.key # at[c].key
    /\ audit' = audit \cup {[key |-> at[c].key, steps |-> steps]}
    /\ at' = [at EXCEPT ![c] = Idle]
    /\ UNCHANGED issued

\* A version conflict, a broken index, an error or the end of the process.
Rollback(c) ==
    /\ at[c] # Idle
    /\ at' = [at EXCEPT ![c] = Idle]
    /\ UNCHANGED <<tables, audit, issued>>

\* A new row gets an identifier that no row has had.
Unused(id) ==
    /\ \A m \in audit : \A s \in m.steps : s[1] # id
    /\ \A c \in Clients : at[c] # Idle => id \notin {at[c].req.item, at[c].req.thing}

-----------------------------------------------------------------------------
(* Things *)

CreateThing(c) ==
    \E t \in Things \ Existing :
        Unused(t) /\ Ask(c, Request("create_thing", t, None, None, <<>>))

ApplyCreateThing(c) ==
    /\ Doing(c, "create_thing")
    /\ LET t == at[c].req.thing
       IN /\ thing' = [thing EXCEPT ![t] = NewThing]
          /\ Commit(c, {<<t, 1>>})
    /\ UNCHANGED <<task, date, entry, blocker, relations>>

\* COMPLETE, CANCEL and REACTIVATE, and the edits of the product API.
ChangeThingState(c) ==
    \E t \in Things : Found(t) /\ Ask(c, Request("update_thing", t, None, None, <<>>))

ApplyUpdateThing(c) ==
    /\ Doing(c, "update_thing")
    /\ LET t == at[c].req.thing
           new == Touched(at[c].seen)
       IN /\ UpdateThing(t, new, at[c].seen.version)
          /\ Commit(c, {<<t, new.version>>})
    /\ UNCHANGED <<task, date, entry, blocker, relations>>

ArchiveThing(c, archive) ==
    \E t \in Things : Found(t) /\ Ask(c, Request("change_archive", t, None, None, <<archive>>))

ApplyChangeArchive(c) ==
    /\ Doing(c, "change_archive")
    /\ LET t == at[c].req.thing
           new == ArchivedTo(at[c].seen, at[c].req.args[1])
       IN /\ UpdateThing(t, new, at[c].seen.version)
          /\ Commit(c, Moved(t, at[c].seen, new))
    /\ UNCHANGED <<task, date, entry, blocker, relations>>

DeleteThing(c) ==
    \E t \in Things :
        /\ Found(t)
        /\ thing[t].into = None
        /\ Ask(c, Request("delete_thing", t, None, None, <<>>))

ApplyDeleteThing(c) ==
    /\ Doing(c, "delete_thing")
    /\ LET t == at[c].req.thing
           new == Deleted(at[c].seen)
       IN /\ DetachTasks(t)
          /\ DeleteOwnedComponents(t)
          /\ UpdateThing(t, new, at[c].seen.version)
          /\ Commit(c, {<<t, new.version>>})

\* Both versions are compared, the canonical thing may be a merged one itself.
MergeThings(c) ==
    \E t, u \in Things :
        /\ t # u
        /\ Found(t) /\ Found(u)
        /\ thing[t].into = None
        /\ Ask(c, Request("merge_things", t, None, None, <<u>>))

ApplyMergeThings(c) ==
    /\ Doing(c, "merge_things")
    /\ LET t == at[c].req.thing
           u == at[c].req.args[1]
           new == MergedInto(at[c].seen, u)
       IN /\ UpdateThing(t, new, at[c].seen.version)
          /\ RebindMergedReferences(t, u)
          /\ OnePrimaryPerKind'
          /\ Commit(c, {<<t, new.version>>})
    /\ UNCHANGED relations

AddRelation(c) ==
    \E t, u \in Things :
        /\ t # u
        /\ Found(t) /\ Found(u)
        /\ Ask(c, Request("add_relation", t, None, None, <<u>>))

\* Neither thing is fenced; a relation that is there already is not added again.
ApplyAddRelation(c) ==
    /\ Doing(c, "add_relation")
    /\ relations' = relations \cup {<<at[c].req.thing, at[c].req.args[1]>>}
    /\ Commit(c, {})
    /\ UNCHANGED <<thing, task, date, entry, blocker>>

-----------------------------------------------------------------------------
(* Tasks *)

CreateTask(c) ==
    \E k \in Tasks, t \in Things \cup {None}, recurring \in BOOLEAN :
        /\ Unused(k)
        /\ t # None => Found(t)
        /\ Ask(c, Request("create_task", t, "task", k, <<recurring>>))

\* The thing is not fenced: it may be gone by now.
ApplyCreateTask(c) ==
    /\ Doing(c, "create_task")
    /\ LET r == at[c].req
       IN /\ task' = [task EXCEPT ![r.item] = NewTask(r.thing, r.args[1])]
          /\ Commit(c, {<<r.item, 1>>})
    /\ UNCHANGED <<thing, date, entry, blocker, relations>>

CompleteTask(c) ==
    \E k \in Tasks :
        /\ task[k].version > 0
        /\ task[k].status # "CANCELLED"
        /\ Ask(c, Request("complete_task", None, "task", k, <<>>))

ApplyCompleteTask(c) ==
    /\ Doing(c, "complete_task")
    /\ LET k == at[c].req.item
           new == Completed(at[c].row)
       IN /\ UpdateTask(k, new, at[c].row.version)
          /\ Commit(c, Moved(k, at[c].row, new))
    /\ UNCHANGED <<thing, date, entry, blocker, relations>>

TransitionTask(c) ==
    \E k \in Tasks : \E status \in Targets(task[k]) :
        /\ task[k].version > 0
        /\ Ask(c, Request("transition_task", None, "task", k, <<status>>))

ApplyTransitionTask(c) ==
    /\ Doing(c, "transition_task")
    /\ LET k == at[c].req.item
           new == TransitionedTo(at[c].row, at[c].req.args[1])
       IN /\ UpdateTask(k, new, at[c].row.version)
          /\ Commit(c, {<<k, new.version>>})
    /\ UNCHANGED <<thing, date, entry, blocker, relations>>

-----------------------------------------------------------------------------
(* Dates, context entries, blockers *)

\* Only a confirmed date can be primary; certainty is left out.
SetDeadline(c) ==
    \E d \in Dates, t \in Things, kind \in Kinds, value \in Values, primary \in BOOLEAN :
        /\ Unused(d)
        /\ Found(t)
        /\ Ask(c, Request("set_deadline", t, "date", d, <<kind, value, primary>>))

ApplySetDeadline(c) ==
    /\ Doing(c, "set_deadline")
    /\ LET r == at[c].req
           kind == r.args[1]
           value == r.args[2]
           primary == r.args[3]
           new == IF primary THEN WithDeadline(at[c].seen, value) ELSE at[c].seen
           dates == IF primary THEN PrimaryUnset(r.thing, kind) ELSE date
       IN /\ IF primary THEN UpdateThing(r.thing, new, at[c].seen.version) ELSE UNCHANGED thing
          /\ date' = [dates EXCEPT ![r.item] = NewDate(r.thing, kind, value, primary)]
          /\ Commit(c, {<<r.item, 1>>} \cup Moved(r.thing, at[c].seen, new))
    /\ UNCHANGED <<task, entry, blocker, relations>>

UpdateDate(c) ==
    \E d \in Dates, value \in Values, primary \in BOOLEAN :
        /\ date[d].version > 0
        /\ Found(date[d].thing)
        /\ Ask(c, Request("update_date", date[d].thing, "date", d, <<value, primary>>))

\* Faulty: a date that stops being primary leaves the deadline of its thing.
KeptDeadline(seen, row, value, primary) ==
    IF primary THEN WithDeadline(seen, value) ELSE seen

\* The thing after one of its dates was revised.
RevisedDeadline(seen, row, value, primary) ==
    CASE primary -> WithDeadline(seen, value)
      [] ~primary /\ row.primary -> WithDeadline(seen, None)
      [] OTHER -> seen

\* The thing is written, and fenced, only when the revision changes it.
ApplyUpdateDate(c) ==
    /\ Doing(c, "update_date")
    /\ LET r == at[c].req
           seen == at[c].seen
           row == at[c].row
           value == r.args[1]
           primary == r.args[2]
           new == RevisedDeadline(seen, row, value, primary)
           dates == IF primary THEN PrimaryUnset(r.thing, row.kind) ELSE date
       IN /\ IF new = seen THEN UNCHANGED thing ELSE UpdateThing(r.thing, new, seen.version)
          /\ date[r.item].version = row.version
          /\ date' = UpdatedDate(dates, r.item, RevisedDate(row, value, primary))
          /\ Commit(c, {<<r.item, row.version + 1>>} \cup Moved(r.thing, seen, new))
    /\ UNCHANGED <<task, entry, blocker, relations>>

\* Without an entry the request creates one, otherwise it revises the entry of the thing.
SetThingContext(c) ==
    \E e \in Entries, t \in Things :
        /\ Found(t)
        /\ Unused(e) \/ (entry[e].version > 0 /\ entry[e].thing = t)
        /\ Ask(c, Request("set_thing_context", t, "entry", e, <<>>))

ApplySetThingContext(c) ==
    /\ Doing(c, "set_thing_context")
    /\ LET e == at[c].req.item
           row == at[c].row
       IN IF row.version = 0
             THEN /\ entry' = [entry EXCEPT ![e] = NewEntry(at[c].req.thing)]
                  /\ Commit(c, {<<e, 1>>})
             ELSE /\ UpdateEntry(e, Touched(row), row.version)
                  /\ Commit(c, {<<e, row.version + 1>>})
    /\ UNCHANGED <<thing, task, date, blocker, relations>>

\* The blocked task, when there is one, must be a task of the thing.
CreateBlocker(c) ==
    \E b \in Blockers, t \in Things, k \in Tasks \cup {None} :
        /\ Unused(b)
        /\ Found(t)
        /\ k # None => task[k].version > 0 /\ task[k].thing = t
        /\ Ask(c, Request("create_blocker", t, "blocker", b, <<k>>))

ApplyCreateBlocker(c) ==
    /\ Doing(c, "create_blocker")
    /\ LET r == at[c].req
       IN /\ blocker' = [blocker EXCEPT ![r.item] = NewBlocker(r.thing, r.args[1])]
          /\ Commit(c, {<<r.item, 1>>})
    /\ UNCHANGED <<thing, task, date, entry, relations>>

ResolveBlocker(c) ==
    \E b \in Blockers :
        /\ blocker[b].version > 0
        /\ blocker[b].open
        /\ Ask(c, Request("resolve_blocker", None, "blocker", b, <<>>))

ApplyResolveBlocker(c) ==
    /\ Doing(c, "resolve_blocker")
    /\ LET b == at[c].req.item
       IN /\ UpdateBlocker(b, Resolved(at[c].row), at[c].row.version)
          /\ Commit(c, {<<b, at[c].row.version + 1>>})
    /\ UNCHANGED <<thing, task, date, entry, relations>>

(* The operations of PersonalStateApplicationService: the request, then the
   transaction that applies it and commits. *)

ThingOperations(c) ==
    \/ CreateThing(c) \/ ApplyCreateThing(c)
    \/ ChangeThingState(c) \/ ApplyUpdateThing(c)
    \/ MergeThings(c) \/ ApplyMergeThings(c)
    \/ (\E archive \in BOOLEAN : ArchiveThing(c, archive)) \/ ApplyChangeArchive(c)
    \/ DeleteThing(c) \/ ApplyDeleteThing(c)

TaskOperations(c) ==
    \/ CreateTask(c) \/ ApplyCreateTask(c)
    \/ CompleteTask(c) \/ ApplyCompleteTask(c)
    \/ SetDeadline(c) \/ ApplySetDeadline(c)
    \/ TransitionTask(c) \/ ApplyTransitionTask(c)

DateAndBlockerOperations(c) ==
    \/ UpdateDate(c) \/ ApplyUpdateDate(c)
    \/ CreateBlocker(c) \/ ApplyCreateBlocker(c)
    \/ ResolveBlocker(c) \/ ApplyResolveBlocker(c)

ContextOperations(c) ==
    \/ SetThingContext(c) \/ ApplySetThingContext(c)
    \/ AddRelation(c) \/ ApplyAddRelation(c)

Next ==
    \E c \in Clients :
        \/ ThingOperations(c) \/ TaskOperations(c)
        \/ DateAndBlockerOperations(c) \/ ContextOperations(c)
        \/ Rollback(c)
        \/ \E b \in Clients : AskAgain(c, b)

Spec == Init /\ [][Next]_vars

-----------------------------------------------------------------------------
(* Properties *)

VersionOf(id) ==
    CASE id \in Things -> thing[id].version
      [] id \in Tasks -> task[id].version
      [] id \in Dates -> date[id].version
      [] id \in Entries -> entry[id].version
      [] id \in Blockers -> blocker[id].version

\* Every version a row has gone through was recorded by exactly one mutation: two
\* concurrent writes never produce the same version (a lost update), and no write
\* escapes the audit.  The rows that are there at the start have version 1.
EveryVersionAudited ==
    \A id \in Ids :
        \A v \in (IF id \in Existing THEN 2 ELSE 1)..VersionOf(id) :
            Cardinality({m \in audit : <<id, v>> \in m.steps}) = 1

\* The deadline of a current thing is the value of one of its primary dates, although
\* the two are in two tables, dates lose the primary mark without a new version, and
\* merges move dates between things.
DeadlineHasDate ==
    \A t \in Things :
        Found(t) /\ thing[t].into = None /\ thing[t].deadline # None =>
            \E d \in Dates : /\ date[d].version > 0
                             /\ date[d].thing = t
                             /\ date[d].primary
                             /\ date[d].value = thing[t].deadline

\* _resolve_active_thing: the thing that the redirects of t lead to.
Canonical(t) ==
    LET hop[n \in 0..Cardinality(Things)] ==
            IF n = 0 THEN t
            ELSE IF thing[hop[n - 1]].into = None THEN hop[n - 1] ELSE thing[hop[n - 1]].into
    IN hop[Cardinality(Things)]

\* Every redirect leads to a thing that is not merged itself, so what is known of a
\* merged thing can be found (rebind_merged_references relies on it).  It is not so:
\* A is merged into B, then B into A, and both resolve to an error.
RedirectsResolve == \A t \in Things : thing[Canonical(t)].into = None
=============================================================================
