------------------------------ MODULE Memories ------------------------------
(***************************************************************************)
(* Long-term memory: what the user asks to remember, revise and forget, and   *)
(* what the formation worker extracts from finished runs in the background.   *)
(*                                                                           *)
(* A write is one transaction in two steps: the reads and checks, and the     *)
(* writes up to the commit.  Creations are serialised by advisory locks that  *)
(* last as long as the transaction; revisions, supersessions and forgetting   *)
(* take no lock and rely on the version of the row.  A memory is known by its *)
(* content, which stands for its fingerprint too.  The extractor (a language  *)
(* model) and the facts of the personal state are external: any candidate, and*)
(* any of them a duplicate.                                                   *)
(***************************************************************************)
EXTENDS Integers, FiniteSets

CONSTANTS
    MemoryIds, Contents,
    ProfileKeys, ProfileKey,    \* profile_key_for
    Runs,                       \* finished runs with a formation job
    Workers, Clients,           \* formation workers; tool calls and API requests
    MaxCandidates,              \* bound: candidates of one pass
    MaxClaims,                  \* bound: deliveries of a job
    MaxRequests                 \* bound: requests of clients

None == "none"

ASSUME MemoriesAssumption ==
    /\ ProfileKey \in [Contents -> ProfileKeys]
    /\ None \notin Contents \cup ProfileKeys \cup Runs \cup MemoryIds \cup Workers
    /\ Workers \cap Clients = {}
    /\ MaxCandidates \in Nat /\ MaxClaims \in Nat /\ MaxRequests \in Nat

VARIABLES
    memory,     \* long_term_memories
    suppressed, \* memory_suppressions: the fingerprints
    operations, \* the keys of memory_operations
    job,        \* durable_jobs of kind MEMORY_FORMATION
    at,         \* what each worker and each client is doing
    issued      \* bound counter: requests so far

vars == <<memory, suppressed, operations, job, at, issued>>

Keys == (Runs \X Contents) \cup ({"request"} \X (1..MaxRequests))
OperationKeys == Keys \cup (Runs \X Contents \X {"supersede"})

MemoryRow == [version: Nat \ {0}, status: {"ACTIVE", "SUPERSEDED", "DELETED"},
              content: Contents, profile: ProfileKeys \cup {None}, key: Keys]
NoMemory == [version |-> 0, status |-> "NONE", content |-> None, profile |-> None, key |-> <<>>]

JobRow == [status: {"READY", "LEASED", "COMPLETED"}, owner: Workers \cup {None},
           epoch: 0..MaxClaims]

\* What a transaction has read and is going to write.
CreateTx == [op: {"create"}, content: Contents, profile: ProfileKeys \cup {None}, key: Keys,
             seen: SUBSET (MemoryIds \X MemoryRow)]
UpdateTx == [op: {"revise", "supersede", "forget"}, target: MemoryIds,
             content: Contents \cup {None}, key: OperationKeys, seen: MemoryRow]
NoTx == [op |-> "none"]

\* What is left of a supersession when it has been committed: the content of its successor.
SuccessorTx == [op: {"supersede"}, content: Contents]

Actor == [pc: {"idle", "claimed", "forming", "superseded", "failed", "tx"},
          run: Runs \cup {None}, epoch: 0..MaxClaims, found: SUBSET MemoryIds,
          left: 0..MaxCandidates, tx: CreateTx \cup UpdateTx \cup SuccessorTx \cup {NoTx}]
Idle == [pc |-> "idle", run |-> None, epoch |-> 0, found |-> {}, left |-> 0, tx |-> NoTx]

Actors == Workers \cup Clients

TypeOK ==
    /\ memory \in [MemoryIds -> MemoryRow \cup {NoMemory}]
    /\ suppressed \subseteq Contents
    /\ operations \subseteq OperationKeys
    /\ job \in [Runs -> JobRow]
    /\ at \in [Actors -> Actor]
    /\ issued \in 0..MaxRequests

Init ==
    /\ memory = [m \in MemoryIds |-> NoMemory]
    /\ suppressed = {}
    /\ operations = {}
    /\ job = [r \in Runs |-> [status |-> "READY", owner |-> None, epoch |-> 0]]
    /\ at = [a \in Actors |-> Idle]
    /\ issued = 0

-----------------------------------------------------------------------------
(* Entities and repository *)

Revised(row, c) == [row EXCEPT !.content = c, !.version = @ + 1]
Superseded(row) == [row EXCEPT !.status = "SUPERSEDED", !.version = @ + 1]
Forgotten(row) ==
    IF row.status = "DELETED" THEN row ELSE [row EXCEPT !.status = "DELETED", !.version = @ + 1]

\* search: only active memories are found.
Searchable == {m \in MemoryIds : memory[m].status = "ACTIVE"}

\* get_active_profile
ActiveProfile(p) == {m \in Searchable : p # None /\ memory[m].profile = p}

\* Faulty: the check for the key is left out.
RememberedNever(key) == FALSE

\* get_by_idempotency
Remembered(key) == \E m \in MemoryIds : memory[m].key = key

\* Faulty: the update does not look at the version.
UpdateAnyway(m, row, expected) == memory' = [memory EXCEPT ![m] = row]

\* update: every column that can change is written, if the version is the expected one.
Update(m, row, expected) ==
    /\ memory[m].version = expected
    /\ memory' = [memory EXCEPT ![m] = row]

-----------------------------------------------------------------------------
(* Transactions *)

\* Faulty: creations are not serialised.
LocksNone(p) == {}

\* The advisory locks of a creation, held until its transaction ends.
Locks(p) == {"memory-reconcile"} \cup ({p} \ {None})

Creating(a) == at[a].pc = "tx" /\ at[a].tx.op = "create"
Free(locks) == \A a \in Actors : Creating(a) => locks \cap Locks(at[a].tx.profile) = {}

IsWorker(a) == a \in Workers

\* Where an actor goes on when a transaction has ended: a client is done, a worker takes
\* its next candidate, and the supersession of a candidate comes before its creation.
After(a, op) ==
    IF ~IsWorker(a) THEN Idle
    ELSE IF op = "supersede" THEN [at[a] EXCEPT !.pc = "superseded"]
    ELSE [at[a] EXCEPT !.pc = "forming", !.left = @ - 1, !.tx = NoTx]

\* An exception ends the request, or the pass of a worker over its candidates.
Failed(a) == IF IsWorker(a) THEN [at[a] EXCEPT !.pc = "failed", !.tx = NoTx] ELSE Idle

Raise(a) ==
    /\ at' = [at EXCEPT ![a] = Failed(a)]
    /\ UNCHANGED <<memory, suppressed, operations, job>>

Skip(a, op) ==
    /\ at' = [at EXCEPT ![a] = After(a, op)]
    /\ UNCHANGED <<memory, suppressed, operations, job>>

Open(a, tx) ==
    /\ at' = [at EXCEPT ![a].pc = "tx", ![a].tx = tx]
    /\ UNCHANGED <<memory, suppressed, operations, job>>

\* is_suppressed
Refused(c) == c \in suppressed

\* apply_create_memory up to the row of the active profile.  Formation reconciles: it drops
\* a candidate that is suppressed or repeats the personal state, before the key is looked
\* up.  A thing or a source that is gone raises.
OpenCreate(a, c, p, key, reconcile) ==
    /\ Free(Locks(p))
    /\ \/ reconcile /\ Skip(a, "create")
       \/ /\ ~(reconcile /\ Refused(c))
          /\ IF Remembered(key)
                THEN Skip(a, "create")
                ELSE \/ Raise(a)
                     \/ Open(a, [op |-> "create", content |-> c, profile |-> p, key |-> key,
                                 seen |-> {<<m, memory[m]>> : m \in ActiveProfile(p)}])

\* The active profile is superseded, the memory added and its suppression cleared.
CommitCreate(a) ==
    LET tx == at[a].tx
    IN /\ Creating(a)
       /\ \A s \in tx.seen : memory[s[1]].version = s[2].version
       /\ \E m \in MemoryIds :
            /\ memory[m] = NoMemory
            /\ memory' = [n \in MemoryIds |->
                  IF n = m THEN [version |-> 1, status |-> "ACTIVE", key |-> tx.key,
                                 content |-> tx.content, profile |-> tx.profile]
                  ELSE IF \E s \in tx.seen : s[1] = n THEN Superseded(memory[n])
                  ELSE memory[n]]
       /\ suppressed' = suppressed \ {tx.content}
       /\ at' = [at EXCEPT ![a] = After(a, "create")]
       /\ UNCHANGED <<operations, job, issued>>

\* update and apply_forget_memory: a key that is recorded is a replay; a revision needs an
\* active memory and a supersession one that is not deleted.
OpenUpdate(a, op, m, c, key) ==
    IF key \in operations
       THEN Skip(a, op)
       ELSE IF \/ memory[m].status = "NONE"
               \/ op = "revise" /\ memory[m].status # "ACTIVE"
               \/ op = "supersede" /\ memory[m].status = "DELETED"
               THEN Raise(a)
               ELSE Open(a, [op |-> op, target |-> m, content |-> c, key |-> key,
                             seen |-> memory[m]])

Updated(tx) ==
    CASE tx.op = "revise" -> Revised(tx.seen, tx.content)
      [] tx.op = "supersede" -> Superseded(tx.seen)
      [] tx.op = "forget" -> Forgotten(tx.seen)

CommitUpdate(a) ==
    LET tx == at[a].tx
    IN /\ at[a].pc = "tx" /\ ~Creating(a)
       /\ Update(tx.target, Updated(tx), tx.seen.version)
       /\ tx.key \notin operations
       /\ operations' = operations \cup {tx.key}
       /\ suppressed' = IF tx.op = "forget" THEN suppressed \cup {tx.seen.content} ELSE suppressed
       /\ at' = [at EXCEPT ![a] = After(a, tx.op)]
       /\ UNCHANGED <<job, issued>>

\* A version conflict, a key that was recorded meanwhile, or any other error.
Abort(a) ==
    /\ at[a].pc = "tx"
    /\ Raise(a)
    /\ UNCHANGED issued

-----------------------------------------------------------------------------
(* Clients: memory_remember, memory_forget and the API *)

Request(c) ==
    /\ at[c] = Idle
    /\ issued < MaxRequests
    /\ issued' = issued + 1

RequestKey == <<"request", issued + 1>>

\* apply_explicit_remember and create: nothing is reconciled.
Remember(c) ==
    /\ Request(c)
    /\ \E content \in Contents, p \in {None} \cup ProfileKeys :
        /\ p \in {None, ProfileKey[content]}
        /\ OpenCreate(c, content, p, RequestKey, FALSE)

Forget(c) ==
    /\ Request(c)
    /\ \E m \in MemoryIds : OpenUpdate(c, "forget", m, None, RequestKey)

\* PATCH without delete.
Patch(c) ==
    /\ Request(c)
    /\ \E m \in MemoryIds :
        \/ \E content \in Contents : OpenUpdate(c, "revise", m, content, RequestKey)
        \/ OpenUpdate(c, "supersede", m, None, RequestKey)

-----------------------------------------------------------------------------
(* The formation worker *)

\* claim_ready_jobs: a lease is not renewed, so that a job that is being worked on may be
\* claimed once more.
ClaimJob(w, r) ==
    /\ at[w] = Idle
    /\ job[r].status \in {"READY", "LEASED"}
    /\ job[r].epoch < MaxClaims
    /\ job' = [job EXCEPT ![r] = [status |-> "LEASED", owner |-> w, epoch |-> @.epoch + 1]]
    /\ at' = [at EXCEPT ![w] = [Idle EXCEPT !.pc = "claimed", !.run = r,
                                            !.epoch = job'[r].epoch]]
    /\ UNCHANGED <<memory, suppressed, operations, issued>>

\* form_from_event searches the memories and asks the extractor for candidates, or fails.
Extract(w) ==
    /\ at[w].pc = "claimed"
    /\ \/ at' = [at EXCEPT ![w] = [@ EXCEPT !.pc = "forming", !.found = Searchable,
                                            !.left = MaxCandidates]]
       \/ at' = [at EXCEPT ![w].pc = "failed"]
    /\ UNCHANGED <<memory, suppressed, operations, job, issued>>

\* _apply: the key is made of the run and the content.
FormCreate(w) ==
    /\ at[w].pc = "forming"
    /\ at[w].left > 0
    /\ \E c \in Contents, p \in {None} \cup ProfileKeys :
        /\ p \in {None, ProfileKey[c]}
        /\ OpenCreate(w, c, p, <<at[w].run, c>>, TRUE)
    /\ UNCHANGED issued

FormUpdate(w) ==
    /\ at[w].pc = "forming"
    /\ at[w].left > 0
    /\ \E m \in at[w].found, c \in Contents :
        \/ OpenUpdate(w, "revise", m, c, <<at[w].run, c>>)
        \/ /\ <<at[w].run, c, "supersede">> \notin operations
           /\ OpenUpdate(w, "supersede", m, c, <<at[w].run, c, "supersede">>)
        \/ /\ <<at[w].run, c, "supersede">> \in operations
           /\ at' = [at EXCEPT ![w].pc = "superseded", ![w].tx = [op |-> "supersede", content |-> c]]
           /\ UNCHANGED <<memory, suppressed, operations, job>>
    /\ UNCHANGED issued

\* The second half of a superseding candidate, in a transaction of its own.
FormSuccessor(w) ==
    /\ at[w].pc = "superseded"
    /\ LET c == at[w].tx.content
       IN \E p \in {None, ProfileKey[c]} : OpenCreate(w, c, p, <<at[w].run, c>>, TRUE)
    /\ UNCHANGED issued

\* The job is completed whether the pass went through or raised.
Settle(w) ==
    LET r == at[w].run
    IN /\ at[w].pc \in {"forming", "failed"}
       /\ job' = IF job[r].status = "LEASED" /\ job[r].owner = w /\ job[r].epoch = at[w].epoch
                    THEN [job EXCEPT ![r].status = "COMPLETED", ![r].owner = None]
                    ELSE job
       /\ at' = [at EXCEPT ![w] = Idle]
       /\ UNCHANGED <<memory, suppressed, operations, issued>>

\* The worker dies: an open transaction is rolled back, the lease stays.
Crash(w) ==
    /\ at[w] # Idle
    /\ at' = [at EXCEPT ![w] = Idle]
    /\ UNCHANGED <<memory, suppressed, operations, job, issued>>

ClientStep(c) == Remember(c) \/ Forget(c) \/ Patch(c)
WorkerStep(w) ==
    \/ \E r \in Runs : ClaimJob(w, r)
    \/ Extract(w)
    \/ FormCreate(w) \/ FormUpdate(w) \/ FormSuccessor(w)
    \/ Settle(w) \/ Crash(w)

Next ==
    \/ \E c \in Clients : ClientStep(c)
    \/ \E w \in Workers : WorkerStep(w)
    \/ \E a \in Actors : CommitCreate(a) \/ CommitUpdate(a) \/ Abort(a)

Spec == Init /\ [][Next]_vars

-----------------------------------------------------------------------------
(* Properties *)

\* At most one active memory per profile key: a creation supersedes the one it has read,
\* and the advisory locks keep another creation from adding one in between.  The unique
\* index uq_memories_active_profile_key is not part of the model, so it never fires.
OneActiveProfile ==
    \A p \in ProfileKeys : Cardinality(ActiveProfile(p)) <= 1

\* A run forms each of its contents once, although its job may be delivered to two workers
\* at once, to a second one after a crash, and although the memory may have been revised,
\* superseded or forgotten since.
FormedOnce ==
    \A k \in Runs \X Contents : Cardinality({m \in MemoryIds : memory[m].key = k}) <= 1

\* A memory that the user has forgotten keeps its content and its status, whatever a
\* writer that loaded it before does.
ForgottenIsFinal ==
    [][\A m \in MemoryIds : memory[m].status = "DELETED" => memory'[m] = memory[m]]_vars

\* A formation job never makes a suppressed content current again.  It is not so: UPDATE
\* and MERGE candidates are written without a look at the suppressions, and forgetting
\* does not take the lock under which a creation has looked at them.
FormationRespectsForget ==
    [][\A m \in MemoryIds :
            /\ memory'[m].status = "ACTIVE"
            /\ memory'[m].content \in suppressed
            /\ memory'[m].content # memory[m].content
            => \A w \in Workers : at'[w] = at[w]]_vars
=============================================================================
