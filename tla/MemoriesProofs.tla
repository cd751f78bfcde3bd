--------------------------- MODULE MemoriesProofs ---------------------------
(***************************************************************************)
(* Long-term memory proved correct for any sets of memories, contents, runs,  *)
(* workers and clients and any values of the bounds: type correctness, one     *)
(* active memory per profile key, one memory per run and content, and the      *)
(* finality of forgetting.                                                   *)
(*                                                                           *)
(* Two facts carry the argument.  The advisory lock that all creations share   *)
(* leaves at most one of them open, and what that one has found out (its key    *)
(* is new, and every active memory of its profile is among those it supersedes)*)
(* stays so until it ends, because no other transaction adds a memory or makes  *)
(* one active.  And a row that still has the version a transaction has read is  *)
(* the row it has read, because every write that changes a row advances it.     *)
(***************************************************************************)
EXTENDS Memories, FiniteSetTheorems, TLAPS

-----------------------------------------------------------------------------
(* The inductive invariant *)

\* The row of a memory has moved on since it was read, or is still the row that was read.
Fresh(read, row) ==
    /\ read.version <= row.version
    /\ read.version = row.version => read = row

\* What an open transaction has checked holds of the rows it has read.
ReadsSound(table, tx) ==
    /\ tx.op = "create" => \A s \in tx.seen : s[2].status = "ACTIVE" /\ Fresh(s[2], table[s[1]])
    /\ tx.op # "create" => Fresh(tx.seen, table[tx.target])
    /\ tx.op = "revise" => tx.content \in Contents /\ tx.seen.status = "ACTIVE"
    /\ tx.op = "supersede" => tx.seen.status # "DELETED"

\* What an actor is doing, as far as its program counter tells it.
Sound(table, a, rec) ==
    /\ rec.pc = "tx" => rec.tx \in CreateTx \cup UpdateTx /\ ReadsSound(table, rec.tx)
    /\ a \in Clients => rec.pc \in {"idle", "tx"}
    /\ a \in Workers /\ rec.pc # "idle" => rec.run \in Runs
    /\ a \in Workers /\ rec.pc \in {"tx", "superseded"} => rec.left > 0
    /\ a \in Workers /\ rec.pc = "tx" => rec.tx.content \in Contents
    /\ rec.pc = "superseded" => rec.tx.content \in Contents

\* What a creation relies on when it commits.
StillNew(table, tx) ==
    /\ \A m \in MemoryIds : table[m].key # tx.key
    /\ \A m \in MemoryIds :
        tx.profile # None /\ table[m].status = "ACTIVE" /\ table[m].profile = tx.profile
        => \E s \in tx.seen : s[1] = m

ActorsInv == \A a \in Actors : Sound(memory, a, at[a])

CreationsInv ==
    /\ \A a, b \in Actors : Creating(a) /\ Creating(b) => a = b
    /\ \A a \in Actors : Creating(a) => StillNew(memory, at[a].tx)

RowsInv ==
    \A m, n \in MemoryIds :
        /\ memory[m].status # "NONE" /\ memory[n].key = memory[m].key => m = n
        /\ /\ memory[m].status = "ACTIVE" /\ memory[n].status = "ACTIVE"
           /\ memory[m].profile # None /\ memory[n].profile = memory[m].profile
           => m = n

MemoriesInv == TypeOK /\ ActorsInv /\ CreationsInv /\ RowsInv

-----------------------------------------------------------------------------
(* What a write does to one row *)

\* A row that a write has changed.
Advanced(old, new) ==
    /\ old \in MemoryRow /\ new \in MemoryRow
    /\ new.version = old.version + 1
    /\ new.key = old.key /\ new.profile = old.profile
    /\ new.status = "ACTIVE" => old.status = "ACTIVE"
    /\ old.status # "DELETED"

Moved(old, new) == new = old \/ Advanced(old, new) \/ old = NoMemory

\* There is no memory behind a missing row.
LEMMA NoMemoryFacts ==
    /\ NoMemory.version = 0 /\ NoMemory.status = "NONE"
    /\ \A row \in MemoryRow : /\ row # NoMemory /\ row.status # "NONE"
                              /\ row.version \in Nat /\ row.version > 0
<1>1. NoMemory.version = 0 /\ NoMemory.status = "NONE"
  BY DEF NoMemory
<1>2. ASSUME NEW row \in MemoryRow
      PROVE  row.status # "NONE" /\ row.version \in Nat /\ row.version > 0
  BY DEF MemoryRow
<1>3. QED
  BY <1>1, <1>2

\* Revising an active memory advances it and leaves its status, key and profile.
LEMMA RevisedFacts ==
    ASSUME NEW row \in MemoryRow, NEW c \in Contents, row.status = "ACTIVE"
    PROVE  Advanced(row, Revised(row, c))
<1> DEFINE v == row.version + 1
<1>1. v \in Nat \ {0}
  BY DEF MemoryRow
<1>2. Revised(row, c) = [row EXCEPT !.content = c, !.version = v]
  BY DEF Revised
<1> HIDE DEF v
<1>3. [row EXCEPT !.content = c, !.version = v] \in MemoryRow
  BY <1>1 DEF MemoryRow
<1>4. QED
  BY <1>2, <1>3 DEF Advanced, MemoryRow, v

\* Superseding a memory that is not deleted advances it.
LEMMA SupersededFacts ==
    ASSUME NEW row \in MemoryRow, row.status # "DELETED"
    PROVE  Advanced(row, Superseded(row))
<1> DEFINE v == row.version + 1
<1>1. v \in Nat \ {0}
  BY DEF MemoryRow
<1>2. Superseded(row) = [row EXCEPT !.status = "SUPERSEDED", !.version = v]
  BY DEF Superseded
<1> HIDE DEF v
<1>3. [row EXCEPT !.status = "SUPERSEDED", !.version = v] \in MemoryRow
  BY <1>1 DEF MemoryRow
<1>4. QED
  BY <1>2, <1>3 DEF Advanced, MemoryRow, v

\* Forgetting advances a memory unless it is deleted already.
LEMMA ForgottenFacts ==
    ASSUME NEW row \in MemoryRow
    PROVE  Forgotten(row) = row \/ Advanced(row, Forgotten(row))
<1>1. CASE row.status = "DELETED"
  BY <1>1 DEF Forgotten
<1>2. CASE row.status # "DELETED"
  <2> DEFINE v == row.version + 1
  <2>1. v \in Nat \ {0}
    BY DEF MemoryRow
  <2>2. Forgotten(row) = [row EXCEPT !.status = "DELETED", !.version = v]
    BY <1>2 DEF Forgotten
  <2> HIDE DEF v
  <2>3. [row EXCEPT !.status = "DELETED", !.version = v] \in MemoryRow
    BY <2>1 DEF MemoryRow
  <2>4. QED
    BY <1>2, <2>2, <2>3 DEF Advanced, MemoryRow, v
<1>3. QED
  BY <1>1, <1>2

\* What an update writes is the row it has read or the next version of it.
LEMMA UpdatedFacts ==
    ASSUME NEW table, NEW tx \in UpdateTx, ReadsSound(table, tx)
    PROVE  Updated(tx) = tx.seen \/ Advanced(tx.seen, Updated(tx))
<1>1. tx.seen \in MemoryRow /\ tx.op \in {"revise", "supersede", "forget"}
  BY DEF UpdateTx
<1>2. CASE tx.op = "revise"
  <2>1. Updated(tx) = Revised(tx.seen, tx.content)
    BY <1>2 DEF Updated
  <2>2. tx.content \in Contents /\ tx.seen.status = "ACTIVE"
    BY <1>2 DEF ReadsSound
  <2>3. QED
    BY <1>1, <2>1, <2>2, RevisedFacts
<1>3. CASE tx.op = "supersede"
  <2>1. Updated(tx) = Superseded(tx.seen)
    BY <1>3 DEF Updated
  <2>2. tx.seen.status # "DELETED"
    BY <1>3 DEF ReadsSound
  <2>3. QED
    BY <1>1, <2>1, <2>2, SupersededFacts
<1>4. CASE tx.op = "forget"
  <2>1. Updated(tx) = Forgotten(tx.seen)
    BY <1>4 DEF Updated
  <2>2. QED
    BY <1>1, <2>1, ForgottenFacts
<1>5. QED
  BY <1>1, <1>2, <1>3, <1>4

\* A write leaves what has been read fresh.
LEMMA FreshKept ==
    ASSUME NEW read \in MemoryRow, NEW old \in MemoryRow \cup {NoMemory}, NEW new,
           Fresh(read, old), Moved(old, new)
    PROVE  Fresh(read, new) /\ old # NoMemory
<1>1. old # NoMemory
  BY NoMemoryFacts DEF Fresh
<1>2. CASE new = old
  BY <1>1, <1>2
<1>3. CASE Advanced(old, new)
  <2>1. read.version \in Nat /\ old.version \in Nat /\ new.version = old.version + 1
    BY <1>1, <1>3, NoMemoryFacts DEF Advanced
  <2>2. read.version < new.version
    BY <2>1 DEF Fresh
  <2>3. QED
    BY <1>1, <2>1, <2>2 DEF Fresh
<1>4. QED
  BY <1>1, <1>2, <1>3 DEF Moved

\* So an open transaction stays sound, whatever the others write.
LEMMA ReadsKept ==
    ASSUME NEW old \in [MemoryIds -> MemoryRow \cup {NoMemory}], NEW new,
           \A m \in MemoryIds : Moved(old[m], new[m]),
           NEW tx \in CreateTx \cup UpdateTx, ReadsSound(old, tx)
    PROVE  ReadsSound(new, tx)
<1>1. ASSUME tx.op = "create", NEW s \in tx.seen
      PROVE  s[2].status = "ACTIVE" /\ Fresh(s[2], new[s[1]])
  <2>1. tx \in CreateTx
    BY <1>1 DEF UpdateTx
  <2>2. s[1] \in MemoryIds /\ s[2] \in MemoryRow
    BY <1>1, <2>1 DEF CreateTx
  <2>3. s[2].status = "ACTIVE" /\ Fresh(s[2], old[s[1]])
    BY <1>1 DEF ReadsSound
  <2>4. QED
    BY <2>2, <2>3, FreshKept
<1>2. ASSUME tx.op # "create"
      PROVE  Fresh(tx.seen, new[tx.target])
  <2>1. tx \in UpdateTx
    BY <1>2 DEF CreateTx
  <2>2. tx.target \in MemoryIds /\ tx.seen \in MemoryRow
    BY <2>1 DEF UpdateTx
  <2>3. Fresh(tx.seen, old[tx.target])
    BY <1>2 DEF ReadsSound
  <2>4. QED
    BY <2>2, <2>3, FreshKept
<1>3. QED
  BY <1>1, <1>2 DEF ReadsSound

-----------------------------------------------------------------------------
(* Where an actor goes on *)

\* An actor that has nothing open is sound if its run and its program counter agree.
LEMMA IdleFacts ==
    ASSUME NEW a \in Actors, NEW table
    PROVE  Idle \in Actor /\ Sound(table, a, Idle) /\ Idle.pc = "idle"
<1>1. 0 \in 0..MaxClaims /\ 0 \in 0..MaxCandidates
  BY MemoriesAssumption
<1>2. Idle \in Actor
  BY <1>1 DEF Idle, Actor
<1>3. QED
  BY <1>2 DEF Idle, Sound

\* What a worker may be doing when a transaction of it begins or ends.
Busy(rec) == rec.run \in Runs /\ rec.left > 0

\* A worker that takes its next candidate.
LEMMA NextCandidateFacts ==
    ASSUME NEW rec \in Actor, Busy(rec), NEW w \in Workers, NEW table
    PROVE  LET new == [rec EXCEPT !.pc = "forming", !.left = @ - 1, !.tx = NoTx]
           IN  new \in Actor /\ Sound(table, w, new) /\ new.pc # "tx"
<1> DEFINE l == rec.left - 1
           new == [rec EXCEPT !.pc = "forming", !.left = l, !.tx = NoTx]
<1>1. l \in 0..MaxCandidates
  BY MemoriesAssumption DEF Actor, Busy
<1>2. w \notin Clients
  BY MemoriesAssumption
<1> HIDE DEF l
<1>3. new \in Actor
  BY <1>1 DEF Actor
<1>4. new.pc = "forming" /\ new.run \in Runs
  BY DEF Actor, Busy
<1>5. Sound(table, w, new)
  BY <1>2, <1>4 DEF Sound
<1>6. QED
  BY <1>3, <1>4, <1>5 DEF l

\* A worker whose pass has failed.
LEMMA FailedFacts ==
    ASSUME NEW a \in Actors, TypeOK, NEW table,
           a \in Workers => at[a].run \in Runs
    PROVE  Failed(a) \in Actor /\ Sound(table, a, Failed(a)) /\ Failed(a).pc # "tx"
<1>1. CASE a \notin Workers
  BY <1>1, IdleFacts DEF Failed, IsWorker
<1>2. CASE a \in Workers
  <2> DEFINE new == [at[a] EXCEPT !.pc = "failed", !.tx = NoTx]
  <2>1. at[a] \in Actor /\ a \notin Clients
    BY <1>2, MemoriesAssumption DEF TypeOK
  <2>2. new \in Actor /\ new.pc = "failed" /\ new.run = at[a].run
    BY <2>1 DEF Actor
  <2>3. Failed(a) = new
    BY <1>2 DEF Failed, IsWorker
  <2>4. Sound(table, a, new)
    BY <1>2, <2>1, <2>2 DEF Sound
  <2>5. QED
    BY <2>2, <2>3, <2>4
<1>3. QED
  BY <1>1, <1>2

\* An actor whose transaction has ended.
LEMMA AfterFacts ==
    ASSUME NEW a \in Actors, TypeOK, NEW table, NEW op,
           a \in Workers => Busy(at[a]),
           op = "supersede" /\ a \in Workers => at[a].tx.content \in Contents
    PROVE  After(a, op) \in Actor /\ Sound(table, a, After(a, op)) /\ After(a, op).pc # "tx"
<1>1. CASE a \notin Workers
  BY <1>1, IdleFacts DEF After, IsWorker
<1>2. CASE a \in Workers /\ op = "supersede"
  <2> DEFINE new == [at[a] EXCEPT !.pc = "superseded"]
  <2>1. at[a] \in Actor /\ a \notin Clients
    BY <1>2, MemoriesAssumption DEF TypeOK
  <2>2. /\ new \in Actor /\ new.pc = "superseded"
        /\ new.run = at[a].run /\ new.left = at[a].left /\ new.tx = at[a].tx
    BY <2>1 DEF Actor
  <2>3. After(a, op) = new
    BY <1>2 DEF After, IsWorker
  <2>4. Sound(table, a, new)
    BY <1>2, <2>1, <2>2 DEF Sound, Busy
  <2>5. QED
    BY <2>2, <2>3, <2>4
<1>3. CASE a \in Workers /\ op # "supersede"
  <2>1. at[a] \in Actor
    BY DEF TypeOK
  <2> DEFINE new == [at[a] EXCEPT !.pc = "forming", !.left = @ - 1, !.tx = NoTx]
  <2>2. After(a, op) = new
    BY <1>3 DEF After, IsWorker
  <2>3. new \in Actor /\ Sound(table, a, new) /\ new.pc # "tx"
    BY <1>3, <2>1, NextCandidateFacts
  <2>4. QED
    BY <2>2, <2>3
<1>4. QED
  BY <1>1, <1>2, <1>3

-----------------------------------------------------------------------------
(* Steps that write no memory *)

\* One actor goes on, no memory is written.  A creation may be opened only when no other is
\* open and with its checks made.
LEMMA QuietStep ==
    ASSUME MemoriesInv, memory' = memory, suppressed' = suppressed, operations' = operations,
           job' \in [Runs -> JobRow], issued' \in 0..MaxRequests,
           NEW a \in Actors, NEW new \in Actor, at' = [at EXCEPT ![a] = new],
           Sound(memory, a, new),
           new.pc = "tx" /\ new.tx.op = "create" =>
               StillNew(memory, new.tx) /\ \A b \in Actors : ~Creating(b)
    PROVE  MemoriesInv'
<1>1. TypeOK /\ ActorsInv /\ CreationsInv /\ RowsInv
  BY DEF MemoriesInv
<1>2. at \in [Actors -> Actor]
  BY <1>1 DEF TypeOK
<1>3. at'[a] = new /\ \A b \in Actors : b # a => at'[b] = at[b]
  BY <1>2
<1>4. TypeOK'
  BY <1>1, <1>2 DEF TypeOK
<1>5. ActorsInv'
  BY <1>1, <1>3 DEF ActorsInv
<1>6. CreationsInv'
  <2>1. ASSUME NEW b \in Actors, Creating(b)'
        PROVE  StillNew(memory, at'[b].tx) /\ (b # a => Creating(b))
    BY <1>1, <1>3, <2>1 DEF CreationsInv, Creating
  <2>2. ASSUME NEW b \in Actors, Creating(b)', NEW c \in Actors, Creating(c)'
        PROVE  b = c
    <3>1. CASE b # a /\ c # a
      BY <1>1, <2>1, <2>2, <3>1 DEF CreationsInv
    <3>2. CASE b # a /\ c = a
      BY <1>3, <2>1, <2>2, <3>2 DEF Creating
    <3>3. CASE b = a /\ c # a
      BY <1>3, <2>1, <2>2, <3>3 DEF Creating
    <3>4. QED
      BY <3>1, <3>2, <3>3
  <2>3. QED
    BY <2>1, <2>2 DEF CreationsInv
<1>7. RowsInv'
  BY <1>1 DEF RowsInv
<1>8. QED
  BY <1>4, <1>5, <1>6, <1>7 DEF MemoriesInv

\* An exception ends the request or the pass.
LEMMA RaiseStep ==
    ASSUME MemoriesInv, NEW a \in Actors, Raise(a), issued' \in 0..MaxRequests,
           a \in Workers => at[a].run \in Runs
    PROVE  MemoriesInv'
<1> DEFINE new == Failed(a)
<1>1. /\ at' = [at EXCEPT ![a] = new]
      /\ memory' = memory /\ suppressed' = suppressed /\ operations' = operations
      /\ job' = job
  BY DEF Raise
<1>2. TypeOK
  BY DEF MemoriesInv
<1>3. new \in Actor /\ Sound(memory, a, new) /\ new.pc # "tx"
  BY <1>2, FailedFacts
<1>4. job' \in [Runs -> JobRow]
  BY <1>1, <1>2 DEF TypeOK
<1> HIDE DEF new
<1>5. QED
  BY <1>1, <1>3, <1>4, QuietStep

\* There is nothing to do: a replay, or a candidate that is dropped.
LEMMA SkipStep ==
    ASSUME MemoriesInv, NEW a \in Actors, NEW op, Skip(a, op), issued' \in 0..MaxRequests,
           a \in Workers => Busy(at[a]) /\ op # "supersede"
    PROVE  MemoriesInv'
<1> DEFINE new == After(a, op)
<1>1. /\ at' = [at EXCEPT ![a] = new]
      /\ memory' = memory /\ suppressed' = suppressed /\ operations' = operations
      /\ job' = job
  BY DEF Skip
<1>2. TypeOK
  BY DEF MemoriesInv
<1>3. new \in Actor /\ Sound(memory, a, new) /\ new.pc # "tx"
  BY <1>2, AfterFacts
<1>4. job' \in [Runs -> JobRow]
  BY <1>1, <1>2 DEF TypeOK
<1> HIDE DEF new
<1>5. QED
  BY <1>1, <1>3, <1>4, QuietStep

\* A transaction is opened after its reads.
LEMMA OpenStep ==
    ASSUME MemoriesInv, NEW a \in Actors, NEW tx \in CreateTx \cup UpdateTx, Open(a, tx),
           issued' \in 0..MaxRequests, ReadsSound(memory, tx),
           a \in Workers => Busy(at[a]) /\ tx.content \in Contents,
           tx.op = "create" => StillNew(memory, tx) /\ \A b \in Actors : ~Creating(b)
    PROVE  MemoriesInv'
<1> DEFINE new == [at[a] EXCEPT !.pc = "tx", !.tx = tx]
<1>1. TypeOK /\ at[a] \in Actor
  BY DEF MemoriesInv, TypeOK
<1>2. at' = [at EXCEPT ![a] = new]
  BY <1>1 DEF Open, TypeOK
<1>3. /\ memory' = memory /\ suppressed' = suppressed /\ operations' = operations
      /\ job' \in [Runs -> JobRow]
  BY <1>1 DEF Open, TypeOK
<1>4. /\ new \in Actor /\ new.pc = "tx" /\ new.tx = tx
      /\ new.run = at[a].run /\ new.left = at[a].left
  BY <1>1 DEF Actor
<1> HIDE DEF new
<1>5. Sound(memory, a, new)
  BY <1>4 DEF Sound, Busy
<1>6. QED
  BY <1>2, <1>3, <1>4, <1>5, QuietStep

\* The locks that all creations take keep two of them from being open at once.
LEMMA LocksExclude ==
    ASSUME NEW p, Free(Locks(p))
    PROVE  \A b \in Actors : ~Creating(b)
BY DEF Free, Locks

\* apply_create_memory up to its reads.
LEMMA OpenCreateStep ==
    ASSUME MemoriesInv, NEW a \in Actors, NEW c \in Contents, NEW p \in {None} \cup ProfileKeys,
           NEW key \in Keys, NEW reconcile \in BOOLEAN, OpenCreate(a, c, p, key, reconcile),
           issued' \in 0..MaxRequests,
           a \in Workers => Busy(at[a])
    PROVE  MemoriesInv'
<1>1. CASE Skip(a, "create")
  BY <1>1, SkipStep
<1>2. CASE Raise(a)
  BY <1>2, RaiseStep DEF Busy
<1>3. ASSUME ~Remembered(key),
             Open(a, [op |-> "create", content |-> c, profile |-> p, key |-> key,
                      seen |-> {<<m, memory[m]>> : m \in ActiveProfile(p)}])
      PROVE  MemoriesInv'
  <2> DEFINE seen == {<<m, memory[m]>> : m \in ActiveProfile(p)}
             tx == [op |-> "create", content |-> c, profile |-> p, key |-> key, seen |-> seen]
  <2>1. memory \in [MemoryIds -> MemoryRow \cup {NoMemory}]
    BY DEF MemoriesInv, TypeOK
  <2>2. \A m \in ActiveProfile(p) : m \in MemoryIds /\ memory[m].status = "ACTIVE"
    BY DEF ActiveProfile, Searchable
  <2>3. \A m \in ActiveProfile(p) : memory[m] \in MemoryRow
    BY <2>1, <2>2, NoMemoryFacts
  <2>4. seen \in SUBSET (MemoryIds \X MemoryRow)
    BY <2>2, <2>3
  <2>5. \A s \in seen : s[2].status = "ACTIVE" /\ Fresh(s[2], memory[s[1]])
    <3>1. ASSUME NEW m \in ActiveProfile(p)
          PROVE  memory[m].status = "ACTIVE" /\ Fresh(memory[m], memory[m])
      <4>1. memory[m].version \in Nat
        BY <2>3, NoMemoryFacts
      <4>2. QED
        BY <2>2, <4>1 DEF Fresh
    <3>2. QED
      BY <3>1
  <2>6. ASSUME NEW m \in MemoryIds, p # None, memory[m].status = "ACTIVE", memory[m].profile = p
        PROVE  \E s \in seen : s[1] = m
    <3>1. m \in ActiveProfile(p)
      BY <2>6 DEF ActiveProfile, Searchable
    <3>2. <<m, memory[m]>> \in seen
      BY <3>1
    <3>3. QED
      BY <3>2
  <2> HIDE DEF seen
  <2>7. tx \in CreateTx
    BY <2>4 DEF CreateTx
  <2>8. /\ tx.op = "create" /\ tx.content = c /\ tx.profile = p /\ tx.key = key
        /\ tx.seen = seen
    OBVIOUS
  <2>9. Open(a, tx)
    BY <1>3 DEF seen
  <2> HIDE DEF tx
  <2>10. ReadsSound(memory, tx)
    BY <2>5, <2>8 DEF ReadsSound
  <2>11. StillNew(memory, tx)
    BY <1>3, <2>6, <2>8 DEF StillNew, Remembered
  <2>12. \A b \in Actors : ~Creating(b)
    BY LocksExclude DEF OpenCreate
  <2>13. QED
    BY <2>7, <2>8, <2>9, <2>10, <2>11, <2>12, OpenStep
<1>4. QED
  BY <1>1, <1>2, <1>3 DEF OpenCreate

\* update and apply_forget_memory up to their reads.
LEMMA OpenUpdateStep ==
    ASSUME MemoriesInv, NEW a \in Actors, NEW op \in {"revise", "supersede", "forget"},
           NEW m \in MemoryIds, NEW c \in Contents \cup {None}, NEW key \in OperationKeys,
           OpenUpdate(a, op, m, c, key), issued' \in 0..MaxRequests,
           op = "revise" \/ a \in Workers => c \in Contents,
           a \in Workers => Busy(at[a]) /\ (op = "supersede" => key \notin operations)
    PROVE  MemoriesInv'
<1>1. CASE key \in operations
  <2>1. Skip(a, op)
    BY <1>1 DEF OpenUpdate
  <2>2. QED
    BY <1>1, <2>1, SkipStep
<1>2. CASE key \notin operations
  <2> DEFINE tx == [op |-> op, target |-> m, content |-> c, key |-> key, seen |-> memory[m]]
  <2>1. CASE Raise(a)
    BY <2>1, RaiseStep DEF Busy
  <2>2. CASE /\ Open(a, tx)
             /\ memory[m].status # "NONE"
             /\ op = "revise" => memory[m].status = "ACTIVE"
             /\ op = "supersede" => memory[m].status # "DELETED"
    <3>1. memory[m] \in MemoryRow
      BY <2>2, NoMemoryFacts DEF MemoriesInv, TypeOK
    <3>2. tx \in UpdateTx
      BY <3>1 DEF UpdateTx
    <3>3. tx.op = op /\ tx.target = m /\ tx.content = c /\ tx.seen = memory[m]
      OBVIOUS
    <3> HIDE DEF tx
    <3>4. Fresh(memory[m], memory[m])
      BY <3>1, NoMemoryFacts DEF Fresh
    <3>5. ReadsSound(memory, tx)
      BY <2>2, <3>3, <3>4 DEF ReadsSound
    <3>6. QED
      BY <2>2, <3>2, <3>3, <3>5, OpenStep
  <2>3. QED
    BY <1>2, <2>1, <2>2 DEF OpenUpdate
<1>3. QED
  BY <1>1, <1>2
-----------------------------------------------------------------------------
(* Steps that write memories *)

\* A transaction commits: rows move, its actor has nothing open any more, and a memory may
\* be added only by a creation.
LEMMA CommitStep ==
    ASSUME MemoriesInv,
           memory' \in [MemoryIds -> MemoryRow \cup {NoMemory}],
           suppressed' \subseteq Contents, operations' \subseteq OperationKeys,
           job' = job, issued' = issued,
           NEW a \in Actors, NEW new \in Actor, at' = [at EXCEPT ![a] = new],
           Sound(memory', a, new), new.pc # "tx",
           \A m \in MemoryIds : Moved(memory[m], memory'[m]),
           Creating(a) \/ \A m \in MemoryIds : memory[m] = NoMemory => memory'[m] = NoMemory,
           RowsInv'
    PROVE  MemoriesInv'
<1>1. TypeOK /\ ActorsInv /\ CreationsInv
  BY DEF MemoriesInv
<1>2. /\ at \in [Actors -> Actor]
      /\ memory \in [MemoryIds -> MemoryRow \cup {NoMemory}]
  BY <1>1 DEF TypeOK
<1>3. at'[a] = new /\ \A b \in Actors : b # a => at'[b] = at[b]
  BY <1>2
<1>4. TypeOK'
  BY <1>1, <1>2 DEF TypeOK
<1>5. ActorsInv'
  <2>1. ASSUME NEW b \in Actors, b # a
        PROVE  Sound(memory', b, at[b])
    <3>1. Sound(memory, b, at[b])
      BY <1>1 DEF ActorsInv
    <3>2. ASSUME at[b].pc = "tx"
          PROVE  ReadsSound(memory', at[b].tx)
      <4>1. at[b].tx \in CreateTx \cup UpdateTx /\ ReadsSound(memory, at[b].tx)
        BY <3>1, <3>2 DEF Sound
      <4>2. QED
        BY <1>2, <4>1, ReadsKept
    <3>3. QED
      BY <3>1, <3>2 DEF Sound
  <2>2. QED
    BY <1>3, <2>1 DEF ActorsInv
<1>6. CreationsInv'
  <2>1. ASSUME NEW b \in Actors, Creating(b)'
        PROVE  b # a /\ Creating(b) /\ at'[b] = at[b]
    BY <1>3, <2>1 DEF Creating
  <2>2. ASSUME NEW b \in Actors, Creating(b)'
        PROVE  StillNew(memory', at'[b].tx)
    <3> DEFINE tx == at[b].tx
    <3>1. b # a /\ Creating(b) /\ at'[b] = at[b]
      BY <2>1, <2>2
    <3>2. StillNew(memory, tx) /\ ~Creating(a)
      BY <1>1, <3>1 DEF CreationsInv
    <3>3. ASSUME NEW m \in MemoryIds
          PROVE  /\ memory'[m].key = memory[m].key /\ memory'[m].profile = memory[m].profile
                 /\ memory'[m].status = "ACTIVE" => memory[m].status = "ACTIVE"
      BY <3>2 DEF Moved, Advanced
    <3> HIDE DEF tx
    <3>4. StillNew(memory', tx)
      BY <3>2, <3>3 DEF StillNew
    <3>5. QED
      BY <3>1, <3>4 DEF tx
  <2>3. QED
    BY <1>1, <2>1, <2>2 DEF CreationsInv
<1>7. QED
  BY <1>4, <1>5, <1>6 DEF MemoriesInv

\* What a memory that is about to be superseded or revised is now: the row that was read.
LEMMA FreshRead ==
    ASSUME NEW read, NEW row, Fresh(read, row), row.version = read.version
    PROVE  row = read
BY DEF Fresh

\* apply_create_memory commits: the rows it has read as active are superseded, and one
\* memory is added.
LEMMA CommitCreateMoves ==
    ASSUME MemoriesInv, NEW a \in Actors, Creating(a), CommitCreate(a)
    PROVE  /\ at[a].tx \in CreateTx
           /\ \A s \in at[a].tx.seen : s[1] \in MemoryIds /\ memory[s[1]] = s[2]
                                       /\ memory[s[1]] \in MemoryRow
                                       /\ memory[s[1]].status = "ACTIVE"
<1> DEFINE tx == at[a].tx
<1>1. at[a] \in Actor /\ Sound(memory, a, at[a])
  BY DEF MemoriesInv, ActorsInv, TypeOK
<1>2. tx \in CreateTx /\ ReadsSound(memory, tx) /\ tx.op = "create"
  BY <1>1 DEF Sound, Creating, UpdateTx
<1>3. \A s \in tx.seen : memory[s[1]].version = s[2].version
  BY DEF CommitCreate
<1> HIDE DEF tx
<1>4. ASSUME NEW s \in tx.seen
      PROVE  /\ s[1] \in MemoryIds /\ memory[s[1]] = s[2] /\ memory[s[1]] \in MemoryRow
             /\ memory[s[1]].status = "ACTIVE"
  <2>1. s[1] \in MemoryIds /\ s[2] \in MemoryRow
    BY <1>2 DEF CreateTx
  <2>2. s[2].status = "ACTIVE" /\ Fresh(s[2], memory[s[1]])
    BY <1>2 DEF ReadsSound
  <2>3. memory[s[1]] = s[2]
    BY <1>3, <2>2, FreshRead
  <2>4. QED
    BY <2>1, <2>2, <2>3
<1>5. QED
  BY <1>2, <1>4 DEF tx

LEMMA CommitCreateInv ==
    ASSUME MemoriesInv, NEW a \in Actors, CommitCreate(a)
    PROVE  MemoriesInv'
<1> DEFINE tx == at[a].tx
           new == After(a, "create")
<1>1. Creating(a)
  BY DEF CommitCreate
<1>2. /\ TypeOK /\ RowsInv /\ StillNew(memory, tx)
      /\ memory \in [MemoryIds -> MemoryRow \cup {NoMemory}]
      /\ at[a] \in Actor /\ Sound(memory, a, at[a])
  BY <1>1 DEF MemoriesInv, TypeOK, CreationsInv, ActorsInv
<1>3. tx \in CreateTx /\ \A s \in tx.seen : /\ s[1] \in MemoryIds
                                            /\ memory[s[1]] \in MemoryRow
                                            /\ memory[s[1]].status = "ACTIVE"
  BY <1>1, CommitCreateMoves
<1>4. a \in Workers => Busy(at[a])
  BY <1>1, <1>2 DEF Sound, Creating, Busy
<1>5. new \in Actor /\ Sound(memory', a, new) /\ new.pc # "tx"
  BY <1>2, <1>4, AfterFacts
<1>6. /\ suppressed' \subseteq Contents /\ operations' \subseteq OperationKeys
      /\ job' = job /\ issued' = issued /\ at' = [at EXCEPT ![a] = new]
  BY <1>2 DEF CommitCreate, TypeOK
<1> HIDE DEF tx, new
<1>7. PICK m \in MemoryIds :
        /\ memory[m] = NoMemory
        /\ memory' = [n \in MemoryIds |->
              IF n = m THEN [version |-> 1, status |-> "ACTIVE", key |-> tx.key,
                             content |-> tx.content, profile |-> tx.profile]
              ELSE IF \E s \in tx.seen : s[1] = n THEN Superseded(memory[n])
              ELSE memory[n]]
  BY DEF CommitCreate, tx
<1> DEFINE row == [version |-> 1, status |-> "ACTIVE", key |-> tx.key,
                   content |-> tx.content, profile |-> tx.profile]
<1>8. row \in MemoryRow /\ row.key = tx.key /\ row.profile = tx.profile
  BY <1>3 DEF MemoryRow, CreateTx
<1>9. memory'[m] = row
  BY <1>7
<1> HIDE DEF row
<1>10. ASSUME NEW n \in MemoryIds, n # m
       PROVE  \/ memory'[n] = memory[n] /\ ~\E s \in tx.seen : s[1] = n
              \/ Advanced(memory[n], memory'[n]) /\ memory'[n].status # "ACTIVE"
  <2>1. CASE \E s \in tx.seen : s[1] = n
    <3>1. memory[n] \in MemoryRow /\ memory[n].status # "DELETED"
      BY <1>3, <2>1
    <3>2. memory'[n] = Superseded(memory[n])
      BY <1>7, <1>10, <2>1
    <3>3. Advanced(memory[n], Superseded(memory[n]))
      BY <3>1, SupersededFacts
    <3>4. Superseded(memory[n]).status # "ACTIVE"
      BY <3>1 DEF Superseded, MemoryRow
    <3>5. QED
      BY <3>2, <3>3, <3>4
  <2>2. CASE ~\E s \in tx.seen : s[1] = n
    BY <1>7, <1>10, <2>2
  <2>3. QED
    BY <2>1, <2>2
<1>11. \A n \in MemoryIds : Moved(memory[n], memory'[n])
  BY <1>7, <1>10 DEF Moved
<1>12. memory' \in [MemoryIds -> MemoryRow \cup {NoMemory}]
  <2>1. memory' = [n \in MemoryIds |-> memory'[n]]
    BY <1>7
  <2>2. \A n \in MemoryIds : memory'[n] \in MemoryRow \cup {NoMemory}
    BY <1>2, <1>8, <1>9, <1>10 DEF Advanced
  <2>3. QED
    BY <2>1, <2>2
<1>13. RowsInv'
  <2>1. ASSUME NEW n \in MemoryIds, n # m
        PROVE  /\ memory'[n].key = memory[n].key /\ memory'[n].profile = memory[n].profile
               /\ memory'[n].status = "ACTIVE" =>
                    memory[n].status = "ACTIVE" /\ ~\E s \in tx.seen : s[1] = n
               /\ memory'[n].status # "NONE" => memory[n].status # "NONE"
               /\ memory[n].key # tx.key
    BY <1>2, <1>10, <2>1, NoMemoryFacts DEF Advanced, StillNew
  <2>2. ASSUME NEW n \in MemoryIds, n # m, memory'[n].status = "ACTIVE", tx.profile # None
        PROVE  memory'[n].profile # tx.profile
    BY <1>2, <2>1, <2>2 DEF StillNew
  <2>3. ASSUME NEW n \in MemoryIds, NEW o \in MemoryIds, memory'[n].status # "NONE",
               memory'[o].key = memory'[n].key
        PROVE  n = o
    BY <1>2, <1>8, <1>9, <2>1, <2>3 DEF RowsInv
  <2>4. ASSUME NEW n \in MemoryIds, NEW o \in MemoryIds,
               memory'[n].status = "ACTIVE", memory'[o].status = "ACTIVE",
               memory'[n].profile # None, memory'[o].profile = memory'[n].profile
        PROVE  n = o
    <3>1. CASE n = m \/ o = m
      BY <1>8, <1>9, <2>2, <2>4, <3>1
    <3>2. CASE n # m /\ o # m
      BY <1>2, <2>1, <2>4, <3>2 DEF RowsInv
    <3>3. QED
      BY <3>1, <3>2
  <2>5. QED
    BY <2>3, <2>4 DEF RowsInv
<1>14. QED
  BY <1>1, <1>5, <1>6, <1>11, <1>12, <1>13, CommitStep

\* update commits: one row, unchanged since it was read, advances.
LEMMA CommitUpdateMoves ==
    ASSUME MemoriesInv, NEW a \in Actors, CommitUpdate(a)
    PROVE  /\ at[a].tx \in UpdateTx
           /\ memory[at[a].tx.target] = at[a].tx.seen
           /\ memory' = [memory EXCEPT ![at[a].tx.target] = Updated(at[a].tx)]
           /\ \/ Updated(at[a].tx) = at[a].tx.seen
              \/ Advanced(at[a].tx.seen, Updated(at[a].tx))
<1> DEFINE tx == at[a].tx
<1>1. at[a] \in Actor /\ Sound(memory, a, at[a])
  BY DEF MemoriesInv, ActorsInv, TypeOK
<1>2. at[a].pc = "tx" /\ tx.op # "create"
  BY DEF CommitUpdate, Creating
<1>3. tx \in UpdateTx /\ ReadsSound(memory, tx)
  BY <1>1, <1>2 DEF Sound, CreateTx
<1>4. /\ memory[tx.target].version = tx.seen.version
      /\ memory' = [memory EXCEPT ![tx.target] = Updated(tx)]
  BY DEF CommitUpdate, Update
<1> HIDE DEF tx
<1>5. Fresh(tx.seen, memory[tx.target])
  BY <1>2, <1>3 DEF ReadsSound, tx
<1>6. memory[tx.target] = tx.seen
  BY <1>4, <1>5, FreshRead
<1>7. Updated(tx) = tx.seen \/ Advanced(tx.seen, Updated(tx))
  BY <1>3, UpdatedFacts
<1>8. QED
  BY <1>3, <1>4, <1>6, <1>7 DEF tx

LEMMA CommitUpdateInv ==
    ASSUME MemoriesInv, NEW a \in Actors, CommitUpdate(a)
    PROVE  MemoriesInv'
<1> DEFINE tx == at[a].tx
           new == After(a, tx.op)
<1>1. /\ TypeOK /\ RowsInv
      /\ memory \in [MemoryIds -> MemoryRow \cup {NoMemory}]
      /\ at[a] \in Actor /\ Sound(memory, a, at[a])
  BY DEF MemoriesInv, TypeOK, ActorsInv
<1>2. at[a].pc = "tx"
  BY DEF CommitUpdate
<1>3. /\ tx \in UpdateTx
      /\ memory[tx.target] = tx.seen
      /\ memory' = [memory EXCEPT ![tx.target] = Updated(tx)]
      /\ Updated(tx) = tx.seen \/ Advanced(tx.seen, Updated(tx))
  BY CommitUpdateMoves
<1>4. /\ a \in Workers => Busy(at[a])
      /\ a \in Workers => tx.content \in Contents
  BY <1>1, <1>2 DEF Sound, Busy
<1>5. new \in Actor /\ Sound(memory', a, new) /\ new.pc # "tx"
  BY <1>1, <1>4, AfterFacts
<1>6. /\ job' = job /\ issued' = issued /\ at' = [at EXCEPT ![a] = new]
      /\ operations' = operations \cup {tx.key}
      /\ suppressed' = suppressed \/ suppressed' = suppressed \cup {tx.seen.content}
  BY DEF CommitUpdate
<1> HIDE DEF tx, new
<1>7. tx.target \in MemoryIds /\ tx.seen \in MemoryRow /\ tx.key \in OperationKeys
  BY <1>3 DEF UpdateTx
<1>8. suppressed' \subseteq Contents /\ operations' \subseteq OperationKeys
  BY <1>1, <1>6, <1>7 DEF TypeOK, MemoryRow
<1>9. \A n \in MemoryIds : memory'[n] = memory[n] \/ Advanced(memory[n], memory'[n])
  BY <1>1, <1>3, <1>7
<1>10. \A n \in MemoryIds : /\ Moved(memory[n], memory'[n])
                            /\ memory[n] = NoMemory => memory'[n] = NoMemory
  BY <1>9, NoMemoryFacts DEF Moved, Advanced
<1>11. memory' \in [MemoryIds -> MemoryRow \cup {NoMemory}]
  BY <1>1, <1>3, <1>7 DEF Advanced
<1>12. RowsInv'
  <2>1. \A n \in MemoryIds :
            /\ memory'[n].key = memory[n].key /\ memory'[n].profile = memory[n].profile
            /\ memory'[n].status = "ACTIVE" => memory[n].status = "ACTIVE"
            /\ memory'[n].status # "NONE" => memory[n].status # "NONE"
    BY <1>9, NoMemoryFacts DEF Advanced
  <2>2. QED
    BY <1>1, <2>1 DEF RowsInv
<1>13. QED
  BY <1>5, <1>6, <1>8, <1>10, <1>11, <1>12, CommitStep
-----------------------------------------------------------------------------
(* The steps of the two kinds of actors *)

LEMMA ClientInv ==
    ASSUME MemoriesInv, NEW c \in Clients, ClientStep(c)
    PROVE  MemoriesInv'
<1>1. /\ at[c] = Idle /\ issued < MaxRequests /\ issued' = issued + 1
      /\ c \in Actors /\ c \notin Workers
  BY MemoriesAssumption DEF ClientStep, Remember, Forget, Patch, Request, Actors
<1>2. issued' \in 0..MaxRequests /\ issued + 1 \in 1..MaxRequests
  BY <1>1, MemoriesAssumption DEF MemoriesInv, TypeOK
<1>3. RequestKey \in Keys /\ RequestKey \in OperationKeys
  BY <1>2 DEF RequestKey, Keys, OperationKeys
<1>4. CASE Remember(c)
  <2>1. PICK content \in Contents, p \in {None} \cup ProfileKeys :
            OpenCreate(c, content, p, RequestKey, FALSE)
    BY <1>4 DEF Remember
  <2>2. QED
    BY <1>1, <1>2, <1>3, <2>1, OpenCreateStep
<1>5. CASE Forget(c)
  <2>1. PICK m \in MemoryIds : OpenUpdate(c, "forget", m, None, RequestKey)
    BY <1>5 DEF Forget
  <2>2. QED
    BY <1>1, <1>2, <1>3, <2>1, OpenUpdateStep
<1>6. CASE Patch(c)
  <2>1. PICK m \in MemoryIds :
            \/ \E content \in Contents : OpenUpdate(c, "revise", m, content, RequestKey)
            \/ OpenUpdate(c, "supersede", m, None, RequestKey)
    BY <1>6 DEF Patch
  <2>2. CASE \E content \in Contents : OpenUpdate(c, "revise", m, content, RequestKey)
    BY <1>1, <1>2, <1>3, <2>2, OpenUpdateStep
  <2>3. CASE OpenUpdate(c, "supersede", m, None, RequestKey)
    BY <1>1, <1>2, <1>3, <2>3, OpenUpdateStep
  <2>4. QED
    BY <2>1, <2>2, <2>3
<1>7. QED
  BY <1>4, <1>5, <1>6 DEF ClientStep

\* The steps of a worker that open no transaction.
LEMMA ClaimJobInv ==
    ASSUME MemoriesInv, NEW w \in Workers, NEW r \in Runs, ClaimJob(w, r)
    PROVE  MemoriesInv'
<1> DEFINE e == job[r].epoch + 1
           row == [status |-> "LEASED", owner |-> w, epoch |-> e]
           new == [Idle EXCEPT !.pc = "claimed", !.run = r, !.epoch = e]
<1>1. TypeOK /\ w \in Actors /\ w \notin Clients
  BY MemoriesAssumption DEF MemoriesInv, Actors
<1>2. job[r] \in JobRow /\ job[r].epoch < MaxClaims
  BY <1>1 DEF TypeOK, ClaimJob
<1>3. e \in 0..MaxClaims
  BY <1>2, MemoriesAssumption DEF JobRow
<1>4. /\ memory' = memory /\ suppressed' = suppressed /\ operations' = operations
      /\ issued' \in 0..MaxRequests
      /\ job' = [job EXCEPT ![r] = row] /\ at' = [at EXCEPT ![w] = [Idle EXCEPT
                        !.pc = "claimed", !.run = r, !.epoch = job'[r].epoch]]
  BY <1>1 DEF ClaimJob, TypeOK
<1>5. row.epoch = e
  OBVIOUS
<1> HIDE DEF e
<1>6. row \in JobRow
  BY <1>3 DEF JobRow
<1> HIDE DEF row
<1>7. job' \in [Runs -> JobRow] /\ job'[r].epoch = e
  BY <1>1, <1>4, <1>5, <1>6 DEF TypeOK
<1>8. at' = [at EXCEPT ![w] = new]
  BY <1>4, <1>7
<1>9. new \in Actor /\ new.pc = "claimed" /\ new.run = r
  BY <1>1, <1>3, IdleFacts DEF Actor, Idle
<1> HIDE DEF new
<1>10. Sound(memory, w, new)
  BY <1>1, <1>9 DEF Sound
<1>11. QED
  BY <1>1, <1>4, <1>7, <1>8, <1>9, <1>10, QuietStep

LEMMA ExtractInv ==
    ASSUME MemoriesInv, NEW w \in Workers, Extract(w)
    PROVE  MemoriesInv'
<1>1. /\ TypeOK /\ w \in Actors /\ w \notin Clients
      /\ at[w] \in Actor /\ Sound(memory, w, at[w]) /\ at[w].pc = "claimed"
  BY MemoriesAssumption DEF MemoriesInv, ActorsInv, Actors, Extract, TypeOK
<1>2. at[w].run \in Runs
  BY <1>1 DEF Sound
<1>3. /\ memory' = memory /\ suppressed' = suppressed /\ operations' = operations
      /\ issued' \in 0..MaxRequests /\ job' \in [Runs -> JobRow]
  BY <1>1 DEF Extract, TypeOK
<1>4. ASSUME NEW new \in Actor, new.pc \in {"forming", "failed"}, new.run = at[w].run,
             at' = [at EXCEPT ![w] = new]
      PROVE  MemoriesInv'
  <2>1. Sound(memory, w, new)
    BY <1>1, <1>2, <1>4 DEF Sound
  <2>2. QED
    BY <1>1, <1>3, <1>4, <2>1, QuietStep
<1>5. CASE at' = [at EXCEPT ![w] = [@ EXCEPT !.pc = "forming", !.found = Searchable,
                                             !.left = MaxCandidates]]
  <2> DEFINE new == [at[w] EXCEPT !.pc = "forming", !.found = Searchable,
                                  !.left = MaxCandidates]
  <2>1. Searchable \subseteq MemoryIds /\ MaxCandidates \in 0..MaxCandidates
    BY MemoriesAssumption DEF Searchable
  <2>2. new \in Actor /\ new.pc = "forming" /\ new.run = at[w].run
    BY <1>1, <2>1 DEF Actor
  <2>3. at' = [at EXCEPT ![w] = new]
    BY <1>5
  <2> HIDE DEF new
  <2>4. QED
    BY <1>4, <2>2, <2>3
<1>6. CASE at' = [at EXCEPT ![w].pc = "failed"]
  <2> DEFINE new == [at[w] EXCEPT !.pc = "failed"]
  <2>1. new \in Actor /\ new.pc = "failed" /\ new.run = at[w].run
    BY <1>1 DEF Actor
  <2>2. at' = [at EXCEPT ![w] = new]
    BY <1>6
  <2> HIDE DEF new
  <2>3. QED
    BY <1>4, <2>1, <2>2
<1>7. QED
  BY <1>5, <1>6 DEF Extract

\* A worker that is applying candidates.
LEMMA FormingFacts ==
    ASSUME MemoriesInv, NEW w \in Workers,
           \/ at[w].pc = "forming" /\ at[w].left > 0
           \/ at[w].pc = "superseded"
    PROVE  /\ Busy(at[w]) /\ w \in Actors /\ at[w] \in Actor
           /\ at[w].pc = "superseded" => at[w].tx.content \in Contents
<1>1. w \in Actors /\ at[w] \in Actor /\ Sound(memory, w, at[w])
  BY DEF MemoriesInv, ActorsInv, Actors, TypeOK
<1>2. QED
  BY <1>1 DEF Sound, Busy

LEMMA FormCreateInv ==
    ASSUME MemoriesInv, NEW w \in Workers, FormCreate(w)
    PROVE  MemoriesInv'
<1>1. Busy(at[w]) /\ w \in Actors
  BY FormingFacts DEF FormCreate
<1>2. PICK c \in Contents, p \in {None} \cup ProfileKeys :
          OpenCreate(w, c, p, <<at[w].run, c>>, TRUE)
  BY DEF FormCreate
<1>3. <<at[w].run, c>> \in Keys
  BY <1>1 DEF Keys, Busy
<1>4. issued' \in 0..MaxRequests
  BY DEF FormCreate, MemoriesInv, TypeOK
<1>5. QED
  BY <1>1, <1>2, <1>3, <1>4, OpenCreateStep

LEMMA FormUpdateInv ==
    ASSUME MemoriesInv, NEW w \in Workers, FormUpdate(w)
    PROVE  MemoriesInv'
<1>1. Busy(at[w]) /\ w \in Actors /\ at[w] \in Actor /\ at[w].pc = "forming"
  BY FormingFacts DEF FormUpdate
<1>2. PICK m \in at[w].found, c \in Contents :
        \/ OpenUpdate(w, "revise", m, c, <<at[w].run, c>>)
        \/ /\ <<at[w].run, c, "supersede">> \notin operations
           /\ OpenUpdate(w, "supersede", m, c, <<at[w].run, c, "supersede">>)
        \/ /\ at' = [at EXCEPT ![w].pc = "superseded",
                               ![w].tx = [op |-> "supersede", content |-> c]]
           /\ UNCHANGED <<memory, suppressed, operations, job>>
  BY DEF FormUpdate
<1>3. /\ m \in MemoryIds /\ issued' \in 0..MaxRequests
      /\ <<at[w].run, c>> \in OperationKeys
      /\ <<at[w].run, c, "supersede">> \in OperationKeys
  BY <1>1 DEF FormUpdate, MemoriesInv, TypeOK, Actor, Keys, OperationKeys, Busy
<1>4. CASE OpenUpdate(w, "revise", m, c, <<at[w].run, c>>)
  BY <1>1, <1>3, <1>4, OpenUpdateStep
<1>5. CASE /\ <<at[w].run, c, "supersede">> \notin operations
           /\ OpenUpdate(w, "supersede", m, c, <<at[w].run, c, "supersede">>)
  BY <1>1, <1>3, <1>5, OpenUpdateStep
<1>6. CASE /\ at' = [at EXCEPT ![w].pc = "superseded",
                               ![w].tx = [op |-> "supersede", content |-> c]]
           /\ UNCHANGED <<memory, suppressed, operations, job>>
  <2> DEFINE tx == [op |-> "supersede", content |-> c]
             new == [at[w] EXCEPT !.pc = "superseded", !.tx = tx]
  <2>1. tx \in SuccessorTx /\ tx.content \in Contents
    BY DEF SuccessorTx
  <2>2. at \in [Actors -> Actor] /\ job' \in [Runs -> JobRow]
    BY <1>6 DEF MemoriesInv, TypeOK
  <2>3. at' = [at EXCEPT ![w] = new]
    BY <1>6, <2>2
  <2> HIDE DEF tx
  <2>4. /\ new \in Actor /\ new.pc = "superseded" /\ new.tx = tx
        /\ new.run = at[w].run /\ new.left = at[w].left
    BY <1>1, <2>1 DEF Actor
  <2> HIDE DEF new
  <2>5. Sound(memory, w, new)
    BY <1>1, <2>1, <2>4, MemoriesAssumption DEF Sound, Busy
  <2>6. QED
    BY <1>1, <1>3, <1>6, <2>2, <2>3, <2>4, <2>5, QuietStep
<1>7. QED
  BY <1>2, <1>4, <1>5, <1>6

LEMMA FormSuccessorInv ==
    ASSUME MemoriesInv, NEW w \in Workers, FormSuccessor(w)
    PROVE  MemoriesInv'
<1> DEFINE c == at[w].tx.content
<1>1. Busy(at[w]) /\ w \in Actors /\ c \in Contents
  BY FormingFacts DEF FormSuccessor
<1>2. PICK p \in {None, ProfileKey[c]} : OpenCreate(w, c, p, <<at[w].run, c>>, TRUE)
  BY DEF FormSuccessor
<1>3. p \in {None} \cup ProfileKeys
  BY <1>1, MemoriesAssumption
<1>4. <<at[w].run, c>> \in Keys
  BY <1>1 DEF Keys, Busy
<1>5. issued' \in 0..MaxRequests
  BY DEF FormSuccessor, MemoriesInv, TypeOK
<1>6. QED
  BY <1>1, <1>2, <1>3, <1>4, <1>5, OpenCreateStep

\* A worker goes idle, whether it has settled its job or died.
LEMMA RestInv ==
    ASSUME MemoriesInv, NEW w \in Workers, Settle(w) \/ Crash(w)
    PROVE  MemoriesInv'
<1>1. TypeOK /\ w \in Actors
  BY DEF MemoriesInv, Actors
<1>2. /\ memory' = memory /\ suppressed' = suppressed /\ operations' = operations
      /\ issued' \in 0..MaxRequests /\ at' = [at EXCEPT ![w] = Idle]
  BY <1>1 DEF Settle, Crash, TypeOK
<1>3. job' \in [Runs -> JobRow]
  <2>1. CASE job' = job
    BY <1>1, <2>1 DEF TypeOK
  <2>2. CASE /\ at[w].run \in DOMAIN job
             /\ job' = [job EXCEPT ![at[w].run].status = "COMPLETED", ![at[w].run].owner = None]
    <3> DEFINE r == at[w].run
               row == [job[r] EXCEPT !.status = "COMPLETED", !.owner = None]
    <3>1. r \in Runs /\ job[r] \in JobRow /\ job \in [Runs -> JobRow]
      BY <1>1, <2>2 DEF TypeOK
    <3>2. row \in JobRow
      BY <3>1 DEF JobRow
    <3>3. job' = [job EXCEPT ![r] = row]
      BY <2>2, <3>1
    <3> HIDE DEF row
    <3>4. QED
      BY <3>1, <3>2, <3>3
  <2>3. CASE Settle(w) /\ at[w].run \notin DOMAIN job
    <3>1. at[w].pc # "idle" /\ Sound(memory, w, at[w])
      BY <1>1, <2>3 DEF Settle, MemoriesInv, ActorsInv
    <3>2. at[w].run \in Runs
      BY <3>1 DEF Sound
    <3>3. QED
      BY <1>1, <2>3, <3>2 DEF TypeOK
  <2>4. QED
    BY <2>1, <2>2, <2>3 DEF Settle, Crash
<1>4. Idle \in Actor /\ Sound(memory, w, Idle) /\ Idle.pc = "idle"
  BY <1>1, IdleFacts
<1>5. QED
  BY <1>1, <1>2, <1>3, <1>4, QuietStep

LEMMA WorkerInv ==
    ASSUME MemoriesInv, NEW w \in Workers, WorkerStep(w)
    PROVE  MemoriesInv'
<1>1. CASE \E r \in Runs : ClaimJob(w, r)
  BY <1>1, ClaimJobInv
<1>2. CASE Extract(w)
  BY <1>2, ExtractInv
<1>3. CASE FormCreate(w)
  BY <1>3, FormCreateInv
<1>4. CASE FormUpdate(w)
  BY <1>4, FormUpdateInv
<1>5. CASE FormSuccessor(w)
  BY <1>5, FormSuccessorInv
<1>6. CASE Settle(w) \/ Crash(w)
  BY <1>6, RestInv
<1>7. QED
  BY <1>1, <1>2, <1>3, <1>4, <1>5, <1>6 DEF WorkerStep

LEMMA AbortInv ==
    ASSUME MemoriesInv, NEW a \in Actors, Abort(a)
    PROVE  MemoriesInv'
<1>1. Sound(memory, a, at[a]) /\ at[a].pc = "tx" /\ Raise(a)
  BY DEF MemoriesInv, ActorsInv, Abort
<1>2. issued' \in 0..MaxRequests
  BY DEF Abort, MemoriesInv, TypeOK
<1>3. a \in Workers => at[a].run \in Runs
  BY <1>1 DEF Sound
<1>4. QED
  BY <1>1, <1>2, <1>3, RaiseStep

-----------------------------------------------------------------------------
(* The theorems *)

LEMMA MemoriesInit == Init => MemoriesInv
<1> SUFFICES ASSUME Init PROVE MemoriesInv
  OBVIOUS
<1>1. 0 \in 0..MaxClaims /\ 0 \in 0..MaxRequests
  BY MemoriesAssumption
<1>2. [status |-> "READY", owner |-> None, epoch |-> 0] \in JobRow
  BY <1>1 DEF JobRow
<1>3. \A a \in Actors : at[a] = Idle /\ Idle \in Actor /\ Sound(memory, a, Idle)
  BY IdleFacts DEF Init
<1>4. TypeOK
  BY <1>1, <1>2, <1>3 DEF Init, TypeOK
<1>5. ActorsInv
  BY <1>3 DEF ActorsInv
<1>6. CreationsInv
  BY <1>3 DEF CreationsInv, Creating, Idle
<1>7. RowsInv
  BY NoMemoryFacts DEF Init, RowsInv
<1>8. QED
  BY <1>4, <1>5, <1>6, <1>7 DEF MemoriesInv

LEMMA MemoriesNext == MemoriesInv /\ [Next]_vars => MemoriesInv'
<1> SUFFICES ASSUME MemoriesInv, [Next]_vars PROVE MemoriesInv'
  OBVIOUS
<1>1. CASE \E c \in Clients : ClientStep(c)
  BY <1>1, ClientInv
<1>2. CASE \E w \in Workers : WorkerStep(w)
  BY <1>2, WorkerInv
<1>3. CASE \E a \in Actors : CommitCreate(a)
  BY <1>3, CommitCreateInv
<1>4. CASE \E a \in Actors : CommitUpdate(a)
  BY <1>4, CommitUpdateInv
<1>5. CASE \E a \in Actors : Abort(a)
  BY <1>5, AbortInv
<1>6. CASE UNCHANGED vars
  BY <1>6 DEF vars, MemoriesInv, TypeOK, ActorsInv, CreationsInv, RowsInv, Creating
<1>7. QED
  BY <1>1, <1>2, <1>3, <1>4, <1>5, <1>6 DEF Next

LEMMA MemoriesAlways == Spec => []MemoriesInv
<1>1. QED
  BY MemoriesInit, MemoriesNext, PTL DEF Spec

\* The first half of a transaction writes no memory.
LEMMA OpeningIsQuiet ==
    /\ \A a, c, p, key, reconcile : OpenCreate(a, c, p, key, reconcile) => memory' = memory
    /\ \A a, op, m, c, key : OpenUpdate(a, op, m, c, key) => memory' = memory
BY DEF OpenCreate, OpenUpdate, Skip, Raise, Open

\* A set whose members are all the same has at most one of them.
LEMMA AtMostOneMember ==
    ASSUME NEW S, \A x, y \in S : x = y
    PROVE  Cardinality(S) <= 1
<1>1. CASE S = {}
  BY <1>1, FS_EmptySet
<1>2. CASE S # {}
  <2>1. PICK x \in S : S = {x}
    BY <1>2
  <2>2. QED
    BY <2>1, FS_Singleton
<1>3. QED
  BY <1>1, <1>2

\* The tables and the actors keep their shape: the transaction of an actor is one the code
\* opens, the run it is working on exists, and no bound is passed.
THEOREM MemoriesTypeCorrect == Spec => []TypeOK
<1>1. MemoriesInv => TypeOK
  BY DEF MemoriesInv
<1>2. QED
  BY <1>1, MemoriesAlways, PTL

\* There is at most one active memory per profile key, whatever creations, revisions and
\* formation passes run at the same time: the advisory locks alone see to it, without the
\* unique index.
THEOREM ProfilesAreSingle == Spec => []OneActiveProfile
<1>1. MemoriesInv => OneActiveProfile
  <2>1. ASSUME MemoriesInv, NEW p \in ProfileKeys
        PROVE  Cardinality(ActiveProfile(p)) <= 1
    <3>1. \A m, n \in ActiveProfile(p) : m = n
      BY <2>1 DEF MemoriesInv, RowsInv, ActiveProfile, Searchable
    <3>2. QED
      BY <3>1, AtMostOneMember
  <2>2. QED
    BY <2>1 DEF OneActiveProfile
<1>2. QED
  BY <1>1, MemoriesAlways, PTL

\* A run forms a content once, however often its job is delivered and whatever has become
\* of the memory since: the look for the key and the insertion are under one lock.
THEOREM RunsFormOnce == Spec => []FormedOnce
<1>1. MemoriesInv => FormedOnce
  <2>1. ASSUME MemoriesInv, NEW k \in Runs \X Contents
        PROVE  Cardinality({m \in MemoryIds : memory[m].key = k}) <= 1
    <3>1. ASSUME NEW m \in MemoryIds, memory[m].key = k
          PROVE  memory[m].status # "NONE"
      <4>1. k # <<>>
        OBVIOUS
      <4>2. memory[m] # NoMemory
        BY <3>1, <4>1 DEF NoMemory
      <4>3. QED
        BY <2>1, <4>2, NoMemoryFacts DEF MemoriesInv, TypeOK
    <3>2. \A m, n \in {o \in MemoryIds : memory[o].key = k} : m = n
      BY <2>1, <3>1 DEF MemoriesInv, RowsInv
    <3>3. QED
      BY <3>2, AtMostOneMember
  <2>2. QED
    BY <2>1 DEF FormedOnce
<1>2. QED
  BY <1>1, MemoriesAlways, PTL

\* A memory that is forgotten is never written again: a writer that has read it before
\* finds another version, and one that reads it afterwards has nothing to write.
THEOREM ForgettingIsFinal == Spec => ForgottenIsFinal
<1> DEFINE Kept == \A m \in MemoryIds : memory[m].status = "DELETED" => memory'[m] = memory[m]
<1>1. ASSUME MemoriesInv, NEW a \in Actors, CommitCreate(a) PROVE Kept
  <2>1. Creating(a)
    BY <1>1 DEF CommitCreate
  <2>2. \A s \in at[a].tx.seen : memory[s[1]].status = "ACTIVE"
    BY <1>1, <2>1, CommitCreateMoves
  <2>3. ASSUME NEW m \in MemoryIds, memory[m].status = "DELETED"
        PROVE  memory'[m] = memory[m]
    BY <1>1, <2>2, <2>3, NoMemoryFacts DEF CommitCreate
  <2>4. QED
    BY <2>3
<1>2. ASSUME MemoriesInv, NEW a \in Actors, CommitUpdate(a) PROVE Kept
  <2> DEFINE tx == at[a].tx
  <2>1. /\ memory[tx.target] = tx.seen
        /\ memory' = [memory EXCEPT ![tx.target] = Updated(tx)]
        /\ Updated(tx) = tx.seen \/ Advanced(tx.seen, Updated(tx))
    BY <1>2, CommitUpdateMoves
  <2>2. memory \in [MemoryIds -> MemoryRow \cup {NoMemory}]
    BY <1>2 DEF MemoriesInv, TypeOK
  <2> HIDE DEF tx
  <2>3. QED
    BY <2>1, <2>2 DEF Advanced
<1>3. ASSUME [Next]_vars, ~\E a \in Actors : CommitCreate(a) \/ CommitUpdate(a)
      PROVE  memory' = memory
  <2>1. CASE \E c \in Clients : ClientStep(c)
    BY <2>1, OpeningIsQuiet DEF ClientStep, Remember, Forget, Patch
  <2>2. CASE \E w \in Workers : WorkerStep(w)
    BY <2>2, OpeningIsQuiet
    DEF WorkerStep, ClaimJob, Extract, FormCreate, FormUpdate, FormSuccessor, Settle, Crash
  <2>3. CASE \E a \in Actors : Abort(a)
    BY <2>3 DEF Abort, Raise
  <2>4. CASE UNCHANGED vars
    BY <2>4 DEF vars
  <2>5. QED
    BY <1>3, <2>1, <2>2, <2>3, <2>4 DEF Next
<1>4. MemoriesInv /\ [Next]_vars => [Kept]_vars
  BY <1>1, <1>2, <1>3
<1>5. Spec => [][Kept]_vars
  BY <1>4, MemoriesAlways, PTL DEF Spec
<1>6. QED
  BY <1>5 DEF ForgottenIsFinal
=============================================================================
