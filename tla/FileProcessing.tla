--------------------------- MODULE FileProcessing ---------------------------
(***************************************************************************)
(* An uploaded file from its stored object to its retrieval segments, and     *)
(* back to a tombstone: upload, processing under a lease, deletion by the     *)
(* user, physical purge, and the scan for objects without a row.              *)
(*                                                                           *)
(* A file is a row of sources and its mirror in files, under one identifier   *)
(* that also names its object.  The object store has no transactions with    *)
(* the database.  A purge claims its job, purges and settles the job in one   *)
(* transaction, so the lease of the job never matters and the job is a status.*)
(***************************************************************************)
EXTENDS FileTable

SourceRow == [key: Keys \cup {None}, status: {"NONE", "PENDING", "READY", "FAILED"},
              owner: Workers \cup {None}, leased: BOOLEAN, attempts: 0..MaxAttempts,
              retry: BOOLEAN, deleted: BOOLEAN, text: BOOLEAN, chunks: Nat,
              embedded: BOOLEAN]
FileRow == [status: {"NONE", "ACTIVE", "DELETED"}, purged: BOOLEAN,
            active: Nat, segments: {"none", "plain", "embedded"}]

NoSource == [key |-> None, status |-> "NONE", owner |-> None, leased |-> FALSE,
             attempts |-> 0, retry |-> FALSE, deleted |-> FALSE, text |-> FALSE, chunks |-> 0,
             embedded |-> FALSE]
NoFile == [status |-> "NONE", purged |-> FALSE, active |-> 0, segments |-> "none"]

Worker == [pc: {"idle", "claimed", "parsed"}, file: Files \cup {None},
           attempt: 0..MaxAttempts]
Idle == [pc |-> "idle", file |-> None, attempt |-> 0]

Delete == [file: Files \cup {None}, text: BOOLEAN, status: {"PENDING", "READY", "FAILED"}]
NoDelete == [file |-> None, text |-> FALSE, status |-> "PENDING"]

NoScan == [on |-> FALSE, known |-> {}]

TypeOK ==
    /\ source \in [Files -> SourceRow]
    /\ file \in [Files -> FileRow]
    /\ objects \subseteq Files
    /\ purge \in [Files -> {"NONE", "READY", "COMPLETED"}]
    /\ uploading \in [Files -> Keys \cup {None}]
    /\ at \in [Workers -> Worker]
    /\ deleting \in [Deleters -> Delete]
    /\ purging \in Files \cup {None}
    /\ scan \in [on: BOOLEAN, known: SUBSET Files]
    /\ crashes \in 0..MaxCrashes
    /\ failed \subseteq Files

Init ==
    /\ source = [f \in Files |-> NoSource]
    /\ file = [f \in Files |-> NoFile]
    /\ objects = {}
    /\ purge = [f \in Files |-> "NONE"]
    /\ uploading = [f \in Files |-> None]
    /\ at = [w \in Workers |-> Idle]
    /\ deleting = [x \in Deleters |-> NoDelete]
    /\ purging = None
    /\ scan = NoScan
    /\ crashes = 0 /\ failed = {}

-----------------------------------------------------------------------------
(* Upload *)

\* get_by_idempotency: a key that has a source is replayed.
KeyTaken(key) == \E g \in Files : source[g].key = key

\* The key is looked up and the object is written, under a name of its own.
StoreObject(f, key) ==
    /\ source[f] = NoSource
    /\ uploading[f] = None
    /\ f \notin objects
    /\ \A g \in scan.known : g # f
    /\ ~KeyTaken(key)
    /\ objects' = objects \cup {f}
    /\ uploading' = [uploading EXCEPT ![f] = key]
    /\ UNCHANGED <<source, file, purge, at, deleting, purging, scan, crashes, failed>>

\* Source rows, and with them the mirror of the file.  A type that cannot be
\* processed is stored as failed.
Uploaded(key, processable) ==
    [NoSource EXCEPT !.key = key, !.status = IF processable THEN "PENDING" ELSE "FAILED"]

CommitUpload(f, processable) ==
    /\ uploading[f] # None
    /\ ~KeyTaken(uploading[f])
    /\ source' = [source EXCEPT ![f] = Uploaded(uploading[f], processable)]
    /\ file' = [file EXCEPT ![f].status = "ACTIVE"]
    /\ uploading' = [uploading EXCEPT ![f] = None]
    /\ UNCHANGED <<objects, purge, at, deleting, purging, scan, crashes, failed>>

\* The transaction raises (the key was taken meanwhile, or any other error) and the
\* object is deleted again.
AbortUpload(f) ==
    /\ uploading[f] # None
    /\ uploading' = [uploading EXCEPT ![f] = None]
    /\ objects' = objects \ {f}
    /\ UNCHANGED <<source, file, purge, at, deleting, purging, scan, crashes, failed>>

Crash == crashes < MaxCrashes /\ crashes' = crashes + 1

\* The API process dies between the object and the rows.
CrashUpload(f) ==
    /\ uploading[f] # None
    /\ Crash
    /\ uploading' = [uploading EXCEPT ![f] = None]
    /\ UNCHANGED <<source, file, objects, purge, at, deleting, purging, scan, failed>>

-----------------------------------------------------------------------------
(* Source worker *)

\* Faulty: a failed attempt that may be retried is not claimed again.
ClaimableOnce(row) ==
    /\ ~row.deleted
    /\ row.attempts < MaxAttempts
    /\ row.status = "PENDING" /\ ~row.leased

\* The condition of claim_next_processing; a time that may be due is due.
ClaimableSource(row) ==
    /\ ~row.deleted
    /\ row.attempts < MaxAttempts
    /\ \/ row.status = "PENDING" /\ ~row.leased
       \/ row.status = "FAILED" /\ row.retry

\* What a claim does to the row: an attempt begins, under a new lease.
Claimed(row, w) ==
    [row EXCEPT !.status = "PENDING", !.owner = w, !.leased = TRUE,
                !.attempts = @ + 1, !.retry = FALSE]

ClaimProcessing(w, f) ==
    /\ at[w].pc = "idle"
    /\ ClaimableSource(source[f])
    /\ source' = [source EXCEPT ![f] = Claimed(@, w)]
    /\ at' = [at EXCEPT ![w] = [pc |-> "claimed", file |-> f, attempt |-> source'[f].attempts]]
    /\ UNCHANGED <<file, objects, purge, uploading, deleting, purging, scan, crashes, failed>>

\* The lease runs out: the heartbeat did not get through in time, or nobody sends it.
ExpireLease(f) ==
    /\ source[f].leased
    /\ source' = [source EXCEPT ![f].leased = FALSE]
    /\ UNCHANGED <<file, objects, purge, uploading, at, deleting, purging, scan, crashes, failed>>

\* Faulty: any worker that holds the source writes.
HoldsAny(w, f) == source[f].status = "PENDING"

\* The condition of renew, complete and fail: the lease itself is not looked at.
Holds(w, f) == source[f].status = "PENDING" /\ source[f].owner = w

\* The heartbeat; a worker whose lease is lost discards what it has parsed.
Heartbeat(w) ==
    LET f == at[w].file
    IN /\ at[w].pc # "idle"
       /\ IF Holds(w, f)
             THEN /\ ~source[f].leased
                  /\ source' = [source EXCEPT ![f].leased = TRUE]
                  /\ UNCHANGED at
             ELSE /\ at[w].pc = "claimed"
                  /\ at' = [at EXCEPT ![w] = Idle]
                  /\ UNCHANGED source
       /\ UNCHANGED <<file, objects, purge, uploading, deleting, purging, scan, crashes, failed>>

\* extract_claimed_content: the object is read and parsed.
Extract(w) ==
    /\ at[w].pc = "claimed"
    /\ at[w].file \in objects
    /\ at' = [at EXCEPT ![w].pc = "parsed"]
    /\ UNCHANGED <<source, file, objects, purge, uploading, deleting, purging, scan,
                   crashes, failed>>

\* The segments of a generation, with embeddings or, when the provider failed, without.
Segments(embedded) == IF embedded THEN "embedded" ELSE "plain"

\* Faulty: the generations are retired after the new one was added.
WithRetiredGeneration(row, embedded) ==
    [row EXCEPT !.active = 0, !.segments = Segments(embedded)]

\* mirror_processing_complete: the generations that were active are retired.
WithNewGeneration(row, embedded) ==
    [row EXCEPT !.active = 1, !.segments = Segments(embedded)]

\* The claim is over: the text is stored, and the chunks are added to those there are.
Completed(row, embedded) ==
    [row EXCEPT !.status = "READY", !.text = TRUE, !.owner = None, !.leased = FALSE,
                !.retry = FALSE, !.chunks = @ + 1, !.embedded = @ \/ embedded]

\* The chunks are embedded if the provider does not fail.  The update is conditional; the
\* chunks and the new generation follow in the same transaction, or nothing is written.
CompleteProcessing(w) ==
    LET f == at[w].file
    IN /\ at[w].pc = "parsed"
       /\ IF Holds(w, f)
             THEN \E embedded \in BOOLEAN :
                    /\ source' = [source EXCEPT ![f] = Completed(@, embedded)]
                    /\ file' = [file EXCEPT ![f] = WithNewGeneration(@, embedded)]
             ELSE UNCHANGED <<source, file>>
       /\ at' = [at EXCEPT ![w] = Idle]
       /\ UNCHANGED <<objects, purge, uploading, deleting, purging, scan, crashes, failed>>

\* A parse error is final; any other error (a missing object among them) is retried
\* until the attempts are used up.
FailProcessing(w, parse) ==
    LET f == at[w].file
    IN /\ at[w].pc # "idle"
       /\ parse => at[w].pc = "claimed" /\ f \in objects
       /\ source' = IF Holds(w, f)
                       THEN [source EXCEPT ![f] = [@ EXCEPT !.status = "FAILED", !.owner = None,
                                !.leased = FALSE, !.retry = ~parse /\ at[w].attempt < MaxAttempts]]
                       ELSE source
       /\ at' = [at EXCEPT ![w] = Idle]
       /\ UNCHANGED <<file, objects, purge, uploading, deleting, purging, scan, crashes, failed>>

\* The worker process dies and comes back under another name: the claim stays.
CrashWorker(w) ==
    /\ at[w].pc # "idle"
    /\ Crash
    /\ at' = [at EXCEPT ![w] = Idle]
    /\ source' = [source EXCEPT ![at[w].file].owner = IF @ = w THEN None ELSE @]
    /\ UNCHANGED <<file, objects, purge, uploading, deleting, purging, scan, failed>>

-----------------------------------------------------------------------------
(* Deletion, purge and the orphan scan *)

\* mark_deleted loads the row of a source that is not deleted ...
LoadForDelete(x, f) ==
    /\ deleting[x].file = None
    /\ source[f].status # "NONE" /\ ~source[f].deleted
    /\ deleting' = [deleting EXCEPT ![x] = [file |-> f, text |-> source[f].text,
                                            status |-> source[f].status]]
    /\ UNCHANGED <<source, file, objects, purge, uploading, at, purging, scan, crashes, failed>>

\* ... and writes, by its key alone, the columns that differ from what was loaded.
MarkedDeleted(row, loaded) ==
    [row EXCEPT !.deleted = TRUE, !.chunks = 0, !.embedded = FALSE,
                !.status = IF loaded.status = "FAILED" THEN @ ELSE "FAILED",
                !.text = IF loaded.text THEN FALSE ELSE @]

\* apply_delete_file: the chunks and the segments go, the mirror is deleted, and a purge
\* is enqueued unless there is one.  The generation stays active.
DeleteFile(x) ==
    LET f == deleting[x].file
    IN /\ f # None
       /\ source' = [source EXCEPT ![f] = MarkedDeleted(@, deleting[x])]
       /\ file' = [file EXCEPT ![f].status = "DELETED", ![f].segments = "none"]
       /\ purge' = [purge EXCEPT ![f] = IF @ = "NONE" THEN "READY" ELSE @]
       /\ deleting' = [deleting EXCEPT ![x] = NoDelete]
       /\ UNCHANGED <<objects, uploading, at, purging, scan, crashes, failed>>

\* Faulty: the key of the object is lost with the row.
PurgeRowsOnly(f) ==
    /\ purging = None
    /\ purge[f] = "READY"
    /\ file' = [file EXCEPT ![f].purged = TRUE, ![f].segments = "none"]
    /\ purge' = [purge EXCEPT ![f] = "COMPLETED"]
    /\ UNCHANGED <<source, objects, uploading, at, deleting, purging, scan, crashes, failed>>

\* One transaction: the job is claimed, the file purged and the job settled.
Purge(f) ==
    /\ purging = None
    /\ purge[f] = "READY"
    /\ file' = [file EXCEPT ![f].purged = TRUE, ![f].segments = "none"]
    /\ purge' = [purge EXCEPT ![f] = "COMPLETED"]
    /\ purging' = f
    /\ UNCHANGED <<source, objects, uploading, at, deleting, scan, crashes, failed>>

\* The object is deleted after the commit.
DeleteObject ==
    /\ purging # None
    /\ objects' = objects \ {purging}
    /\ purging' = None
    /\ UNCHANGED <<source, file, purge, uploading, at, deleting, scan, crashes, failed>>

\* The deletion raises, or the purge worker dies before it.
DeleteObjectFails ==
    /\ purging # None
    /\ Cardinality(failed) < PurgeFaults
    /\ failed' = failed \cup {purging}
    /\ purging' = None
    /\ UNCHANGED <<source, file, objects, purge, uploading, at, deleting, scan, crashes>>

\* list_storage_keys: the keys of all files, the purged ones included.
StorageKeys == {f \in Files : file[f].status # "NONE"}

\* scan_orphan_storage loads the keys of the rows ...
BeginScan ==
    /\ ~scan.on
    /\ scan' = [on |-> TRUE, known |-> StorageKeys]
    /\ UNCHANGED <<source, file, objects, purge, uploading, at, deleting, purging, crashes, failed>>

\* ... and deletes the objects that none of them names.  An object under way has another
\* name until it is complete; an object whose rows are not committed yet has not.
EndScan ==
    /\ scan.on
    /\ objects' = objects \cap scan.known
    /\ scan' = NoScan
    /\ UNCHANGED <<source, file, purge, uploading, at, deleting, purging, crashes, failed>>

-----------------------------------------------------------------------------
UploadStep(f) ==
    \/ \E key \in Keys : StoreObject(f, key)
    \/ \E processable \in BOOLEAN : CommitUpload(f, processable)
    \/ AbortUpload(f)
    \/ CrashUpload(f)

Next ==
    \/ \E f \in Files : UploadStep(f)
    \/ \E w \in Workers : \/ \E f \in Files : ClaimProcessing(w, f)
                          \/ Heartbeat(w)
                          \/ Extract(w)
                          \/ CompleteProcessing(w)
                          \/ \E parse \in BOOLEAN : FailProcessing(w, parse)
                          \/ CrashWorker(w)
    \/ \E f \in Files : ExpireLease(f)
    \/ \E x \in Deleters : (\E f \in Files : LoadForDelete(x, f)) \/ DeleteFile(x)
    \/ \E f \in Files : Purge(f)
    \/ DeleteObject \/ DeleteObjectFails
    \/ BeginScan \/ EndScan

\* The schedulers call their workers again and again, a lease nobody renews runs out,
\* and a request that has begun ends.
Fairness ==
    /\ \A f \in Files : /\ WF_fileVars(\E processable \in BOOLEAN : CommitUpload(f, processable))
                        /\ WF_fileVars(\E w \in Workers : ClaimProcessing(w, f))
                        /\ WF_fileVars(ExpireLease(f) /\ source[f].owner = None)
                        /\ WF_fileVars(Purge(f))
    /\ \A w \in Workers : WF_fileVars(\/ Extract(w) \/ CompleteProcessing(w)
                                  \/ \E parse \in BOOLEAN : FailProcessing(w, parse))
    /\ \A x \in Deleters : WF_fileVars(DeleteFile(x))
    /\ WF_fileVars(DeleteObject)
    /\ WF_fileVars(BeginScan) /\ WF_fileVars(EndScan)

Spec == Init /\ [][Next]_fileVars
FairSpec == Spec /\ Fairness

-----------------------------------------------------------------------------
(* Properties *)

Settled(f) ==
    \/ source[f].deleted
    \/ source[f].status = "READY"
    \/ source[f].status = "FAILED" /\ ~source[f].retry

\* The worker died on the last attempt: claim_next_processing passes the file over and
\* nothing fails it, so that it stays PENDING.
Abandoned(f) ==
    source[f].attempts = MaxAttempts /\ \A w \in Workers : at[w].file # f

\* An uploaded file ends up processed, failed for good or deleted, through errors, expired
\* leases and dead workers, unless a worker dies on its last attempt.
EverySourceSettles ==
    \A f \in Files : source[f].status # "NONE" ~> Settled(f) \/ Abandoned(f)

\* An object that belongs to no current file does not stay: the upload that wrote it takes
\* it back or the scan finds it, and the purge takes the objects of deleted files.  Only an
\* object whose deletion failed after the purge was committed is left.
ObjectsGo ==
    \A f \in Files :
        f \in objects /\ file[f].status # "ACTIVE"
            ~> f \notin objects \/ file[f].status = "ACTIVE" \/ f \in failed

\* A purged file leaves nothing behind.  It is not so: the object is deleted after the
\* transaction that completes the job, and no one tries again when that fails; and a file
\* whose processing completes while it is being deleted keeps its text.
TombstoneKeepsNothing ==
    \A f \in Files :
        file[f].purged /\ purging # f =>
            f \notin objects /\ ~source[f].text /\ source[f].chunks = 0 /\ file[f].segments = "none"
=============================================================================
