----------------------------- MODULE FileTable -----------------------------
(***************************************************************************)
(* What is kept of uploaded files: the rows, the objects, the purge jobs,    *)
(* and what every worker and request has in hand; and how a file is read.    *)
(* The steps are in FileProcessing.                                          *)
(***************************************************************************)
EXTENDS Integers, FiniteSets

CONSTANTS
    Files, Keys,    \* identifiers, and idempotency keys of uploads
    Workers,        \* source workers
    Deleters,       \* delete requests and tool calls that run at once
    MaxAttempts,    \* max_attempts of the source worker
    MaxCrashes,     \* bound: processes that die with work under way
    PurgeFaults     \* bound: object deletions of the purge worker that fail

None == "none"         \* NULL

ASSUME FileTableAssumption ==
    /\ MaxAttempts \in Nat \ {0}
    /\ MaxCrashes \in Nat
    /\ PurgeFaults \in Nat
    /\ None \notin Files \cup Keys \cup Workers

VARIABLES
    source,     \* sources, with their chunks
    file,       \* files, with their generations and segments
    objects,    \* the object store
    purge,      \* durable_jobs of kind FILE_PURGE
    uploading,  \* uploads whose object is stored and whose rows are not: their key
    at,         \* what each source worker is doing
    deleting,   \* what each delete has loaded
    purging,    \* the object the purge worker deletes after its commit
    scan,       \* the storage keys the orphan scan has loaded
    failed,     \* history: files whose object the purge worker failed to delete
    crashes     \* bound counter: processes that have died

fileVars == <<source, file, objects, purge, uploading, at, deleting, purging, scan,
              crashes, failed>>

-----------------------------------------------------------------------------
(* Reading *)

\* How a reader asks: for everything, by the text of its query or by its embedding.
Queries == {"all", "text", "embedding"}

\* list_inspect_segments: the segments of the active generation.  A text that none of
\* them contains finds them all; an embedding finds those that have one themselves.
AnsweredBySegments(row, query) ==
    /\ row.active > 0
    /\ row.segments = "embedded" \/ (row.segments = "plain" /\ query # "embedding")

\* get_context_chunks: the segments that answer the query or else the legacy chunks,
\* all of them when none of them answers it.
ContextChunks(f, query) ==
    CASE source[f].deleted -> "not found"
      [] ~source[f].deleted /\ AnsweredBySegments(file[f], query) -> "segments"
      [] OTHER -> IF source[f].chunks > 0 THEN "chunks" ELSE "nothing"

-----------------------------------------------------------------------------
(* Properties *)

\* The result of a processing attempt is published by the worker that claimed the source
\* last, never by one whose lease ran out and whose source was claimed again, although
\* complete_processing looks at the name of the owner and not at the lease: the worker
\* whose step publishes (and lets it go with that) has parsed the latest attempt.
PublishedByClaimant ==
    [][\A f \in Files :
            source[f].status = "PENDING" /\ source'[f].status = "READY" =>
                \E w \in Workers :
                    /\ at[w].pc = "parsed" /\ at'[w].pc = "idle"
                    /\ at[w].file = f /\ at[w].attempt = source[f].attempts]_fileVars

\* A processed file can be read however the reader asks: its text, its chunks (once,
\* whatever the number of attempts) and the segments of an active generation were stored
\* together.  The segments are read; only when the embeddings of the processing failed
\* does a query by embedding fall back on the legacy chunks, which hold the same.
ReadyIsReadable ==
    \A f \in Files :
        source[f].status = "READY" /\ ~source[f].deleted =>
            /\ source[f].text
            /\ source[f].chunks = 1
            /\ \A query \in Queries :
                  ContextChunks(f, query) = IF query = "embedding" /\ ~source[f].embedded
                                            THEN "chunks" ELSE "segments"
=============================================================================
