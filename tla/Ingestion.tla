----------------------------- MODULE Ingestion ------------------------------
(***************************************************************************)
(* Ingestion end to end: the web handlers that create jobs and delete      *)
(* documents (internal/web/server.go), the workers with their processing   *)
(* goroutine and heartbeat goroutine (internal/rag/worker.go), the index   *)
(* calls they make (internal/rag/service.go), and the rows of              *)
(* ingestion_jobs and documents they all share (internal/store/store.go).  *)
(*                                                                         *)
(* Each statement is one step, between any two of which another process    *)
(* may run, a context may be cancelled or a process may die.  JobQueue has *)
(* the clock and the open transactions; here time is reduced to what the   *)
(* WHERE clauses read of it: a lease is live until it is expired, a queued *)
(* job is not due until it is.                                             *)
(***************************************************************************)
EXTENDS Integers, Sequences, SequencesExt, FiniteSets

CONSTANTS
    Job, Worker, Handler,   \* jobs; worker ids, one per process start; reindex requests
    Doc, Content,           \* document ids, never reused; file contents (checksums)
    NoJob, NoWorker, NoDoc, NoContent,
    Mortal,         \* workers whose process may be shut down or crash
    MaxRetries,     \* len(RetryDelays)
    MaxFaults,      \* bound of a run: database errors, lost replies and stalls
    MaxDeletes      \* bound of a run: documents deleted

ASSUME IngestionAssumption ==
    /\ NoJob \notin Job /\ NoWorker \notin Worker
    /\ NoDoc \notin Doc /\ NoContent \notin Content
    /\ {"unborn", "deleted"} \cap Content = {}     \* states of a document without content
    /\ Mortal \subseteq Worker
    /\ MaxRetries \in Nat /\ MaxFaults \in Nat /\ MaxDeletes \in Nat

VARIABLES
    row,        \* row[j]: the row of job j
    finished,   \* the completed jobs, ORDER BY updated_at
    docs,       \* docs[d]: the content of document d, or why there is none
    proc,       \* proc[w]: the processing goroutine and the heartbeat of w
    stop,       \* the workers whose context is cancelled (SIGTERM)
    web,        \* web[h]: a reindex request between its three statements
    faults      \* faults so far

vars == <<row, finished, docs, proc, stop, web, faults>>

-----------------------------------------------------------------------------
Status   == {"absent", "queued", "processing", "completed", "failed"}
Terminal == {"completed", "failed"}

\* payload = NoContent is an empty payload: "reindex from the stored chunks".
Row == [status : Status, worker : Worker \cup {NoWorker},
        lease : {"none", "live", "expired"}, due : BOOLEAN, retries : 0..MaxRetries,
        reindex : BOOLEAN, payload : Content \cup {NoContent}, doc : Doc \cup {NoDoc}]

Absent == [status |-> "absent", worker |-> NoWorker, lease |-> "none", due |-> TRUE,
           retries |-> 0, reindex |-> FALSE, payload |-> NoContent, doc |-> NoDoc]

\* doc and retries are what the claim returned; index() sets doc and result.
Proc == [pc : {"off", "poll", "read", "build", "write", "join",
               "release", "complete", "report", "stopped", "crashed"},
         job : Job \cup {NoJob}, doc : Doc \cup {NoDoc}, retries : 0..MaxRetries,
         ctx : {"open", "timeout", "cancelled"}, hb : {"off", "beating", "quiet", "lost"},
         result : {"none", "ok", "transient", "permanent", "cancelled"}]

At(pc) == [pc |-> pc, job |-> NoJob, doc |-> NoDoc, retries |-> 0,
           ctx |-> "open", hb |-> "off", result |-> "none"]

NoRequest == [pc |-> "idle", doc |-> NoDoc, payload |-> NoContent]

Live(d) == d \in Doc /\ docs[d] \in Content

Init ==
    /\ row = [j \in Job |-> Absent]
    /\ finished = <<>>
    /\ docs = [d \in Doc |-> "unborn"]
    /\ proc = [w \in Worker |-> At("off")]
    /\ stop = {}
    /\ web = [h \in Handler |-> NoRequest]
    /\ faults = 0

\* A fault happens as long as the budget of the run lasts.
Fault == faults < MaxFaults /\ faults' = faults + 1

-----------------------------------------------------------------------------
(* Web handlers.                                                           *)

Insert(j, r) ==
    /\ row[j].status = "absent"
    /\ row' = [row EXCEPT ![j] = r]

Upload(j, c) ==
    /\ Insert(j, [Absent EXCEPT !.status = "queued", !.payload = c])
    /\ UNCHANGED <<finished, docs, proc, stop, web, faults>>

\* Faulty variant: the last completed job, whatever its document.
AnySourceOf(d) ==
    IF finished = <<>> \/ ~Live(d) THEN NoContent ELSE row[Last(finished)].payload

\* The payload of the job of d that completed last, or an empty one.
SourceOf(d) ==
    LET last == {i \in DOMAIN finished :
                    /\ row[finished[i]].doc = d
                    /\ \A k \in DOMAIN finished : row[finished[k]].doc = d => k <= i}
    IN  IF last = {} THEN NoContent
        ELSE row[finished[CHOOSE i \in last : TRUE]].payload

GetDocumentSource(h, d) ==
    /\ web[h].pc = "idle"
    /\ Live(d)
    /\ web' = [web EXCEPT ![h] = [pc |-> "sourced", doc |-> d, payload |-> SourceOf(d)]]
    /\ UNCHANGED <<row, finished, docs, proc, stop, faults>>

ActiveReindex(d) ==
    {j \in Job : row[j].doc = d /\ row[j].reindex /\ row[j].status \in {"queued", "processing"}}

\* An active job of the document is answered with 409.
FindActiveReindexJob(h) ==
    /\ web[h].pc = "sourced"
    /\ web' = [web EXCEPT ![h] = IF ActiveReindex(@.doc) = {}
                                 THEN [@ EXCEPT !.pc = "checked"] ELSE NoRequest]
    /\ UNCHANGED <<row, finished, docs, proc, stop, faults>>

\* documents(id) is a foreign key: with the document gone the INSERT fails.
CreateReindexJob(h, j) ==
    /\ web[h].pc = "checked"
    /\ IF Live(web[h].doc)
       THEN Insert(j, [Absent EXCEPT !.status = "queued", !.reindex = TRUE,
                                     !.payload = web[h].payload, !.doc = web[h].doc])
       ELSE UNCHANGED row
    /\ web' = [web EXCEPT ![h] = NoRequest]
    /\ UNCHANGED <<finished, docs, proc, stop, faults>>

\* Faulty variant: no ON DELETE SET NULL.
DeleteOnly(d) ==
    /\ Live(d)
    /\ Cardinality({e \in Doc : docs[e] = "deleted"}) < MaxDeletes
    /\ docs' = [docs EXCEPT ![d] = "deleted"]
    /\ UNCHANGED <<row, finished, proc, stop, web, faults>>

\* ON DELETE SET NULL
DeleteDocument(d) ==
    /\ Live(d)
    /\ Cardinality({e \in Doc : docs[e] = "deleted"}) < MaxDeletes
    /\ docs' = [docs EXCEPT ![d] = "deleted"]
    /\ row' = [j \in Job |-> IF row[j].doc = d THEN [row[j] EXCEPT !.doc = NoDoc] ELSE row[j]]
    /\ UNCHANGED <<finished, proc, stop, web, faults>>

-----------------------------------------------------------------------------
(* The worker's loop.                                                      *)

Freed(j, status) ==
    [row[j] EXCEPT !.status = status, !.worker = NoWorker, !.lease = "none", !.due = TRUE]

\* Faulty variant: recovery looks for a NULL lease only.
ExpiredNull(j) == row[j].status = "processing" /\ row[j].lease = "none"

Expired(j) == row[j].status = "processing" /\ row[j].lease = "expired"

RecoverExpired ==
    row' = [j \in Job |-> IF Expired(j) THEN Freed(j, "queued") ELSE row[j]]

Start(w) ==
    /\ proc[w].pc = "off"
    /\ RecoverExpired
    /\ proc' = [proc EXCEPT ![w] = At("poll")]
    /\ UNCHANGED <<finished, docs, stop, web, faults>>

\* Polling: the loop checks its context before it recovers or claims.
Polls(w) == proc[w].pc = "poll" /\ w \notin stop

PeriodicRecovery(w) ==
    /\ Polls(w)
    /\ \E j \in Job : Expired(j)
    /\ RecoverExpired
    /\ UNCHANGED <<finished, docs, proc, stop, web, faults>>

MarkClaimed(w, j) ==
    /\ Polls(w)
    /\ row[j].status = "queued" /\ row[j].due
    /\ row' = [row EXCEPT ![j].status = "processing", ![j].worker = w, ![j].lease = "live"]
    /\ UNCHANGED <<finished, docs, stop, web>>

\* process() begins and starts the heartbeat goroutine.
Claim(w, j) ==
    /\ MarkClaimed(w, j)
    /\ proc' = [proc EXCEPT ![w] = [At("read") EXCEPT
                  !.job = j, !.doc = row[j].doc, !.retries = row[j].retries, !.hb = "beating"]]
    /\ UNCHANGED faults

\* The commit went through but ClaimNextIngestionJob returned an error.
ClaimUnheard(w, j) ==
    /\ MarkClaimed(w, j)
    /\ Fault
    /\ UNCHANGED proc

Stop(w) ==
    /\ proc[w].pc = "poll" /\ w \in stop
    /\ proc' = [proc EXCEPT ![w] = At("stopped")]
    /\ UNCHANGED <<row, finished, docs, stop, web, faults>>

-----------------------------------------------------------------------------
(* index(): the calls of the processing goroutine under jobCtx.            *)

Working(w) == proc[w].pc \in {"read", "build", "write"}

CtxDone(w) == proc[w].ctx # "open" \/ w \in stop

\* context.DeadlineExceeded is retryable, context.Canceled is not.
CtxError(w) == IF proc[w].ctx = "timeout" THEN "transient" ELSE "cancelled"

GoTo(w, pc) == proc' = [proc EXCEPT ![w].pc = pc]

\* index() returns: process() stops the heartbeat and waits for it.
Returns(w, result, d) ==
    proc' = [proc EXCEPT ![w].pc = "join", ![w].result = result, ![w].doc = d]

Fails(w, result) == Returns(w, result, proc[w].doc)

\* The job ran into its context, or into the database.
CallFails(w) ==
    /\ Working(w)
    /\ \/ CtxDone(w) /\ Fails(w, CtxError(w)) /\ UNCHANGED faults
       \/ Fault /\ Fails(w, "transient")
    /\ UNCHANGED <<row, finished, docs, stop, web>>

\* FindDocumentByChecksum for an upload; ListDocumentChunks for a reindex
\* without payload; the check of the document id for one with a payload.
Read(w) ==
    LET r == row[proc[w].job]
        d == proc[w].doc
        found == {e \in Doc : docs[e] = r.payload}
    IN  /\ proc[w].pc = "read" /\ ~CtxDone(w)
        /\ CASE ~r.reindex /\ found # {}  -> \E e \in found : Returns(w, "ok", e)
             [] r.reindex /\ (d = NoDoc \/ (r.payload = NoContent /\ ~Live(d)))
                                          -> Fails(w, "permanent")
             [] OTHER                     -> GoTo(w, "build")
        /\ UNCHANGED <<row, finished, docs, stop, web, faults>>

\* buildChunks, rebuildStoredChunks: parsing may fail, embedding may fail.
Build(w) ==
    /\ proc[w].pc = "build" /\ ~CtxDone(w)
    /\ GoTo(w, "write") \/ Fails(w, "transient") \/ Fails(w, "permanent")
    /\ UNCHANGED <<row, finished, docs, stop, web, faults>>

\* Faulty variant: documents.checksum is not UNIQUE.
NeverTaken(c) == c \notin Content

ChecksumTaken(c) == \E e \in Doc : docs[e] = c

\* INSERT INTO documents under UNIQUE(checksum); 23505 is retryable.
CreateDocument(w, d) ==
    LET c == row[proc[w].job].payload IN
    /\ proc[w].pc = "write" /\ ~row[proc[w].job].reindex
    /\ IF ChecksumTaken(c)
       THEN Fails(w, "transient") /\ UNCHANGED <<docs, faults>>
       ELSE /\ docs[d] = "unborn"
            /\ docs' = [docs EXCEPT ![d] = c]
            /\ \/ Returns(w, "ok", d) /\ UNCHANGED faults
               \/ Fails(w, "transient") /\ Fault        \* the reply to COMMIT is lost
    /\ UNCHANGED <<row, finished, stop, web>>

\* INSERT INTO chunks under the foreign key; 23503 is permanent.
ReplaceDocumentChunks(w) ==
    /\ proc[w].pc = "write" /\ row[proc[w].job].reindex
    /\ IF Live(proc[w].doc) THEN Returns(w, "ok", proc[w].doc) ELSE Fails(w, "permanent")
    /\ UNCHANGED <<row, finished, docs, stop, web, faults>>

-----------------------------------------------------------------------------
(* The heartbeat goroutine.  A renewal that succeeds changes nothing here. *)

IsMine(w, j) == row[j].status = "processing" /\ row[j].worker = w
OwnsLease(w, j) == IsMine(w, j) /\ row[j].lease = "live"

HeartbeatEnds(w, hb) ==
    /\ proc[w].hb = "beating"
    /\ proc' = [proc EXCEPT ![w].hb = hb,
                  ![w].ctx = IF hb = "lost" /\ ~CtxDone(w) THEN "cancelled" ELSE @]
    /\ UNCHANGED <<row, finished, docs, stop, web>>

\* Faulty variant: the heartbeat's context is cut off from the worker's and
\* from process().
HeartbeatDetached(w) ==
    /\ proc[w].ctx # "open"
    /\ HeartbeatEnds(w, "quiet")
    /\ UNCHANGED faults

\* ctx.Done: index() returned, the job timed out, or the worker shuts down.
HeartbeatStops(w) ==
    /\ CtxDone(w) \/ proc[w].pc = "join"
    /\ HeartbeatEnds(w, "quiet")
    /\ UNCHANGED faults

\* RenewIngestionJobLease matched no row.
HeartbeatLosesLease(w) ==
    /\ proc[w].hb = "beating" /\ ~OwnsLease(w, proc[w].job)
    /\ HeartbeatEnds(w, "lost")
    /\ UNCHANGED faults

\* RenewIngestionJobLease failed while the job's context was still open.
HeartbeatFails(w) ==
    /\ ~CtxDone(w)
    /\ HeartbeatEnds(w, "lost")
    /\ Fault

JobTimeout(w) ==
    /\ Working(w) /\ ~CtxDone(w)
    /\ proc' = [proc EXCEPT ![w].ctx = "timeout"]
    /\ UNCHANGED <<row, finished, docs, stop, web, faults>>

-----------------------------------------------------------------------------
(* process() after index(): one status statement, whatever happened.       *)

\* Faulty variant: process() does not look at its context.
LeaseLost(w) == proc[w].hb = "lost"

MustRelease(w) == w \in stop \/ proc[w].hb = "lost"

\* The order of the tests: shutdown, then the heartbeat's error, then index's.
Join(w) ==
    /\ proc[w].pc = "join" /\ proc[w].hb # "beating"
    /\ GoTo(w, CASE MustRelease(w)           -> "release"
                 [] proc[w].result = "ok"    -> "complete"
                 [] OTHER                    -> "report")
    /\ UNCHANGED <<row, finished, docs, stop, web, faults>>

Return(w) == proc' = [proc EXCEPT ![w] = At("poll")]

\* Faulty variant: the statement runs under the cancelled context.
ReleaseCancelled(w) ==
    /\ proc[w].pc = "release"
    /\ Return(w)
    /\ UNCHANGED <<row, finished, docs, stop, web, faults>>

ReleaseIngestionJob(w) ==
    LET j == proc[w].job IN
    /\ proc[w].pc = "release"
    /\ row' = IF IsMine(w, j) THEN [row EXCEPT ![j] = Freed(j, "queued")] ELSE row
    /\ Return(w)
    /\ UNCHANGED <<finished, docs, stop, web, faults>>

\* document_id is a foreign key: with the document gone the UPDATE fails and
\* process() leaves the row as it is.
CompleteIngestionJob(w) ==
    LET j == proc[w].job IN
    /\ proc[w].pc = "complete"
    /\ IF OwnsLease(w, j) /\ Live(proc[w].doc)
       THEN /\ row' = [row EXCEPT ![j] = [Freed(j, "completed") EXCEPT !.doc = proc[w].doc]]
            /\ finished' = Append(finished, j)
       ELSE UNCHANGED <<row, finished>>
    /\ Return(w)
    /\ UNCHANGED <<docs, stop, web, faults>>

\* Faulty variant: one retry more than there are delays.
RetryOnceMore(w) == proc[w].retries <= MaxRetries

RetryLeft(w) == proc[w].retries < MaxRetries

FailIngestionJob(w) ==
    LET j == proc[w].job
        retry == proc[w].result = "transient" /\ RetryLeft(w)
    IN  /\ proc[w].pc = "report"
        /\ row' = CASE ~OwnsLease(w, j) -> row
                    [] OwnsLease(w, j) /\ retry ->
                         [row EXCEPT ![j] = [Freed(j, "queued") EXCEPT
                                               !.due = FALSE, !.retries = @ + 1]]
                    [] OTHER -> [row EXCEPT ![j] = Freed(j, "failed")]
        /\ Return(w)
        /\ UNCHANGED <<finished, docs, stop, web, faults>>

\* The status statement itself failed: process() logs it and returns.
StatusLost(w) ==
    /\ proc[w].pc \in {"release", "complete", "report"}
    /\ Fault
    /\ Return(w)
    /\ UNCHANGED <<row, finished, docs, stop, web>>

-----------------------------------------------------------------------------
(* Time, shutdown and crashes.                                             *)

\* Some worker renews the lease of j: it runs the job and its heartbeat beats.
Renewed(j) == \E w \in Worker : proc[w].job = j /\ OwnsLease(w, j)

\* The lease of a job nobody works on any more runs out ...
LeaseRunsOut(j) ==
    /\ row[j].lease = "live" /\ ~Renewed(j)
    /\ row' = [row EXCEPT ![j].lease = "expired"]
    /\ UNCHANGED <<finished, docs, proc, stop, web, faults>>

\* ... and a worker, or its link to the database, can stall for that long.
Stall(j) ==
    /\ row[j].lease = "live" /\ Renewed(j)
    /\ row' = [row EXCEPT ![j].lease = "expired"]
    /\ Fault
    /\ UNCHANGED <<finished, docs, proc, stop, web>>

BackoffEnds(j) ==
    /\ ~row[j].due
    /\ row' = [row EXCEPT ![j].due = TRUE]
    /\ UNCHANGED <<finished, docs, proc, stop, web, faults>>

Running(w) == proc[w].pc \notin {"off", "stopped", "crashed"}

Shutdown(w) ==
    /\ w \in Mortal \ stop /\ Running(w)
    /\ stop' = stop \cup {w}
    /\ UNCHANGED <<row, finished, docs, proc, web, faults>>

Crash(w) ==
    /\ w \in Mortal /\ Running(w)
    /\ proc' = [proc EXCEPT ![w] = At("crashed")]
    /\ UNCHANGED <<row, finished, docs, stop, web, faults>>

-----------------------------------------------------------------------------
\* What the goroutines of w do by themselves.
Index(w) ==
    \/ Read(w) \/ Build(w) \/ CallFails(w) \/ ReplaceDocumentChunks(w)
    \/ \E d \in Doc : CreateDocument(w, d)
Heartbeat(w) == HeartbeatStops(w) \/ HeartbeatLosesLease(w) \/ HeartbeatFails(w)
Conclude(w)  ==
    \/ Join(w) \/ ReleaseIngestionJob(w) \/ CompleteIngestionJob(w)
    \/ FailIngestionJob(w) \/ StatusLost(w)

Next ==
    \/ \E j \in Job : \/ \E c \in Content : Upload(j, c)
                      \/ LeaseRunsOut(j) \/ Stall(j) \/ BackoffEnds(j)
    \/ \E h \in Handler : \/ FindActiveReindexJob(h)
                          \/ \E d \in Doc : GetDocumentSource(h, d)
                          \/ \E j \in Job : CreateReindexJob(h, j)
    \/ \E d \in Doc : DeleteDocument(d)
    \/ \E w \in Worker : \/ Start(w) \/ PeriodicRecovery(w) \/ Stop(w)
                         \/ \E j \in Job : Claim(w, j) \/ ClaimUnheard(w, j)
                         \/ Index(w) \/ Heartbeat(w) \/ Conclude(w)
                         \/ JobTimeout(w) \/ Shutdown(w) \/ Crash(w)

Spec == Init /\ [][Next]_vars

\* The scheduler runs every goroutine, every call returns or times out, a
\* process that never dies is started and polls, and time passes.
Fairness ==
    /\ \A w \in Worker :
         /\ WF_vars(w \notin Mortal /\ Start(w))
         /\ WF_vars(PeriodicRecovery(w))
         /\ WF_vars(\E j \in Job : Claim(w, j))
         /\ WF_vars(Index(w))
         /\ WF_vars(HeartbeatStops(w) \/ HeartbeatLosesLease(w))
         /\ WF_vars(Conclude(w))
         /\ WF_vars(Stop(w))
    /\ \A j \in Job : WF_vars(LeaseRunsOut(j)) /\ WF_vars(BackoffEnds(j))

FairSpec == Spec /\ Fairness

-----------------------------------------------------------------------------
(* Properties.                                                             *)

TypeOK ==
    /\ row \in [Job -> Row]
    /\ finished \in Seq(Job)
    /\ docs \in [Doc -> Content \cup {"unborn", "deleted"}]
    /\ proc \in [Worker -> Proc]
    /\ stop \subseteq Mortal
    /\ web \in [Handler -> [pc : {"idle", "sourced", "checked"}, doc : Doc \cup {NoDoc},
                            payload : Content \cup {NoContent}]]
    /\ faults \in 0..MaxFaults

\* However often the same file is uploaded, retried and taken over, there is
\* one document for it (README.md:216, store.go:111 and 177).
NoDuplicateDocument ==
    \A d, e \in Doc : Live(d) /\ docs[d] = docs[e] => d = e

\* A payload and the document its job names belong together, across uploads
\* that found an existing document, deletions and reindex jobs that copied
\* their payload from another job: reindexing never puts the text of one file
\* under the document of another, and a completed upload has its document
\* unless somebody deleted it.
PayloadMatchesDocument ==
    \A j \in Job :
        /\ row[j].doc # NoDoc =>
             /\ Live(row[j].doc)
             /\ row[j].payload \in {NoContent, docs[row[j].doc]}
        /\ row[j].status = "completed" /\ row[j].doc = NoDoc =>
             \E d \in Doc : docs[d] = "deleted"

\* A job whose call was cut off by its worker's shutdown or lost lease is not
\* reported as failed and is not charged a retry.
CancelIsNoFailure ==
    \A w \in Worker : proc[w].pc = "report" => proc[w].result # "cancelled"

\* A worker that shut down in order leaves no job to wait for its lease: as
\* long as no statement failed and no document was deleted under it.
ShutdownReleases ==
    \A w \in Worker, j \in Job :
        proc[w].pc = "stopped" /\ faults = 0 /\ (\A d \in Doc : docs[d] # "deleted")
        => row[j].worker # w

\* What README.md:195 says of a reindex: if the original upload of a document
\* is still there, it is rebuilt from it.
SourceFindsOriginal ==
    \A d \in Doc : Live(d) =>
        \/ SourceOf(d) # NoContent
        \/ ~\E j \in Job : row[j].status = "completed" /\ row[j].doc = d /\ ~row[j].reindex

\* Every accepted job is completed or failed in the end (README.md:199).
AcceptedJobsEnd ==
    \A j \in Job : row[j].status = "queued" ~> row[j].status \in Terminal

\* A worker told to shut down does: no goroutine waits for the other forever.
ShutdownEnds ==
    \A w \in Worker : w \in stop ~> proc[w].pc \in {"stopped", "crashed"}
=============================================================================
