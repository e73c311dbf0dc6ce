-------------------------- MODULE IngestionProofs ---------------------------
(***************************************************************************)
(* What Ingestion promises for every number of jobs, workers, requests and *)
(* documents, every retry budget, and any number of faults and deletions,  *)
(* and that it implements QueueContract.                                   *)
(***************************************************************************)
EXTENDS IngestionTickets, TLAPS

-----------------------------------------------------------------------------
(* The inductive invariant.                                                *)

Busy == {"read", "build", "write", "join", "release", "complete", "report"}

\* A worker's name is in a row, and a lease, only while the job is processing,
\* and an upload has the content of its file.
RowsAreFreed ==
    \A j \in Job :
        /\ row[j].status = "processing" <=> row[j].worker # NoWorker
        /\ row[j].status # "processing" => row[j].lease = "none"
        /\ row[j].status # "absent" /\ ~row[j].reindex => row[j].payload \in Content

\* Documents are never reborn: d is gone, or it has the content of the payload.
Fits(d, payload) ==
    /\ d \in Doc
    /\ docs[d] = "deleted" \/ (docs[d] \in Content /\ payload \in {NoContent, docs[d]})

\* What a reindex request and a worker remember of a document and a payload
\* stays true, or the document is gone.
RequestsRemember ==
    \A h \in Handler : web[h].pc # "idle" => Fits(web[h].doc, web[h].payload)

Remembers(w) ==
    /\ proc[w].pc \in Busy <=> proc[w].job # NoJob
    /\ proc[w].job # NoJob =>
         /\ row[proc[w].job].status # "absent"
         /\ row[proc[w].job].worker = w => row[proc[w].job].retries = proc[w].retries
         /\ proc[w].doc # NoDoc => Fits(proc[w].doc, row[proc[w].job].payload)

WorkersRemember == \A w \in Worker : Remembers(w)

\* What index() returned: a document, if all went well; "cancelled" only if the
\* worker shuts down or its heartbeat failed, and then it is not reported.  The
\* heartbeat beats until process() has waited for it, not longer.
HasCause(w) ==
    /\ proc[w].hb = "beating" => proc[w].pc \in {"read", "build", "write", "join"}
    /\ proc[w].result = "ok" => proc[w].doc # NoDoc
    /\ proc[w].pc = "complete" => proc[w].result = "ok"
    /\ proc[w].pc = "report" => proc[w].result # "cancelled"
    /\ proc[w].ctx = "cancelled" => proc[w].hb = "lost"
    /\ proc[w].result = "cancelled" => w \in stop \/ proc[w].hb = "lost"

ResultsHaveCause == \A w \in Worker : HasCause(w)

\* Nothing went wrong so far: no statement failed and no document was deleted.
Undisturbed == faults = 0 /\ \A d \in Doc : docs[d] # "deleted"

\* As long as nothing went wrong, a row names the worker that runs the job, and
\* its lease is live, unless the worker has crashed.
HoldersRun ==
    Undisturbed =>
        \A w \in Worker, j \in Job :
            row[j].worker = w /\ proc[w].pc # "crashed" =>
                proc[w].job = j /\ row[j].lease = "live"

IInv ==
    /\ TypeOK
    /\ RowsAreFreed
    /\ RequestsRemember
    /\ WorkersRemember
    /\ ResultsHaveCause
    /\ HoldersRun
    /\ NoDuplicateDocument
    /\ PayloadMatchesDocument

-----------------------------------------------------------------------------
(* Types.                                                                  *)

\* The record updates of the statements yield rows, and those of the goroutines
\* yield states of a worker.
LEMMA RowTypes ==
    ASSUME TypeOK, NEW j \in Job
    PROVE  /\ row[j] \in Row
           /\ Absent \in Row
           /\ \A s \in Status : Freed(j, s) \in Row
<1>1. row[j] \in Row
  BY DEF TypeOK
<1>2. Absent \in Row
  BY IngestionAssumption DEF Absent, Row, Status
<1>3. ASSUME NEW s \in Status PROVE Freed(j, s) \in Row
  BY <1>1 DEF Freed, Row
<1>. QED
  BY <1>1, <1>2, <1>3

LEMMA ProcTypes ==
    ASSUME TypeOK, NEW w \in Worker
    PROVE  /\ proc[w] \in Proc
           /\ \A pc \in {"off", "poll", "read", "stopped", "crashed"} : At(pc) \in Proc
           /\ \A pc \in {"write", "build", "release", "complete", "report"} :
                 [proc[w] EXCEPT !.pc = pc] \in Proc
           /\ \A result \in {"ok", "transient", "permanent", "cancelled"}, d \in Doc \cup {NoDoc} :
                 [proc[w] EXCEPT !.pc = "join", !.result = result, !.doc = d] \in Proc
           /\ \A hb \in {"quiet", "lost"}, ctx \in {"open", "timeout", "cancelled"} :
                 [proc[w] EXCEPT !.hb = hb, !.ctx = ctx] \in Proc
           /\ [proc[w] EXCEPT !.ctx = "timeout"] \in Proc
<1>1. proc[w] \in Proc
  BY DEF TypeOK
<1>2. \A pc \in {"off", "poll", "read", "stopped", "crashed"} : At(pc) \in Proc
  BY IngestionAssumption DEF At, Proc
<1>3. \A pc \in {"write", "build", "release", "complete", "report"} :
          [proc[w] EXCEPT !.pc = pc] \in Proc
  BY <1>1 DEF Proc
<1>4. \A result \in {"ok", "transient", "permanent", "cancelled"}, d \in Doc \cup {NoDoc} :
          [proc[w] EXCEPT !.pc = "join", !.result = result, !.doc = d] \in Proc
  BY <1>1 DEF Proc
<1>5. \A hb \in {"quiet", "lost"}, ctx \in {"open", "timeout", "cancelled"} :
          [proc[w] EXCEPT !.hb = hb, !.ctx = ctx] \in Proc
  BY <1>1 DEF Proc
<1>6. [proc[w] EXCEPT !.ctx = "timeout"] \in Proc
  BY <1>1 DEF Proc
<1>. QED
  BY <1>1, <1>2, <1>3, <1>4, <1>5, <1>6

\* The payload a reindex request copies is that of a row, or empty.
LEMMA SourceIsPayload ==
    ASSUME TypeOK, NEW d
    PROVE  SourceOf(d) = NoContent \/ \E j \in Job : row[j].doc = d /\ SourceOf(d) = row[j].payload
<1>. DEFINE last == {i \in DOMAIN finished :
                        /\ row[finished[i]].doc = d
                        /\ \A k \in DOMAIN finished : row[finished[k]].doc = d => k <= i}
            i    == CHOOSE i \in last : TRUE
<1>1. CASE last = {}
  BY <1>1 DEF SourceOf
<1>2. CASE last # {}
  <2>1. i \in last
    BY <1>2
  <2>2. finished[i] \in Job /\ row[finished[i]].doc = d
    BY <2>1 DEF TypeOK
  <2>3. SourceOf(d) = row[finished[i]].payload
    BY <1>2 DEF SourceOf
  <2>. QED
    BY <2>2, <2>3
<1>. QED
  BY <1>1, <1>2

WebType == [pc : {"idle", "sourced", "checked"}, doc : Doc \cup {NoDoc},
            payload : Content \cup {NoContent}]

\* A request of the web keeps every variable in its type.
LEMMA WebTyped ==
    ASSUME TypeOK,
           \/ \E j \in Job, c \in Content : Upload(j, c)
           \/ \E h \in Handler : \/ FindActiveReindexJob(h)
                                 \/ \E d \in Doc : GetDocumentSource(h, d)
                                 \/ \E j \in Job : CreateReindexJob(h, j)
           \/ \E d \in Doc : DeleteDocument(d)
    PROVE  TypeOK'
<1>1. ASSUME NEW j \in Job, NEW c \in Content, Upload(j, c) PROVE TypeOK'
  <2>1. [Absent EXCEPT !.status = "queued", !.payload = c] \in Row
    BY RowTypes DEF Row, Status
  <2>. QED
    BY <1>1, <2>1 DEF Upload, Insert, TypeOK
<1>2. ASSUME NEW h \in Handler, FindActiveReindexJob(h) PROVE TypeOK'
  <2>1. NoRequest \in WebType /\ [web[h] EXCEPT !.pc = "checked"] \in WebType
    BY DEF TypeOK, WebType, NoRequest
  <2>2. web' \in [Handler -> WebType]
    BY <1>2, <2>1 DEF FindActiveReindexJob, TypeOK, WebType
  <2>. QED
    BY <1>2, <2>2 DEF FindActiveReindexJob, TypeOK, WebType
<1>3. ASSUME NEW h \in Handler, NEW d \in Doc, GetDocumentSource(h, d) PROVE TypeOK'
  <2>1. SourceOf(d) \in Content \cup {NoContent}
    BY SourceIsPayload, RowTypes DEF Row
  <2>2. [pc |-> "sourced", doc |-> d, payload |-> SourceOf(d)] \in WebType
    BY <2>1 DEF WebType
  <2>3. web' \in [Handler -> WebType]
    BY <1>3, <2>2 DEF GetDocumentSource, TypeOK, WebType
  <2>. QED
    BY <1>3, <2>3 DEF GetDocumentSource, TypeOK, WebType
<1>4. ASSUME NEW h \in Handler, NEW j \in Job, CreateReindexJob(h, j) PROVE TypeOK'
  <2>1. web[h] \in WebType /\ NoRequest \in WebType
    BY DEF TypeOK, WebType, NoRequest
  <2>2. [Absent EXCEPT !.status = "queued", !.reindex = TRUE,
                       !.payload = web[h].payload, !.doc = web[h].doc] \in Row
    BY <2>1, RowTypes DEF Row, Status, WebType
  <2>3. row' \in [Job -> Row]
    BY <1>4, <2>2 DEF CreateReindexJob, Insert, TypeOK
  <2>4. web' \in [Handler -> WebType]
    BY <1>4, <2>1 DEF CreateReindexJob, TypeOK, WebType
  <2>. QED
    BY <1>4, <2>3, <2>4 DEF CreateReindexJob, TypeOK, WebType
<1>5. ASSUME NEW d \in Doc, DeleteDocument(d) PROVE TypeOK'
  <2>1. \A j \in Job : row[j] \in Row /\ [row[j] EXCEPT !.doc = NoDoc] \in Row
    BY RowTypes DEF Row
  <2>2. row' \in [Job -> Row]
    BY <1>5, <2>1 DEF DeleteDocument
  <2>. QED
    BY <1>5, <2>2 DEF DeleteDocument, TypeOK
<1>. QED
  BY <1>1, <1>2, <1>3, <1>4, <1>5

\* A fault stays within the budget.
LEMMA FaultTyped ==
    ASSUME TypeOK, Fault \/ UNCHANGED faults
    PROVE  faults' \in 0..MaxFaults
BY IngestionAssumption DEF Fault, TypeOK

\* Recovery yields rows.
LEMMA RecoveryTyped ==
    ASSUME TypeOK, RecoverExpired
    PROVE  row' \in [Job -> Row]
<1>1. \A j \in Job : row[j] \in Row /\ Freed(j, "queued") \in Row
  BY RowTypes DEF Status
<1>. QED
  BY <1>1 DEF RecoverExpired

\* So does the claim.
LEMMA ClaimTyped ==
    ASSUME TypeOK, NEW w \in Worker, NEW j \in Job, MarkClaimed(w, j)
    PROVE  row' \in [Job -> Row]
<1>1. row[j] \in Row
  BY RowTypes
<1>2. [row[j] EXCEPT !.status = "processing", !.worker = w, !.lease = "live"] \in Row
  BY <1>1 DEF Row, Status
<1>3. row' = [row EXCEPT ![j] =
                [row[j] EXCEPT !.status = "processing", !.worker = w, !.lease = "live"]]
  BY DEF MarkClaimed
<1>. QED
  BY <1>2, <1>3 DEF TypeOK

\* The loop of a worker keeps every variable in its type.
LEMMA LoopTyped ==
    ASSUME TypeOK, NEW w \in Worker,
           \/ Start(w) \/ PeriodicRecovery(w) \/ Stop(w)
           \/ \E j \in Job : Claim(w, j) \/ ClaimUnheard(w, j)
    PROVE  TypeOK'
<1>1. CASE Start(w)
  BY <1>1, RecoveryTyped, ProcTypes DEF Start, TypeOK
<1>2. CASE PeriodicRecovery(w)
  BY <1>2, RecoveryTyped DEF PeriodicRecovery, TypeOK
<1>3. CASE Stop(w)
  BY <1>3, ProcTypes DEF Stop, TypeOK
<1>4. ASSUME NEW j \in Job, Claim(w, j) PROVE TypeOK'
  <2>1. At("read") \in Proc /\ row[j] \in Row
    BY ProcTypes, RowTypes
  <2>2. [At("read") EXCEPT !.job = j, !.doc = row[j].doc, !.retries = row[j].retries,
                           !.hb = "beating"] \in Proc
    BY <2>1 DEF Proc, Row
  <2>. QED
    BY <1>4, <2>2, ClaimTyped DEF Claim, MarkClaimed, TypeOK
<1>5. ASSUME NEW j \in Job, ClaimUnheard(w, j) PROVE TypeOK'
  <2>1. row' \in [Job -> Row] /\ faults' \in 0..MaxFaults
    BY <1>5, ClaimTyped, FaultTyped DEF ClaimUnheard
  <2>. QED
    BY <1>5, <2>1 DEF ClaimUnheard, MarkClaimed, TypeOK
<1>. QED
  BY <1>1, <1>2, <1>3, <1>4, <1>5

\* So do the calls of index(), which return with one of its results.
LEMMA ReturnsTyped ==
    ASSUME TypeOK, NEW w \in Worker, NEW d \in Doc \cup {NoDoc},
           NEW result \in {"ok", "transient", "permanent", "cancelled"}, Returns(w, result, d)
    PROVE  proc' \in [Worker -> Proc]
<1>1. [proc[w] EXCEPT !.pc = "join", !.result = result, !.doc = d] \in Proc
  BY ProcTypes
<1>2. proc' = [proc EXCEPT ![w] = [proc[w] EXCEPT !.pc = "join", !.result = result, !.doc = d]]
  BY DEF Returns
<1>. QED
  BY <1>1, <1>2 DEF TypeOK

LEMMA FailsTyped ==
    ASSUME TypeOK, NEW w \in Worker, NEW result \in {"transient", "permanent", "cancelled"},
           Fails(w, result)
    PROVE  proc' \in [Worker -> Proc]
<1>1. proc[w] \in Proc
  BY ProcTypes
<1>2. proc[w].doc \in Doc \cup {NoDoc}
  BY <1>1 DEF Proc
<1>. QED
  BY <1>2, ReturnsTyped DEF Fails

LEMMA GoToTyped ==
    ASSUME TypeOK, NEW w \in Worker, NEW pc \in {"write", "build", "release", "complete", "report"},
           GoTo(w, pc)
    PROVE  proc' \in [Worker -> Proc]
<1>1. [proc[w] EXCEPT !.pc = pc] \in Proc
  BY ProcTypes
<1>2. proc' = [proc EXCEPT ![w] = [proc[w] EXCEPT !.pc = pc]]
  BY DEF GoTo
<1>. QED
  BY <1>1, <1>2 DEF TypeOK

\* A worker between its claim and its status statement has a job.
LEMMA BusyHasJob ==
    ASSUME TypeOK, WorkersRemember, NEW w \in Worker, proc[w].pc \in Busy
    PROVE  /\ proc[w].job \in Job
           /\ row[proc[w].job].status # "absent"
           /\ row[proc[w].job].worker = w => row[proc[w].job].retries = proc[w].retries
           /\ proc[w].doc # NoDoc => Fits(proc[w].doc, row[proc[w].job].payload)
<1>1. proc[w] \in Proc
  BY ProcTypes
<1>2. proc[w].job \in Job
  BY <1>1 DEF WorkersRemember, Remembers, Proc
<1>. QED
  BY <1>2 DEF WorkersRemember, Remembers

\* index() keeps every variable in its type: what an upload writes is the content
\* of its file.
LEMMA IndexTyped ==
    ASSUME TypeOK, RowsAreFreed, WorkersRemember, NEW w \in Worker, Index(w)
    PROVE  TypeOK'
<1>1. CASE Read(w)
  <2>1. proc' \in [Worker -> Proc]
    <3>1. ASSUME NEW e \in Doc, Returns(w, "ok", e) PROVE proc' \in [Worker -> Proc]
      BY <3>1, ReturnsTyped
    <3>2. ASSUME Fails(w, "permanent") PROVE proc' \in [Worker -> Proc]
      BY <3>2, FailsTyped
    <3>3. ASSUME GoTo(w, "build") PROVE proc' \in [Worker -> Proc]
      BY <3>3, GoToTyped
    <3>. QED
      BY <1>1, <3>1, <3>2, <3>3 DEF Read
  <2>. QED
    BY <1>1, <2>1 DEF Read, TypeOK
<1>2. CASE Build(w)
  <2>1. proc' \in [Worker -> Proc]
    BY <1>2, GoToTyped, FailsTyped DEF Build
  <2>. QED
    BY <1>2, <2>1 DEF Build, TypeOK
<1>3. CASE CallFails(w)
  <2>1. CtxError(w) \in {"transient", "permanent", "cancelled"}
    BY DEF CtxError
  <2>2. proc' \in [Worker -> Proc]
    BY <1>3, <2>1, FailsTyped DEF CallFails
  <2>3. faults' \in 0..MaxFaults
    BY <1>3, FaultTyped DEF CallFails
  <2>. QED
    BY <1>3, <2>2, <2>3 DEF CallFails, TypeOK
<1>4. CASE ReplaceDocumentChunks(w)
  <2>1. CASE Live(proc[w].doc)
    <3>1. proc' \in [Worker -> Proc]
      BY <1>4, <2>1, ReturnsTyped DEF ReplaceDocumentChunks, Live
    <3>. QED
      BY <1>4, <3>1 DEF ReplaceDocumentChunks, TypeOK
  <2>2. CASE ~Live(proc[w].doc)
    <3>1. proc' \in [Worker -> Proc]
      BY <1>4, <2>2, FailsTyped DEF ReplaceDocumentChunks
    <3>. QED
      BY <1>4, <3>1 DEF ReplaceDocumentChunks, TypeOK
  <2>. QED
    BY <2>1, <2>2
<1>5. ASSUME NEW d \in Doc, CreateDocument(w, d) PROVE TypeOK'
  <2>. DEFINE c == row[proc[w].job].payload
  <2>1. proc' \in [Worker -> Proc]
    BY <1>5, ReturnsTyped, FailsTyped DEF CreateDocument
  <2>2. faults' \in 0..MaxFaults
    BY <1>5, FaultTyped DEF CreateDocument
  <2>3. c \in Content
    BY <1>5, BusyHasJob DEF CreateDocument, Busy, RowsAreFreed
  <2>4. docs' \in [Doc -> Content \cup {"unborn", "deleted"}]
    BY <1>5, <2>3 DEF CreateDocument, TypeOK
  <2>. QED
    BY <1>5, <2>1, <2>2, <2>4 DEF CreateDocument, TypeOK
<1>. QED
  BY <1>1, <1>2, <1>3, <1>4, <1>5 DEF Index

\* The heartbeat and the job's timeout keep every variable in its type.
LEMMA HeartbeatTyped ==
    ASSUME TypeOK, NEW w \in Worker, Heartbeat(w) \/ JobTimeout(w)
    PROVE  TypeOK'
<1>1. proc[w] \in Proc
  BY ProcTypes
<1>2. ASSUME NEW hb \in {"quiet", "lost"}, HeartbeatEnds(w, hb) PROVE proc' \in [Worker -> Proc]
  <2>. DEFINE ctx == IF hb = "lost" /\ ~CtxDone(w) THEN "cancelled" ELSE proc[w].ctx
  <2>1. [proc[w] EXCEPT !.hb = hb, !.ctx = ctx] \in Proc
    BY <1>1 DEF Proc
  <2>2. proc' = [proc EXCEPT ![w] = [proc[w] EXCEPT !.hb = hb, !.ctx = ctx]]
    BY <1>1, <1>2 DEF HeartbeatEnds, TypeOK, Proc
  <2>. QED
    BY <2>1, <2>2 DEF TypeOK
<1>3. CASE HeartbeatStops(w) \/ HeartbeatLosesLease(w)
  BY <1>2, <1>3 DEF HeartbeatStops, HeartbeatLosesLease, HeartbeatEnds, TypeOK
<1>4. CASE HeartbeatFails(w)
  BY <1>2, <1>4, FaultTyped DEF HeartbeatFails, HeartbeatEnds, TypeOK
<1>5. CASE JobTimeout(w)
  <2>1. [proc[w] EXCEPT !.ctx = "timeout"] \in Proc
    BY ProcTypes
  <2>2. proc' = [proc EXCEPT ![w] = [proc[w] EXCEPT !.ctx = "timeout"]]
    BY <1>5 DEF JobTimeout
  <2>3. proc' \in [Worker -> Proc]
    BY <2>1, <2>2 DEF TypeOK
  <2>. QED
    BY <1>5, <2>3 DEF JobTimeout, TypeOK
<1>. QED
  BY <1>3, <1>4, <1>5 DEF Heartbeat

\* A job to be retried.
Again(j) == [Freed(j, "queued") EXCEPT !.due = FALSE, !.retries = @ + 1]

\* The status statements keep every variable in its type.
LEMMA ConcludeTyped ==
    ASSUME TypeOK, WorkersRemember, NEW w \in Worker, Conclude(w)
    PROVE  TypeOK'
<1>. DEFINE j == proc[w].job
<1>1. CASE Join(w)
  <2>1. PICK pc \in {"release", "complete", "report"} : GoTo(w, pc)
    BY <1>1 DEF Join
  <2>2. proc' \in [Worker -> Proc]
    BY <2>1, GoToTyped
  <2>. QED
    BY <1>1, <2>2 DEF Join, TypeOK
<1>2. ASSUME Return(w) PROVE proc' \in [Worker -> Proc]
  BY <1>2, ProcTypes DEF Return, TypeOK
<1>3. ASSUME proc[w].pc \in {"release", "complete", "report"}
      PROVE  /\ j \in Job
             /\ row[j] \in Row
             /\ \A s \in Status : Freed(j, s) \in Row
  BY <1>3, BusyHasJob, RowTypes DEF Busy
<1>4. CASE ReleaseIngestionJob(w)
  <2>1. row' \in [Job -> Row]
    BY <1>3, <1>4 DEF ReleaseIngestionJob, TypeOK, Status
  <2>. QED
    BY <1>2, <1>4, <2>1 DEF ReleaseIngestionJob, TypeOK
<1>5. CASE CompleteIngestionJob(w)
  <2>1. j \in Job /\ Freed(j, "completed") \in Row /\ proc[w] \in Proc
    BY <1>3, <1>5, ProcTypes DEF CompleteIngestionJob, Status
  <2>2. [Freed(j, "completed") EXCEPT !.doc = proc[w].doc] \in Row
    BY <2>1 DEF Row, Proc
  <2>3. row' = row \/ row' = [row EXCEPT ![j] = [Freed(j, "completed") EXCEPT !.doc = proc[w].doc]]
    BY <1>5 DEF CompleteIngestionJob
  <2>4. row' \in [Job -> Row]
    BY <2>1, <2>2, <2>3 DEF TypeOK
  <2>5. finished' = finished \/ finished' = Append(finished, j)
    BY <1>5 DEF CompleteIngestionJob
  <2>6. finished' \in Seq(Job)
    BY <2>1, <2>5 DEF TypeOK
  <2>. QED
    BY <1>2, <1>5, <2>6, <2>4 DEF CompleteIngestionJob, TypeOK
<1>6. CASE FailIngestionJob(w)
  <2>1. j \in Job /\ Freed(j, "queued") \in Row /\ Freed(j, "failed") \in Row
    BY <1>3, <1>6 DEF FailIngestionJob, Status
  <2>2. \/ row' = row \/ row' = [row EXCEPT ![j] = Freed(j, "failed")]
        \/ OwnsLease(w, j) /\ RetryLeft(w) /\ row' = [row EXCEPT ![j] = Again(j)]
    BY <1>6 DEF FailIngestionJob, Again
  <2>3. ASSUME OwnsLease(w, j), RetryLeft(w) PROVE Again(j) \in Row
    <3>1. row[j].retries < MaxRetries
      BY <1>6, <2>3, BusyHasJob DEF FailIngestionJob, Busy, OwnsLease, IsMine, RetryLeft
    <3>2. row[j] \in Row /\ row[j].retries + 1 \in 0..MaxRetries
      BY <1>3, <1>6, <3>1, IngestionAssumption DEF FailIngestionJob, Row
    <3>. QED
      BY <3>2 DEF Again, Freed, Row, Status
  <2>4. row' \in [Job -> Row]
    BY <2>1, <2>2, <2>3 DEF TypeOK
  <2>. QED
    BY <1>2, <1>6, <2>4 DEF FailIngestionJob, TypeOK
<1>7. CASE StatusLost(w)
  BY <1>2, <1>7, FaultTyped DEF StatusLost, TypeOK
<1>. QED
  BY <1>1, <1>4, <1>5, <1>6, <1>7 DEF Conclude

\* So do time, shutdowns and crashes.
LEMMA RestTyped ==
    ASSUME TypeOK,
           \/ \E j \in Job : LeaseRunsOut(j) \/ Stall(j) \/ BackoffEnds(j)
           \/ \E w \in Worker : Shutdown(w) \/ Crash(w)
    PROVE  TypeOK'
<1>1. ASSUME NEW j \in Job PROVE /\ [row[j] EXCEPT !.lease = "expired"] \in Row
                                 /\ [row[j] EXCEPT !.due = TRUE] \in Row
  <2>1. row[j] \in Row
    BY RowTypes
  <2>. QED
    BY <2>1 DEF Row
<1>2. ASSUME NEW j \in Job, LeaseRunsOut(j) \/ Stall(j) PROVE TypeOK'
  <2>1. row' = [row EXCEPT ![j] = [row[j] EXCEPT !.lease = "expired"]]
    BY <1>2 DEF LeaseRunsOut, Stall
  <2>2. row' \in [Job -> Row]
    BY <1>1, <2>1 DEF TypeOK
  <2>3. faults' \in 0..MaxFaults
    BY <1>2, FaultTyped DEF LeaseRunsOut, Stall
  <2>. QED
    BY <1>2, <2>2, <2>3 DEF LeaseRunsOut, Stall, TypeOK
<1>3. ASSUME NEW j \in Job, BackoffEnds(j) PROVE TypeOK'
  <2>1. row' = [row EXCEPT ![j] = [row[j] EXCEPT !.due = TRUE]]
    BY <1>3 DEF BackoffEnds
  <2>2. row' \in [Job -> Row]
    BY <1>1, <2>1 DEF TypeOK
  <2>. QED
    BY <1>3, <2>2 DEF BackoffEnds, TypeOK
<1>4. ASSUME NEW w \in Worker, Shutdown(w) PROVE TypeOK'
  BY <1>4 DEF Shutdown, TypeOK
<1>5. ASSUME NEW w \in Worker, Crash(w) PROVE TypeOK'
  BY <1>5, ProcTypes DEF Crash, TypeOK
<1>. QED
  BY <1>2, <1>3, <1>4, <1>5

\* Every step keeps every variable in its type.
LEMMA NextTyped ==
    ASSUME TypeOK, RowsAreFreed, WorkersRemember, [Next]_vars
    PROVE  TypeOK'
<1>1. CASE Next
  <2>1. CASE \E w \in Worker : \/ Start(w) \/ PeriodicRecovery(w) \/ Stop(w)
                               \/ \E j \in Job : Claim(w, j) \/ ClaimUnheard(w, j)
    BY <2>1, LoopTyped
  <2>2. CASE \E w \in Worker : Index(w) \/ Heartbeat(w) \/ Conclude(w) \/ JobTimeout(w)
    BY <2>2, IndexTyped, HeartbeatTyped, ConcludeTyped
  <2>3. CASE \E w \in Worker : Shutdown(w) \/ Crash(w)
    BY <2>3, RestTyped
  <2>4. CASE \E j \in Job : \/ \E c \in Content : Upload(j, c)
                            \/ LeaseRunsOut(j) \/ Stall(j) \/ BackoffEnds(j)
    BY <2>4, RestTyped, WebTyped
  <2>5. CASE \/ \E h \in Handler : \/ FindActiveReindexJob(h)
                                   \/ \E d \in Doc : GetDocumentSource(h, d)
                                   \/ \E j \in Job : CreateReindexJob(h, j)
             \/ \E d \in Doc : DeleteDocument(d)
    BY <2>5, WebTyped
  <2>. QED
    BY <1>1, <2>1, <2>2, <2>3, <2>4, <2>5 DEF Next
<1>2. CASE UNCHANGED vars
  BY <1>2 DEF vars, TypeOK
<1>. QED
  BY <1>1, <1>2

-----------------------------------------------------------------------------
(* What every step keeps.                                                  *)

\* Documents go from unborn to deleted and never back, whatever the step.
DocsMoveOn == \A d \in Doc : docs[d] # "unborn" => docs'[d] \in {docs[d], "deleted"}

\* A job keeps its payload, and only a claim puts a worker's name in its row.
RowsMoveOn ==
    \A j \in Job :
        /\ row[j].status # "absent" =>
             row'[j].status # "absent" /\ row'[j].payload = row[j].payload
        /\ \A v \in Worker : row'[j].worker = v =>
             \/ row[j].worker = v /\ row'[j].retries = row[j].retries
             \/ proc[v].job = NoJob

\* So what is remembered stays true.
LEMMA FitsKept ==
    ASSUME DocsMoveOn
    PROVE  \A d, payload : Fits(d, payload) => Fits(d, payload)'
BY IngestionAssumption DEF DocsMoveOn, Fits

LEMMA StillRemembers ==
    ASSUME TypeOK, DocsMoveOn, RowsMoveOn, NEW w \in Worker, Remembers(w),
           proc'[w].job = proc[w].job, proc'[w].retries = proc[w].retries,
           proc'[w].pc \in Busy <=> proc[w].pc \in Busy,
           \/ proc'[w].doc = proc[w].doc \/ proc[w].job = NoJob
           \/ Fits(proc[w].doc, row[proc[w].job].payload)'
    PROVE  Remembers(w)'
<1>. DEFINE k == proc[w].job
<1>1. CASE k = NoJob
  BY <1>1 DEF Remembers
<1>2. CASE k # NoJob
  <2>1. k \in Job
    BY <1>2 DEF TypeOK, Proc
  <2>2. row'[k].status # "absent" /\ row'[k].payload = row[k].payload
    BY <1>2, <2>1 DEF Remembers, RowsMoveOn
  <2>3. row'[k].worker = w => row'[k].retries = proc'[w].retries
    BY <1>2, <2>1 DEF Remembers, RowsMoveOn
  <2>4. proc'[w].doc # NoDoc => Fits(proc[w].doc, row[proc[w].job].payload)'
    <3>1. CASE proc'[w].doc = proc[w].doc
      BY <1>2, <2>2, <3>1, FitsKept DEF Remembers, Fits
    <3>2. CASE proc'[w].doc # proc[w].doc
      BY <1>2, <3>2
    <3>. QED
      BY <3>1, <3>2
  <2>. QED
    BY <1>2, <2>2, <2>3, <2>4 DEF Remembers
<1>. QED
  BY <1>1, <1>2

\* What was undisturbed after a step was so before it.
LEMMA StillUndisturbed ==
    ASSUME TypeOK, DocsMoveOn, Fault \/ UNCHANGED faults, Undisturbed'
    PROVE  Undisturbed /\ UNCHANGED faults
BY IngestionAssumption DEF Undisturbed, DocsMoveOn, Fault, TypeOK

\* A worker that has just been started, stopped, or is back in its loop.
LEMMA IdleRemembers ==
    ASSUME NEW w \in Worker, NEW pc \in {"poll", "stopped", "crashed"}, proc'[w] = At(pc)
    PROVE  Remembers(w)' /\ HasCause(w)'
BY DEF At, Busy, Remembers, HasCause

\* HoldersRun holds after a step that gives no job away and takes none back.
LEMMA StillHolders ==
    ASSUME TypeOK, HoldersRun, DocsMoveOn, Fault \/ UNCHANGED faults,
           \A w \in Worker : proc'[w].pc # "crashed" =>
               proc[w].pc # "crashed" /\ proc'[w].job = proc[w].job,
           \A j \in Job, w \in Worker : row'[j].worker = w =>
               row[j].worker = w /\ row'[j].lease = row[j].lease
    PROVE  HoldersRun'
BY StillUndisturbed DEF HoldersRun

\* PayloadMatchesDocument holds after a step that completes no job and leaves the
\* documents alone.
LEMMA StillMatches ==
    ASSUME TypeOK, PayloadMatchesDocument, UNCHANGED docs,
           \A j \in Job :
              \/ row'[j].doc = NoDoc /\ row'[j].status # "completed"
              \/ /\ row'[j].doc = row[j].doc
                 /\ row'[j].payload = row[j].payload
                 /\ row'[j].status = "completed" => row[j].status = "completed"
    PROVE  PayloadMatchesDocument'
BY DEF PayloadMatchesDocument, Live

\* Documents stay apart as long as none is created.
LEMMA StillApart ==
    ASSUME NoDuplicateDocument, UNCHANGED docs
    PROVE  NoDuplicateDocument' /\ DocsMoveOn
BY DEF NoDuplicateDocument, Live, DocsMoveOn

\* The frame of every step but those of the web: what it has to show of the rows
\* and the documents, and of the workers it moves.
LEMMA Keeps ==
    ASSUME IInv, TypeOK', RowsAreFreed', NoDuplicateDocument', PayloadMatchesDocument',
           HoldersRun', UNCHANGED web, stop \subseteq stop', DocsMoveOn, RowsMoveOn,
           \A w \in Worker : proc'[w] = proc[w] \/ (Remembers(w)' /\ HasCause(w)')
    PROVE  IInv'
<1>1. RequestsRemember'
  BY FitsKept DEF IInv, RequestsRemember, Fits
<1>2. ASSUME NEW w \in Worker PROVE Remembers(w)' /\ HasCause(w)'
  <2>1. CASE proc'[w] = proc[w]
    <3>1. Remembers(w) /\ HasCause(w)
      BY DEF IInv, WorkersRemember, ResultsHaveCause
    <3>2. Remembers(w)'
      BY <2>1, <3>1, StillRemembers DEF IInv
    <3>3. HasCause(w)'
      BY <2>1, <3>1 DEF HasCause
    <3>. QED
      BY <3>2, <3>3
  <2>. QED
    BY <2>1
<1>. QED
  BY <1>1, <1>2 DEF IInv, WorkersRemember, ResultsHaveCause

\* The frame of the steps that only move the goroutines of one worker, from one
\* place in a job to another.
LEMMA GoroutineKeeps ==
    ASSUME IInv, TypeOK', NEW w \in Worker, UNCHANGED <<row, web, stop>>,
           NoDuplicateDocument', PayloadMatchesDocument', DocsMoveOn,
           Fault \/ UNCHANGED faults,
           \A v \in Worker \ {w} : proc'[v] = proc[v],
           proc[w].pc \in Busy, proc'[w].pc \in Busy,
           proc'[w].job = proc[w].job, proc'[w].retries = proc[w].retries,
           \/ proc'[w].doc = proc[w].doc
           \/ Fits(proc[w].doc, row[proc[w].job].payload)',
           HasCause(w)'
    PROVE  IInv'
<1>1. RowsMoveOn
  BY DEF RowsMoveOn
<1>2. RowsAreFreed'
  BY DEF IInv, RowsAreFreed
<1>3. HoldersRun'
  <2>1. \A v \in Worker : proc'[v].pc # "crashed" =>
            proc[v].pc # "crashed" /\ proc'[v].job = proc[v].job
    BY DEF Busy
  <2>. QED
    BY <2>1, StillHolders DEF IInv
<1>4. Remembers(w)
  BY DEF IInv, WorkersRemember
<1>5. Remembers(w)'
  BY <1>1, <1>4, StillRemembers DEF IInv
<1>. QED
  BY <1>1, <1>2, <1>3, <1>5, Keeps

-----------------------------------------------------------------------------
(* The invariant, one group of steps after the other.                      *)

\* A call of index() that ends it, with a reason.
LEMMA ReturnKeeps ==
    ASSUME IInv, TypeOK', NEW w \in Worker, Working(w), UNCHANGED <<row, web, stop>>,
           NoDuplicateDocument', PayloadMatchesDocument', DocsMoveOn,
           Fault \/ UNCHANGED faults,
           NEW result, NEW d, Returns(w, result, d),
           result = "ok" => d # NoDoc,
           result = "cancelled" => w \in stop \/ proc[w].hb = "lost",
           \/ d = proc[w].doc
           \/ Fits(proc[w].doc, row[proc[w].job].payload)'
    PROVE  IInv'
<1>1. proc'[w] = [proc[w] EXCEPT !.pc = "join", !.result = result, !.doc = d]
      /\ \A v \in Worker \ {w} : proc'[v] = proc[v]
  BY DEF Returns, IInv, TypeOK
<1>2. proc[w] \in Proc
  BY ProcTypes DEF IInv
<1>3. /\ proc'[w].pc = "join" /\ proc'[w].result = result /\ proc'[w].doc = d
      /\ proc'[w].job = proc[w].job /\ proc'[w].retries = proc[w].retries
      /\ proc'[w].ctx = proc[w].ctx /\ proc'[w].hb = proc[w].hb
  BY <1>1, <1>2 DEF Proc
<1>4. HasCause(w)'
  BY <1>3 DEF HasCause, IInv, ResultsHaveCause
<1>5. proc[w].pc \in Busy /\ proc'[w].pc \in Busy
  BY <1>3 DEF Working, Busy
<1>. QED
  BY <1>1, <1>3, <1>4, <1>5, GoroutineKeeps

\* ... and one that goes on.
LEMMA GoToKeeps ==
    ASSUME IInv, TypeOK', NEW w \in Worker, proc[w].pc \in Busy,
           UNCHANGED <<row, web, stop, docs, faults>>,
           NEW pc \in {"build", "write", "release", "complete", "report"}, GoTo(w, pc),
           pc = "complete" => proc[w].result = "ok",
           pc = "report" => proc[w].result # "cancelled",
           pc \in {"release", "complete", "report"} => proc[w].hb # "beating"
    PROVE  IInv'
<1>1. proc'[w] = [proc[w] EXCEPT !.pc = pc] /\ \A v \in Worker \ {w} : proc'[v] = proc[v]
  BY DEF GoTo, IInv, TypeOK
<1>2. proc[w] \in Proc
  BY ProcTypes DEF IInv
<1>3. /\ proc'[w].pc = pc /\ proc'[w].result = proc[w].result /\ proc'[w].doc = proc[w].doc
      /\ proc'[w].job = proc[w].job /\ proc'[w].retries = proc[w].retries
      /\ proc'[w].ctx = proc[w].ctx /\ proc'[w].hb = proc[w].hb
  BY <1>1, <1>2 DEF Proc
<1>4. HasCause(w)'
  BY <1>3 DEF HasCause, IInv, ResultsHaveCause
<1>5. proc'[w].pc \in Busy
  BY <1>3 DEF Busy
<1>6. NoDuplicateDocument' /\ PayloadMatchesDocument' /\ DocsMoveOn
  BY StillApart, StillMatches DEF IInv
<1>. QED
  BY <1>1, <1>3, <1>4, <1>5, <1>6, GoroutineKeeps

\* What index() learnt of the documents is true: it creates one only for a content
\* no document has, and it returns one that has the content of the payload.
LEMMA IndexKeeps ==
    ASSUME IInv, NEW w \in Worker, Index(w)
    PROVE  IInv'
<1>. DEFINE j == proc[w].job
<1>1. TypeOK'
  BY IndexTyped DEF IInv
<1>2. ASSUME Working(w) PROVE /\ proc[w].pc \in Busy /\ j \in Job /\ row[j].status # "absent"
                              /\ ~row[j].reindex => row[j].payload \in Content
  BY <1>2, BusyHasJob DEF Working, Busy, IInv, RowsAreFreed
<1>3. CASE Read(w)
  <2>1. Working(w) /\ UNCHANGED <<row, docs, web, stop, faults>>
    BY <1>3 DEF Read, Working
  <2>2. NoDuplicateDocument' /\ PayloadMatchesDocument' /\ DocsMoveOn
    BY <2>1, StillApart, StillMatches DEF IInv
  <2>3. ASSUME NEW e \in Doc, ~row[j].reindex, docs[e] = row[j].payload, Returns(w, "ok", e)
        PROVE  IInv'
    <3>1. e # NoDoc
      BY IngestionAssumption
    <3>2. proc'[w].doc = e /\ proc'[w].job = j
      BY <2>3 DEF Returns, IInv, TypeOK, Proc
    <3>3. Fits(proc[w].doc, row[proc[w].job].payload)'
      BY <1>2, <2>1, <2>3, <3>2 DEF Fits
    <3>. QED
      BY <1>1, <2>1, <2>2, <2>3, <3>1, <3>3, ReturnKeeps
  <2>4. ASSUME Fails(w, "permanent") PROVE IInv'
    BY <1>1, <2>1, <2>2, <2>4, ReturnKeeps DEF Fails
  <2>5. ASSUME GoTo(w, "build") PROVE IInv'
    BY <1>1, <1>2, <2>1, <2>5, GoToKeeps
  <2>. QED
    BY <1>3, <2>3, <2>4, <2>5 DEF Read
<1>4. CASE Build(w)
  <2>1. Working(w) /\ UNCHANGED <<row, docs, web, stop, faults>>
    BY <1>4 DEF Build, Working
  <2>2. NoDuplicateDocument' /\ PayloadMatchesDocument' /\ DocsMoveOn
    BY <2>1, StillApart, StillMatches DEF IInv
  <2>3. ASSUME NEW result \in {"transient", "permanent"}, Fails(w, result) PROVE IInv'
    BY <1>1, <2>1, <2>2, <2>3, ReturnKeeps DEF Fails
  <2>4. ASSUME GoTo(w, "write") PROVE IInv'
    BY <1>1, <1>2, <2>1, <2>4, GoToKeeps
  <2>. QED
    BY <1>4, <2>3, <2>4 DEF Build
<1>5. CASE CallFails(w)
  <2>1. Working(w) /\ UNCHANGED <<row, docs, web, stop>> /\ (Fault \/ UNCHANGED faults)
    BY <1>5 DEF CallFails
  <2>2. NoDuplicateDocument' /\ PayloadMatchesDocument' /\ DocsMoveOn
    BY <2>1, StillApart, StillMatches DEF IInv
  <2>3. CtxDone(w) /\ CtxError(w) = "cancelled" => w \in stop \/ proc[w].hb = "lost"
    <3>1. proc[w].ctx \in {"open", "timeout", "cancelled"}
      BY DEF IInv, TypeOK, Proc
    <3>. QED
      BY <3>1 DEF CtxDone, CtxError, IInv, ResultsHaveCause, HasCause
  <2>4. CASE CtxDone(w) /\ Fails(w, CtxError(w))
    <3>1. CtxError(w) # "ok"
      BY DEF CtxError
    <3>. QED
      BY <1>1, <2>1, <2>2, <2>3, <2>4, <3>1, ReturnKeeps DEF Fails
  <2>5. CASE Fails(w, "transient")
    BY <1>1, <2>1, <2>2, <2>5, ReturnKeeps DEF Fails
  <2>. QED
    BY <1>5, <2>4, <2>5 DEF CallFails
<1>6. CASE ReplaceDocumentChunks(w)
  <2>1. Working(w) /\ UNCHANGED <<row, docs, web, stop, faults>>
    BY <1>6 DEF ReplaceDocumentChunks, Working
  <2>2. NoDuplicateDocument' /\ PayloadMatchesDocument' /\ DocsMoveOn
    BY <2>1, StillApart, StillMatches DEF IInv
  <2>3. CASE Live(proc[w].doc) /\ Returns(w, "ok", proc[w].doc)
    BY <1>1, <2>1, <2>2, <2>3, ReturnKeeps, IngestionAssumption DEF Live
  <2>4. CASE Fails(w, "permanent")
    BY <1>1, <2>1, <2>2, <2>4, ReturnKeeps DEF Fails
  <2>. QED
    BY <1>6, <2>3, <2>4 DEF ReplaceDocumentChunks
<1>7. ASSUME NEW d \in Doc, CreateDocument(w, d) PROVE IInv'
  <2>. DEFINE c == row[j].payload
  <2>1. /\ Working(w) /\ UNCHANGED <<row, web, stop>> /\ (Fault \/ UNCHANGED faults)
        /\ ~row[j].reindex
    BY <1>7 DEF CreateDocument, Working
  <2>2. CASE ChecksumTaken(c)
    <3>1. Fails(w, "transient") /\ UNCHANGED docs
      BY <1>7, <2>2 DEF CreateDocument
    <3>2. NoDuplicateDocument' /\ PayloadMatchesDocument' /\ DocsMoveOn
      BY <2>1, <3>1, StillApart, StillMatches DEF IInv
    <3>. QED
      BY <1>1, <2>1, <3>1, <3>2, ReturnKeeps DEF Fails
  <2>3. CASE ~ChecksumTaken(c)
    <3>1. docs[d] = "unborn" /\ docs' = [docs EXCEPT ![d] = c]
      BY <1>7, <2>3 DEF CreateDocument
    <3>2. /\ d # NoDoc /\ c \in Content /\ docs'[d] = c
          /\ \A e \in Doc \ {d} : docs'[e] = docs[e]
      BY <1>2, <2>1, <3>1, IngestionAssumption DEF IInv, TypeOK
    <3>3. DocsMoveOn
      BY <3>1, <3>2 DEF DocsMoveOn
    <3>4. NoDuplicateDocument'
      BY <2>3, <3>2 DEF NoDuplicateDocument, Live, ChecksumTaken, IInv
    <3>5. PayloadMatchesDocument'
      <4>1. \A k \in Job : row[k].doc # d
        BY <3>1, IngestionAssumption, <3>2 DEF IInv, PayloadMatchesDocument, Live
      <4>. QED
        BY <2>1, <3>1, <3>2, <4>1, IngestionAssumption DEF IInv, PayloadMatchesDocument, Live
    <3>6. CASE Returns(w, "ok", d)
      <4>1. proc'[w].doc = d /\ proc'[w].job = j
        BY <3>6 DEF Returns, IInv, TypeOK, Proc
      <4>2. Fits(proc[w].doc, row[proc[w].job].payload)'
        BY <2>1, <3>2, <4>1 DEF Fits
      <4>. QED
        BY <1>1, <2>1, <3>2, <3>3, <3>4, <3>5, <3>6, <4>2, ReturnKeeps
    <3>7. CASE Fails(w, "transient")
      BY <1>1, <2>1, <3>3, <3>4, <3>5, <3>7, ReturnKeeps DEF Fails
    <3>. QED
      BY <1>7, <2>3, <3>6, <3>7 DEF CreateDocument
  <2>. QED
    BY <2>2, <2>3
<1>. QED
  BY <1>3, <1>4, <1>5, <1>6, <1>7 DEF Index

\* The heartbeat ends, or the job times out: the worker stays where it is.
LEMMA HeartbeatKeeps ==
    ASSUME IInv, NEW w \in Worker, Heartbeat(w) \/ JobTimeout(w)
    PROVE  IInv'
<1>1. TypeOK'
  BY HeartbeatTyped DEF IInv
<1>2. proc[w] \in Proc
  BY ProcTypes DEF IInv
<1>3. UNCHANGED <<row, docs, web, stop>> /\ (Fault \/ UNCHANGED faults)
  BY DEF Heartbeat, HeartbeatStops, HeartbeatLosesLease, HeartbeatFails, HeartbeatEnds, JobTimeout
<1>4. NoDuplicateDocument' /\ PayloadMatchesDocument' /\ DocsMoveOn
  BY <1>3, StillApart, StillMatches DEF IInv
<1>5. HasCause(w)
  BY DEF IInv, ResultsHaveCause
<1>6. ASSUME NEW hb \in {"quiet", "lost"}, HeartbeatEnds(w, hb), proc[w].pc \in Busy PROVE IInv'
  <2>. DEFINE ctx == IF hb = "lost" /\ ~CtxDone(w) THEN "cancelled" ELSE proc[w].ctx
  <2>1. /\ proc[w].hb = "beating"
        /\ proc'[w] = [proc[w] EXCEPT !.hb = hb, !.ctx = ctx]
        /\ \A v \in Worker \ {w} : proc'[v] = proc[v]
    BY <1>2, <1>6 DEF HeartbeatEnds, IInv, TypeOK, Proc
  <2>2. /\ proc'[w].pc = proc[w].pc /\ proc'[w].result = proc[w].result
        /\ proc'[w].doc = proc[w].doc /\ proc'[w].job = proc[w].job
        /\ proc'[w].retries = proc[w].retries
        /\ proc'[w].ctx = ctx /\ proc'[w].hb = hb
    BY <1>2, <2>1 DEF Proc
  <2>3. HasCause(w)'
    BY <1>3, <1>5, <2>1, <2>2 DEF HasCause
  <2>. QED
    BY <1>1, <1>3, <1>4, <1>6, <2>1, <2>2, <2>3, GoroutineKeeps
<1>7. proc[w].hb = "beating" => proc[w].pc \in Busy
  BY <1>5 DEF HasCause, Busy
<1>8. CASE JobTimeout(w)
  <2>1. /\ proc[w].pc \in Busy
        /\ proc'[w] = [proc[w] EXCEPT !.ctx = "timeout"]
        /\ \A v \in Worker \ {w} : proc'[v] = proc[v]
    BY <1>8 DEF JobTimeout, Working, Busy, IInv, TypeOK
  <2>2. /\ proc'[w].pc = proc[w].pc /\ proc'[w].result = proc[w].result
        /\ proc'[w].doc = proc[w].doc /\ proc'[w].job = proc[w].job
        /\ proc'[w].retries = proc[w].retries
        /\ proc'[w].ctx = "timeout" /\ proc'[w].hb = proc[w].hb
    BY <1>2, <2>1 DEF Proc
  <2>3. HasCause(w)'
    BY <1>3, <1>5, <2>2 DEF HasCause
  <2>. QED
    BY <1>1, <1>3, <1>4, <2>1, <2>2, <2>3, GoroutineKeeps
<1>. QED
  BY <1>6, <1>7, <1>8 DEF Heartbeat, HeartbeatStops, HeartbeatLosesLease, HeartbeatFails, HeartbeatEnds

\* The frame of the steps that free a worker of its job: the status statements.
\* As long as nothing went wrong, none of them leaves the worker in the row.
LEMMA ConcludedKeeps ==
    ASSUME IInv, TypeOK', NEW w \in Worker, proc[w].pc \in {"release", "complete", "report"},
           Return(w), UNCHANGED <<docs, web, stop>>,
           Fault \/ UNCHANGED faults, RowsMoveOn, RowsAreFreed', PayloadMatchesDocument',
           \A k \in Job, v \in Worker : row'[k].worker = v =>
               row[k].worker = v /\ row'[k].lease = row[k].lease,
           Undisturbed => row'[proc[w].job].worker # w \/ Fault
    PROVE  IInv'
<1>1. NoDuplicateDocument' /\ DocsMoveOn
  BY StillApart DEF IInv
<1>2. proc'[w] = At("poll") /\ \A v \in Worker \ {w} : proc'[v] = proc[v]
  BY DEF Return, IInv, TypeOK
<1>3. Remembers(w)' /\ HasCause(w)'
  BY <1>2, IdleRemembers
<1>4. HoldersRun'
  <2>. SUFFICES ASSUME Undisturbed', NEW v \in Worker, NEW k \in Job,
                       row'[k].worker = v, proc'[v].pc # "crashed"
                PROVE  proc'[v].job = k /\ row'[k].lease = "live"
    BY DEF HoldersRun
  <2>1. Undisturbed /\ UNCHANGED faults
    BY <1>1, StillUndisturbed DEF IInv
  <2>2. row[k].worker = v /\ row'[k].lease = row[k].lease
    OBVIOUS
  <2>3. CASE v = w
    <3>1. ~Fault
      BY <2>1 DEF Fault, IInv, TypeOK
    <3>2. proc[w].job = k
      BY <2>1, <2>2, <2>3 DEF IInv, HoldersRun
    <3>. QED
      BY <2>1, <2>3, <3>1, <3>2
  <2>4. CASE v # w
    BY <1>2, <2>1, <2>2, <2>4 DEF IInv, HoldersRun
  <2>. QED
    BY <2>3, <2>4
<1>. QED
  BY <1>1, <1>2, <1>3, <1>4, Keeps

\* As long as nothing went wrong, the worker whose name is in a row has its lease.
LEMMA HolderOwns ==
    ASSUME IInv, Undisturbed, NEW w \in Worker, proc[w].pc # "crashed",
           NEW j \in Job, row[j].worker = w
    PROVE  OwnsLease(w, j) /\ proc[w].job = j
BY IngestionAssumption DEF IInv, HoldersRun, RowsAreFreed, OwnsLease, IsMine

\* A status statement that writes nothing.
LEMMA LeavingKeeps ==
    ASSUME IInv, TypeOK', NEW w \in Worker, proc[w].pc \in {"release", "complete", "report"},
           Return(w), UNCHANGED <<row, docs, web, stop>>, Fault \/ UNCHANGED faults,
           Undisturbed => row[proc[w].job].worker # w \/ Fault
    PROVE  IInv'
<1>1. RowsMoveOn /\ RowsAreFreed' /\ PayloadMatchesDocument'
  BY StillMatches DEF RowsMoveOn, RowsAreFreed, IInv
<1>. QED
  BY <1>1, ConcludedKeeps

\* Freeing a row of its worker, whatever the new status.
LEMMA FreeingKeeps ==
    ASSUME RowsAreFreed, NEW j \in Job, row[j].status # "absent",
           row'[j].status \in {"queued", "completed", "failed"},
           row'[j].worker = NoWorker, row'[j].lease = "none",
           row'[j].payload = row[j].payload, row'[j].reindex = row[j].reindex,
           \A k \in Job \ {j} : row'[k] = row[k]
    PROVE  /\ RowsMoveOn /\ RowsAreFreed'
           /\ \A w \in Worker : row'[j].worker # w
           /\ \A k \in Job, w \in Worker : row'[k].worker = w =>
                 row[k].worker = w /\ row'[k].lease = row[k].lease
BY IngestionAssumption DEF RowsMoveOn, RowsAreFreed

\* The status statements: what they write belongs together, and a worker that did
\* not write because the row is not its own any more left nothing in it either.
LEMMA ConcludeKeeps ==
    ASSUME IInv, NEW w \in Worker, Conclude(w)
    PROVE  IInv'
<1>. DEFINE j == proc[w].job
<1>1. TypeOK'
  BY ConcludeTyped DEF IInv
<1>2. proc[w] \in Proc /\ HasCause(w)
  BY ProcTypes DEF IInv, ResultsHaveCause
<1>3. ASSUME proc[w].pc \in {"release", "complete", "report"}
      PROVE  /\ j \in Job /\ row[j].status # "absent" /\ row[j] \in Row
             /\ proc[w].doc # NoDoc => Fits(proc[w].doc, row[j].payload)
  BY <1>3, BusyHasJob, RowTypes DEF IInv, Busy
<1>4. ASSUME NEW k \in Job, NEW status
      PROVE  LET r == Freed(k, status) IN
               /\ r.status = status /\ r.worker = NoWorker /\ r.lease = "none"
               /\ r.doc = row[k].doc /\ r.payload = row[k].payload
               /\ r.reindex = row[k].reindex /\ r.retries = row[k].retries
  BY RowTypes DEF Freed, Row, IInv
<1>5. CASE Join(w)
  <2>1. /\ proc[w].pc \in Busy /\ proc[w].hb # "beating"
        /\ UNCHANGED <<row, web, stop, docs, faults>>
    BY <1>5 DEF Join, Busy
  <2>2. CASE GoTo(w, "release")
    BY <1>1, <2>1, <2>2, GoToKeeps
  <2>3. CASE GoTo(w, "complete") /\ proc[w].result = "ok"
    BY <1>1, <2>1, <2>3, GoToKeeps
  <2>4. CASE GoTo(w, "report") /\ ~MustRelease(w)
    <3>1. proc[w].result # "cancelled"
      BY <1>2, <2>4 DEF HasCause, MustRelease
    <3>. QED
      BY <1>1, <2>1, <2>4, <3>1, GoToKeeps
  <2>. QED
    BY <1>5, <2>2, <2>3, <2>4 DEF Join
<1>6. CASE ReleaseIngestionJob(w)
  <2>1. /\ proc[w].pc = "release" /\ Return(w) /\ UNCHANGED <<docs, stop, web, faults>>
        /\ row' = IF IsMine(w, j) THEN [row EXCEPT ![j] = Freed(j, "queued")] ELSE row
    BY <1>6 DEF ReleaseIngestionJob
  <2>2. CASE IsMine(w, j)
    <3>1. row'[j] = Freed(j, "queued") /\ \A k \in Job \ {j} : row'[k] = row[k]
      BY <1>3, <2>1, <2>2 DEF IInv, TypeOK
    <3>2. j \in Job /\ row[j].status # "absent" /\ RowsAreFreed
      BY <1>3, <2>1 DEF IInv
    <3>3. PayloadMatchesDocument'
      BY <1>3, <1>4, <2>1, <3>1, StillMatches DEF IInv, TypeOK
    <3>4. /\ RowsMoveOn /\ RowsAreFreed'
          /\ \A v \in Worker : row'[j].worker # v
          /\ \A k \in Job, v \in Worker : row'[k].worker = v =>
                row[k].worker = v /\ row'[k].lease = row[k].lease
      BY <1>4, <3>1, <3>2, FreeingKeeps
    <3>. QED
      BY <1>1, <2>1, <3>3, <3>4, ConcludedKeeps
  <2>3. CASE ~IsMine(w, j)
    <3>1. UNCHANGED row
      BY <2>1, <2>3
    <3>2. row[j].worker # w
      BY <1>3, <2>1, <2>3, IngestionAssumption DEF IsMine, IInv, RowsAreFreed
    <3>. QED
      BY <1>1, <2>1, <3>1, <3>2, LeavingKeeps
  <2>. QED
    BY <2>2, <2>3
<1>7. CASE CompleteIngestionJob(w)
  <2>1. proc[w].pc = "complete" /\ Return(w) /\ UNCHANGED <<docs, stop, web, faults>>
    BY <1>7 DEF CompleteIngestionJob
  <2>2. proc[w].doc # NoDoc /\ Fits(proc[w].doc, row[j].payload)
    BY <1>2, <1>3, <2>1 DEF HasCause
  <2>3. CASE OwnsLease(w, j) /\ Live(proc[w].doc)
    <3>. DEFINE r == [Freed(j, "completed") EXCEPT !.doc = proc[w].doc]
    <3>1. row' = [row EXCEPT ![j] = r]
      BY <1>7, <2>3 DEF CompleteIngestionJob
    <3>2. /\ r.status = "completed" /\ r.worker = NoWorker /\ r.lease = "none"
          /\ r.doc = proc[w].doc /\ r.payload = row[j].payload /\ r.reindex = row[j].reindex
      BY <1>3, <2>1 DEF Freed, Row
    <3>3. row'[j] = r /\ \A k \in Job \ {j} : row'[k] = row[k]
      BY <1>3, <2>1, <3>1 DEF IInv, TypeOK
    <3>4. PayloadMatchesDocument'
      <4>1. row[j].payload \in {NoContent, docs[proc[w].doc]}
        BY <2>2, <2>3, IngestionAssumption DEF Fits, Live
      <4>. HIDE DEF r
      <4>. QED
        BY <2>1, <2>2, <2>3, <3>2, <3>3, <4>1 DEF IInv, PayloadMatchesDocument, Live
    <3>. HIDE DEF r
    <3>5. j \in Job /\ row[j].status # "absent" /\ RowsAreFreed
      BY <1>3, <2>1 DEF IInv
    <3>6. /\ RowsMoveOn /\ RowsAreFreed'
          /\ \A v \in Worker : row'[j].worker # v
          /\ \A k \in Job, v \in Worker : row'[k].worker = v =>
                row[k].worker = v /\ row'[k].lease = row[k].lease
      BY <3>2, <3>3, <3>5, FreeingKeeps
    <3>. QED
      BY <1>1, <2>1, <3>4, <3>6, ConcludedKeeps
  <2>4. CASE ~(OwnsLease(w, j) /\ Live(proc[w].doc))
    <3>1. UNCHANGED row
      BY <1>7, <2>4 DEF CompleteIngestionJob
    <3>2. ASSUME Undisturbed PROVE row[j].worker # w
      <4>1. Live(proc[w].doc)
        BY <2>2, <3>2 DEF Undisturbed, Fits, Live
      <4>. QED
        BY <1>3, <2>1, <2>4, <3>2, <4>1, HolderOwns DEF IInv
    <3>. QED
      BY <1>1, <2>1, <3>1, <3>2, LeavingKeeps
  <2>. QED
    BY <2>3, <2>4
<1>8. CASE FailIngestionJob(w)
  <2>1. proc[w].pc = "report" /\ Return(w) /\ UNCHANGED <<docs, stop, web, faults>>
    BY <1>8 DEF FailIngestionJob
  <2>2. CASE OwnsLease(w, j)
    <3>1. PICK r \in {Again(j), Freed(j, "failed")} : row' = [row EXCEPT ![j] = r]
      BY <1>8, <2>2 DEF FailIngestionJob, Again
    <3>2. /\ r.status \in {"queued", "failed"} /\ r.worker = NoWorker /\ r.lease = "none"
          /\ r.doc = row[j].doc /\ r.payload = row[j].payload /\ r.reindex = row[j].reindex
      BY <1>3, <2>1, <3>1 DEF Again, Freed, Row
    <3>3. row'[j] = r /\ \A k \in Job \ {j} : row'[k] = row[k]
      BY <1>3, <2>1, <3>1 DEF IInv, TypeOK
    <3>4. PayloadMatchesDocument'
      BY <2>1, <3>2, <3>3, StillMatches DEF IInv
    <3>5. j \in Job /\ row[j].status # "absent" /\ RowsAreFreed
      BY <1>3, <2>1 DEF IInv
    <3>6. /\ RowsMoveOn /\ RowsAreFreed'
          /\ \A v \in Worker : row'[j].worker # v
          /\ \A k \in Job, v \in Worker : row'[k].worker = v =>
                row[k].worker = v /\ row'[k].lease = row[k].lease
      BY <3>2, <3>3, <3>5, FreeingKeeps
    <3>. QED
      BY <1>1, <2>1, <3>4, <3>6, ConcludedKeeps
  <2>3. CASE ~OwnsLease(w, j)
    <3>1. UNCHANGED row
      BY <1>8, <2>3 DEF FailIngestionJob
    <3>2. ASSUME Undisturbed PROVE row[j].worker # w
      BY <1>3, <2>1, <2>3, <3>2, HolderOwns DEF IInv
    <3>. QED
      BY <1>1, <2>1, <3>1, <3>2, LeavingKeeps
  <2>. QED
    BY <2>2, <2>3
<1>9. CASE StatusLost(w)
  <2>1. UNCHANGED row /\ Fault /\ Return(w) /\ UNCHANGED <<docs, stop, web>>
    BY <1>9 DEF StatusLost
  <2>. QED
    BY <1>1, <1>9, <2>1, LeavingKeeps DEF StatusLost
<1>. QED
  BY <1>5, <1>6, <1>7, <1>8, <1>9 DEF Conclude

\* Recovery frees the rows whose lease is expired, at whatever moment.
LEMMA RecoveryKeeps ==
    ASSUME IInv, RecoverExpired, UNCHANGED docs
    PROVE  /\ RowsMoveOn /\ RowsAreFreed' /\ PayloadMatchesDocument'
           /\ \A j \in Job, w \in Worker : row'[j].worker = w =>
                 row[j].worker = w /\ row'[j].lease = row[j].lease
<1>1. \A w \in Worker : w # NoWorker
  BY IngestionAssumption
<1>2. ASSUME NEW j \in Job
      PROVE  \/ row'[j] = row[j]
             \/ /\ row[j].status = "processing"
                /\ row'[j].status = "queued" /\ row'[j].worker = NoWorker
                /\ row'[j].lease = "none" /\ row'[j].doc = row[j].doc
                /\ row'[j].payload = row[j].payload /\ row'[j].reindex = row[j].reindex
  <2>1. row'[j] = IF Expired(j) THEN Freed(j, "queued") ELSE row[j]
    BY DEF RecoverExpired
  <2>2. row[j] \in Row
    BY RowTypes DEF IInv
  <2>. QED
    BY <2>1, <2>2 DEF Expired, Freed, Row
<1>3. RowsMoveOn
  BY <1>1, <1>2 DEF RowsMoveOn
<1>4. RowsAreFreed'
  BY <1>2 DEF RowsAreFreed, IInv
<1>5. PayloadMatchesDocument'
  BY <1>2, StillMatches DEF IInv
<1>. QED
  BY <1>1, <1>2, <1>3, <1>4, <1>5

\* The loop of a worker: it starts, recovers, claims and stops.
LEMMA LoopKeeps ==
    ASSUME IInv, NEW w \in Worker,
           \/ Start(w) \/ PeriodicRecovery(w) \/ Stop(w)
           \/ \E j \in Job : Claim(w, j) \/ ClaimUnheard(w, j)
    PROVE  IInv'
<1>1. TypeOK'
  BY LoopTyped DEF IInv
<1>2. proc[w] \in Proc /\ Remembers(w)
  BY ProcTypes DEF IInv, WorkersRemember
<1>3. UNCHANGED <<docs, web, stop>>
  BY DEF Start, PeriodicRecovery, Stop, Claim, ClaimUnheard, MarkClaimed
<1>4. NoDuplicateDocument' /\ DocsMoveOn
  BY <1>3, StillApart DEF IInv
<1>5. CASE Start(w)
  <2>1. /\ RecoverExpired /\ UNCHANGED faults /\ proc[w].pc = "off"
        /\ proc'[w] = At("poll") /\ \A v \in Worker \ {w} : proc'[v] = proc[v]
    BY <1>5 DEF Start, IInv, TypeOK
  <2>2. proc[w].job = NoJob /\ proc'[w].job = NoJob
    BY <1>2, <2>1 DEF Remembers, Busy, At
  <2>3. HoldersRun'
    BY <1>3, <1>4, <2>1, <2>2, RecoveryKeeps, StillHolders DEF IInv
  <2>. QED
    BY <1>1, <1>3, <1>4, <2>1, <2>3, RecoveryKeeps, IdleRemembers, Keeps
<1>6. CASE PeriodicRecovery(w)
  <2>1. RecoverExpired /\ UNCHANGED <<faults, proc>>
    BY <1>6 DEF PeriodicRecovery
  <2>2. HoldersRun'
    BY <1>3, <1>4, <2>1, RecoveryKeeps, StillHolders DEF IInv
  <2>. QED
    BY <1>1, <1>3, <1>4, <2>1, <2>2, RecoveryKeeps, Keeps
<1>7. CASE Stop(w)
  <2>1. /\ UNCHANGED <<row, faults>> /\ proc[w].pc = "poll"
        /\ proc'[w] = At("stopped") /\ \A v \in Worker \ {w} : proc'[v] = proc[v]
    BY <1>7 DEF Stop, IInv, TypeOK
  <2>2. proc[w].job = NoJob /\ proc'[w].job = NoJob
    BY <1>2, <2>1 DEF Remembers, Busy, At
  <2>3. HoldersRun'
    BY <1>3, <1>4, <2>1, <2>2, StillHolders DEF IInv
  <2>4. RowsMoveOn /\ RowsAreFreed' /\ PayloadMatchesDocument'
    BY <1>3, <2>1, StillMatches DEF RowsMoveOn, RowsAreFreed, IInv
  <2>. QED
    BY <1>1, <1>3, <1>4, <2>1, <2>3, <2>4, IdleRemembers, Keeps
<1>8. ASSUME NEW j \in Job, MarkClaimed(w, j)
      PROVE  /\ proc[w].pc = "poll" /\ proc[w].job = NoJob
             /\ row[j] \in Row /\ row[j].status = "queued"
             /\ row'[j] = [row[j] EXCEPT !.status = "processing", !.worker = w, !.lease = "live"]
             /\ row'[j].worker = w /\ row'[j].lease = "live" /\ row'[j].status = "processing"
             /\ row'[j].doc = row[j].doc /\ row'[j].payload = row[j].payload
             /\ row'[j].retries = row[j].retries
             /\ \A k \in Job \ {j} : row'[k] = row[k]
             /\ RowsMoveOn /\ RowsAreFreed' /\ PayloadMatchesDocument'
  <2>1. proc[w].pc = "poll" /\ proc[w].job = NoJob
    BY <1>2, <1>8 DEF MarkClaimed, Polls, Remembers, Busy
  <2>2. row[j] \in Row /\ row[j].status = "queued"
    BY <1>8, RowTypes DEF MarkClaimed, IInv
  <2>3. row'[j] = [row[j] EXCEPT !.status = "processing", !.worker = w, !.lease = "live"]
        /\ \A k \in Job \ {j} : row'[k] = row[k]
    BY <1>8 DEF MarkClaimed, IInv, TypeOK
  <2>4. /\ row'[j].worker = w /\ row'[j].lease = "live" /\ row'[j].status = "processing"
        /\ row'[j].doc = row[j].doc /\ row'[j].payload = row[j].payload
        /\ row'[j].retries = row[j].retries /\ row'[j].reindex = row[j].reindex
    BY <2>2, <2>3 DEF Row
  <2>5. RowsMoveOn
    <3>1. ASSUME NEW v \in Worker, row'[j].worker = v PROVE proc[v].job = NoJob
      BY <2>1, <2>4, <3>1
    <3>. QED
      BY <2>3, <2>4, <3>1 DEF RowsMoveOn
  <2>6. RowsAreFreed'
    <3>1. w # NoWorker
      BY IngestionAssumption
    <3>2. ~row'[j].reindex => row'[j].payload \in Content
      BY <2>2, <2>4 DEF RowsAreFreed, IInv
    <3>. SUFFICES ASSUME NEW k \in Job
                  PROVE  /\ row'[k].status = "processing" <=> row'[k].worker # NoWorker
                         /\ row'[k].status # "processing" => row'[k].lease = "none"
                         /\ row'[k].status # "absent" /\ ~row'[k].reindex =>
                               row'[k].payload \in Content
      BY DEF RowsAreFreed
    <3>3. CASE k = j
      BY <2>4, <3>1, <3>2, <3>3
    <3>4. CASE k # j
      <4>1. row'[k] = row[k]
        BY <2>3, <3>4
      <4>. QED
        BY <4>1 DEF RowsAreFreed, IInv
    <3>. QED
      BY <3>3, <3>4
  <2>7. PayloadMatchesDocument'
    BY <1>3, <2>3, <2>4, StillMatches DEF IInv
  <2>. QED
    BY <2>1, <2>2, <2>3, <2>4, <2>5, <2>6, <2>7
<1>9. ASSUME NEW j \in Job, Claim(w, j) PROVE IInv'
  <2>1. MarkClaimed(w, j) /\ UNCHANGED faults
    BY <1>9 DEF Claim
  <2>2. /\ proc'[w] = [At("read") EXCEPT !.job = j, !.doc = row[j].doc,
                                         !.retries = row[j].retries, !.hb = "beating"]
        /\ \A v \in Worker \ {w} : proc'[v] = proc[v]
    BY <1>9 DEF Claim, IInv, TypeOK
  <2>3. /\ proc'[w].pc = "read" /\ proc'[w].job = j /\ proc'[w].doc = row[j].doc
        /\ proc'[w].retries = row[j].retries /\ proc'[w].hb = "beating"
        /\ proc'[w].ctx = "open" /\ proc'[w].result = "none"
    BY <2>2 DEF At
  <2>4. HasCause(w)'
    BY <2>3 DEF HasCause
  <2>5. Remembers(w)'
    <3>1. /\ row[j].status = "queued" /\ row'[j].status = "processing"
          /\ row'[j].payload = row[j].payload /\ row'[j].retries = row[j].retries
      BY <1>8, <2>1
    <3>2. row[j].doc # NoDoc => Fits(row[j].doc, row[j].payload)
      BY DEF IInv, PayloadMatchesDocument, Live, Fits
    <3>3. row[j].doc # NoDoc => Fits(proc[w].doc, row[proc[w].job].payload)'
      BY <1>3, <2>3, <3>1, <3>2 DEF Fits
    <3>4. j # NoJob
      BY IngestionAssumption
    <3>. QED
      BY <2>3, <3>1, <3>3, <3>4 DEF Remembers, Busy
  <2>6. HoldersRun'
    <3>. SUFFICES ASSUME Undisturbed', NEW v \in Worker, NEW k \in Job,
                         row'[k].worker = v, proc'[v].pc # "crashed"
                  PROVE  proc'[v].job = k /\ row'[k].lease = "live"
      BY DEF HoldersRun
    <3>1. Undisturbed
      BY <1>4, <2>1, StillUndisturbed DEF IInv
    <3>2. CASE k = j
      BY <1>8, <2>1, <2>3, <3>2
    <3>3. CASE k # j
      <4>1. proc[w].pc = "poll" /\ proc[w].job = NoJob
        BY <1>2, <2>1 DEF MarkClaimed, Polls, Remembers, Busy
      <4>2. row'[k] = row[k]
        BY <2>1, <3>3 DEF MarkClaimed, IInv, TypeOK
      <4>3. v # w
        BY <3>1, <4>1, <4>2, IngestionAssumption DEF IInv, HoldersRun
      <4>. QED
        BY <2>2, <3>1, <4>2, <4>3 DEF IInv, HoldersRun
    <3>. QED
      BY <3>2, <3>3
  <2>. QED
    BY <1>1, <1>3, <1>4, <1>8, <2>1, <2>2, <2>4, <2>5, <2>6, Keeps
<1>10. ASSUME NEW j \in Job, ClaimUnheard(w, j) PROVE IInv'
  <2>1. MarkClaimed(w, j) /\ Fault /\ UNCHANGED proc
    BY <1>10 DEF ClaimUnheard
  <2>2. HoldersRun'
    BY <2>1 DEF HoldersRun, Undisturbed, Fault, IInv, TypeOK
  <2>. QED
    BY <1>1, <1>3, <1>4, <1>8, <2>1, <2>2, Keeps
<1>. QED
  BY <1>5, <1>6, <1>7, <1>9, <1>10

\* The requests of the web: a job is created with the document and the payload of
\* another job, read two statements before; a document is deleted with every row
\* that names it.
LEMMA WebKeeps ==
    ASSUME IInv,
           \/ \E j \in Job, c \in Content : Upload(j, c)
           \/ \E h \in Handler : \/ FindActiveReindexJob(h)
                                 \/ \E d \in Doc : GetDocumentSource(h, d)
                                 \/ \E j \in Job : CreateReindexJob(h, j)
           \/ \E d \in Doc : DeleteDocument(d)
    PROVE  IInv'
<1>1. TypeOK'
  BY WebTyped DEF IInv
<1>2. UNCHANGED <<proc, stop, faults>>
  BY DEF Upload, FindActiveReindexJob, GetDocumentSource, CreateReindexJob, DeleteDocument
<1>3. ASSUME DocsMoveOn, RowsMoveOn, RowsAreFreed', RequestsRemember', NoDuplicateDocument',
             PayloadMatchesDocument',
             \A j \in Job, w \in Worker : row'[j].worker = w =>
                 row[j].worker = w /\ row'[j].lease = row[j].lease
      PROVE  IInv'
  <2>1. HoldersRun'
    BY <1>2, <1>3, StillHolders DEF IInv
  <2>2. ASSUME NEW w \in Worker PROVE Remembers(w)' /\ HasCause(w)'
    <3>1. Remembers(w) /\ HasCause(w)
      BY DEF IInv, WorkersRemember, ResultsHaveCause
    <3>. QED
      BY <1>2, <1>3, <3>1, StillRemembers DEF IInv, HasCause
  <2>. QED
    BY <1>1, <1>3, <2>1, <2>2 DEF IInv, WorkersRemember, ResultsHaveCause
<1>4. ASSUME NEW j \in Job, NEW r, Insert(j, r), UNCHANGED docs,
             r.status = "queued", r.worker = NoWorker, r.lease = "none",
             ~r.reindex => r.payload \in Content,
             r.doc # NoDoc => Live(r.doc) /\ r.payload \in {NoContent, docs[r.doc]}
      PROVE  /\ RowsMoveOn /\ RowsAreFreed' /\ PayloadMatchesDocument'
             /\ \A k \in Job, w \in Worker : row'[k].worker = w =>
                   row[k].worker = w /\ row'[k].lease = row[k].lease
  <2>1. row[j].status = "absent" /\ row'[j] = r /\ \A k \in Job \ {j} : row'[k] = row[k]
    BY <1>4 DEF Insert, IInv, TypeOK
  <2>2. \A w \in Worker : w # NoWorker
    BY IngestionAssumption
  <2>3. RowsMoveOn
    BY <1>4, <2>1, <2>2 DEF RowsMoveOn
  <2>4. RowsAreFreed'
    BY <1>4, <2>1 DEF RowsAreFreed, IInv
  <2>5. PayloadMatchesDocument'
    BY <1>4, <2>1 DEF PayloadMatchesDocument, Live, IInv
  <2>. QED
    BY <1>4, <2>1, <2>2, <2>3, <2>4, <2>5
<1>5. ASSUME NEW j \in Job, NEW c \in Content, Upload(j, c) PROVE IInv'
  <2>. DEFINE r == [Absent EXCEPT !.status = "queued", !.payload = c]
  <2>1. Insert(j, r) /\ UNCHANGED <<docs, web>>
    BY <1>5 DEF Upload
  <2>2. /\ r.status = "queued" /\ r.worker = NoWorker /\ r.lease = "none"
        /\ r.payload \in Content /\ r.doc = NoDoc
    BY DEF Absent
  <2>3. NoDuplicateDocument' /\ DocsMoveOn
    BY <2>1, StillApart DEF IInv
  <2>4. RequestsRemember'
    BY <2>1 DEF RequestsRemember, Fits, IInv
  <2>. HIDE DEF r
  <2>. QED
    BY <1>3, <1>4, <2>1, <2>2, <2>3, <2>4
<1>6. ASSUME UNCHANGED row PROVE /\ RowsMoveOn /\ RowsAreFreed'
                                 /\ UNCHANGED docs => PayloadMatchesDocument'
  BY <1>6, StillMatches DEF RowsMoveOn, RowsAreFreed, IInv
<1>7. ASSUME NEW h \in Handler, FindActiveReindexJob(h) PROVE IInv'
  <2>1. UNCHANGED <<docs, row>>
    BY <1>7 DEF FindActiveReindexJob
  <2>2. NoDuplicateDocument' /\ DocsMoveOn
    BY <2>1, StillApart DEF IInv
  <2>3. RequestsRemember'
    <3>1. web[h] \in WebType
      BY DEF IInv, TypeOK, WebType
    <3>2. /\ web'[h].pc # "idle" => web'[h].doc = web[h].doc /\ web'[h].payload = web[h].payload
          /\ web[h].pc # "idle"
          /\ \A g \in Handler \ {h} : web'[g] = web[g]
      BY <1>7, <3>1 DEF FindActiveReindexJob, NoRequest, WebType, IInv, TypeOK
    <3>. QED
      BY <2>1, <3>2 DEF RequestsRemember, Fits, IInv
  <2>. QED
    BY <1>3, <1>6, <2>1, <2>2, <2>3
<1>8. ASSUME NEW h \in Handler, NEW d \in Doc, GetDocumentSource(h, d) PROVE IInv'
  <2>1. UNCHANGED <<docs, row>> /\ Live(d)
    BY <1>8 DEF GetDocumentSource
  <2>2. NoDuplicateDocument' /\ DocsMoveOn
    BY <2>1, StillApart DEF IInv
  <2>3. Fits(d, SourceOf(d))
    <3>1. CASE SourceOf(d) = NoContent
      BY <2>1, <3>1 DEF Fits, Live
    <3>2. CASE \E j \in Job : row[j].doc = d /\ SourceOf(d) = row[j].payload
      BY <2>1, <3>2, IngestionAssumption DEF IInv, PayloadMatchesDocument, Fits, Live
    <3>. QED
      BY <3>1, <3>2, SourceIsPayload DEF IInv
  <2>4. RequestsRemember'
    <3>1. /\ web'[h].doc = d /\ web'[h].payload = SourceOf(d)
          /\ \A g \in Handler \ {h} : web'[g] = web[g]
      BY <1>8 DEF GetDocumentSource, IInv, TypeOK
    <3>. QED
      BY <2>1, <2>3, <3>1 DEF RequestsRemember, Fits, IInv
  <2>. QED
    BY <1>3, <1>6, <2>1, <2>2, <2>4
<1>9. ASSUME NEW h \in Handler, NEW j \in Job, CreateReindexJob(h, j) PROVE IInv'
  <2>1. UNCHANGED docs /\ web[h].pc = "checked"
        /\ web'[h] = NoRequest /\ \A g \in Handler \ {h} : web'[g] = web[g]
    BY <1>9 DEF CreateReindexJob, IInv, TypeOK
  <2>2. NoDuplicateDocument' /\ DocsMoveOn
    BY <2>1, StillApart DEF IInv
  <2>3. RequestsRemember'
    BY <2>1 DEF RequestsRemember, NoRequest, Fits, IInv
  <2>4. CASE Live(web[h].doc)
    <3>. DEFINE r == [Absent EXCEPT !.status = "queued", !.reindex = TRUE,
                                    !.payload = web[h].payload, !.doc = web[h].doc]
    <3>1. Insert(j, r)
      BY <1>9, <2>4 DEF CreateReindexJob
    <3>2. /\ r.status = "queued" /\ r.worker = NoWorker /\ r.lease = "none" /\ r.reindex
          /\ r.payload = web[h].payload /\ r.doc = web[h].doc
      BY DEF Absent
    <3>3. web[h].payload \in {NoContent, docs[web[h].doc]}
      BY <2>1, <2>4, IngestionAssumption DEF IInv, RequestsRemember, Fits, Live
    <3>. HIDE DEF r
    <3>. QED
      BY <1>3, <1>4, <2>1, <2>2, <2>3, <2>4, <3>1, <3>2, <3>3
  <2>5. CASE ~Live(web[h].doc)
    <3>1. UNCHANGED row
      BY <1>9, <2>5 DEF CreateReindexJob
    <3>. QED
      BY <1>3, <1>6, <2>1, <2>2, <2>3, <3>1
  <2>. QED
    BY <2>4, <2>5
<1>10. ASSUME NEW d \in Doc, DeleteDocument(d) PROVE IInv'
  <2>1. /\ UNCHANGED web /\ docs[d] \in Content /\ docs'[d] = "deleted"
        /\ \A e \in Doc \ {d} : docs'[e] = docs[e]
    BY <1>10 DEF DeleteDocument, Live, IInv, TypeOK
  <2>2. ASSUME NEW j \in Job
        PROVE  /\ row'[j].status = row[j].status /\ row'[j].worker = row[j].worker
               /\ row'[j].lease = row[j].lease /\ row'[j].retries = row[j].retries
               /\ row'[j].reindex = row[j].reindex /\ row'[j].payload = row[j].payload
               /\ row'[j].doc = IF row[j].doc = d THEN NoDoc ELSE row[j].doc
    <3>1. row'[j] = IF row[j].doc = d THEN [row[j] EXCEPT !.doc = NoDoc] ELSE row[j]
      BY <1>10 DEF DeleteDocument
    <3>2. row[j] \in Row
      BY RowTypes DEF IInv
    <3>. QED
      BY <3>1, <3>2 DEF Row
  <2>3. DocsMoveOn
    BY <2>1 DEF DocsMoveOn
  <2>4. RowsMoveOn /\ RowsAreFreed'
    BY <2>2 DEF RowsMoveOn, RowsAreFreed, IInv
  <2>5. RequestsRemember'
    BY <2>1, <2>3, FitsKept DEF RequestsRemember, Fits, IInv
  <2>6. NoDuplicateDocument'
    BY <2>1, IngestionAssumption DEF NoDuplicateDocument, Live, IInv
  <2>7. PayloadMatchesDocument'
    BY <2>1, <2>2, IngestionAssumption DEF PayloadMatchesDocument, Live, IInv
  <2>. QED
    BY <1>3, <2>2, <2>3, <2>4, <2>5, <2>6, <2>7
<1>. QED
  BY <1>5, <1>7, <1>8, <1>9, <1>10

\* Time changes a row's lease, of a job that is processing, or whether it is due.
LEMMA TouchedRow ==
    ASSUME RowsAreFreed, NEW j \in Job, \A k \in Job \ {j} : row'[k] = row[k],
           row'[j].status = row[j].status, row'[j].worker = row[j].worker,
           row'[j].retries = row[j].retries, row'[j].reindex = row[j].reindex,
           row'[j].payload = row[j].payload,
           row'[j].lease = row[j].lease \/ row[j].status = "processing"
    PROVE  RowsMoveOn /\ RowsAreFreed'
<1>1. ASSUME NEW k \in Job
      PROVE  /\ row'[k].status = row[k].status /\ row'[k].worker = row[k].worker
             /\ row'[k].retries = row[k].retries /\ row'[k].reindex = row[k].reindex
             /\ row'[k].payload = row[k].payload
             /\ row'[k].lease = row[k].lease \/ row[k].status = "processing"
  OBVIOUS
<1>2. RowsMoveOn
  BY <1>1 DEF RowsMoveOn
<1>3. RowsAreFreed'
  BY <1>1 DEF RowsAreFreed
<1>. QED
  BY <1>2, <1>3

\* Time, shutdowns and crashes: a lease nobody renews is that of a crashed worker,
\* as long as nothing went wrong.
LEMMA RestKeeps ==
    ASSUME IInv,
           \/ \E j \in Job : LeaseRunsOut(j) \/ Stall(j) \/ BackoffEnds(j)
           \/ \E w \in Worker : Shutdown(w) \/ Crash(w)
    PROVE  IInv'
<1>1. TypeOK'
  BY RestTyped DEF IInv
<1>2. UNCHANGED docs => NoDuplicateDocument' /\ DocsMoveOn
  BY StillApart DEF IInv
<1>3. ASSUME NEW j \in Job, LeaseRunsOut(j) \/ Stall(j) PROVE IInv'
  <2>1. /\ UNCHANGED <<docs, proc, stop, web>>
        /\ row' = [row EXCEPT ![j] = [row[j] EXCEPT !.lease = "expired"]]
        /\ row[j].lease = "live"
    BY <1>3 DEF LeaseRunsOut, Stall
  <2>2. row[j] \in Row /\ row'[j] = [row[j] EXCEPT !.lease = "expired"]
        /\ \A k \in Job \ {j} : row'[k] = row[k]
    BY <2>1 DEF IInv, TypeOK
  <2>3. /\ row'[j].status = row[j].status /\ row'[j].worker = row[j].worker
        /\ row'[j].retries = row[j].retries /\ row'[j].reindex = row[j].reindex
        /\ row'[j].payload = row[j].payload /\ row'[j].doc = row[j].doc
    BY <2>2 DEF Row
  <2>4. row[j].status = "processing"
    BY <2>1 DEF RowsAreFreed, IInv
  <2>5. RowsMoveOn /\ RowsAreFreed'
    BY <2>2, <2>3, <2>4, TouchedRow DEF IInv
  <2>6. PayloadMatchesDocument'
    BY <2>1, <2>2, <2>3, StillMatches DEF IInv
  <2>7. HoldersRun'
    <3>1. CASE Stall(j)
      BY <3>1 DEF Stall, HoldersRun, Undisturbed, Fault, IInv, TypeOK
    <3>2. CASE LeaseRunsOut(j)
      <4>. SUFFICES ASSUME Undisturbed', NEW w \in Worker, NEW k \in Job,
                           row'[k].worker = w, proc'[w].pc # "crashed"
                    PROVE  proc'[w].job = k /\ row'[k].lease = "live"
        BY DEF HoldersRun
      <4>1. Undisturbed
        BY <1>2, <2>1, <3>2, StillUndisturbed DEF LeaseRunsOut, IInv
      <4>2. row[k].worker = w /\ proc[w].pc # "crashed"
        BY <2>1, <2>2, <2>3
      <4>3. OwnsLease(w, k) /\ proc[w].job = k
        BY <4>1, <4>2, HolderOwns
      <4>4. k # j
        BY <3>2, <4>3 DEF LeaseRunsOut, Renewed
      <4>. QED
        BY <2>1, <2>2, <4>3, <4>4 DEF OwnsLease
    <3>. QED
      BY <1>3, <3>1, <3>2
  <2>. QED
    BY <1>1, <1>2, <2>1, <2>5, <2>6, <2>7, Keeps
<1>4. ASSUME NEW j \in Job, BackoffEnds(j) PROVE IInv'
  <2>1. /\ UNCHANGED <<docs, proc, stop, web, faults>>
        /\ row' = [row EXCEPT ![j] = [row[j] EXCEPT !.due = TRUE]]
    BY <1>4 DEF BackoffEnds
  <2>2. row[j] \in Row /\ row'[j] = [row[j] EXCEPT !.due = TRUE]
        /\ \A k \in Job \ {j} : row'[k] = row[k]
    BY <2>1 DEF IInv, TypeOK
  <2>3. /\ row'[j].status = row[j].status /\ row'[j].worker = row[j].worker
        /\ row'[j].retries = row[j].retries /\ row'[j].reindex = row[j].reindex
        /\ row'[j].payload = row[j].payload /\ row'[j].doc = row[j].doc
        /\ row'[j].lease = row[j].lease
    BY <2>2 DEF Row
  <2>4. RowsMoveOn /\ RowsAreFreed'
    BY <2>2, <2>3, TouchedRow DEF IInv
  <2>5. PayloadMatchesDocument'
    BY <2>1, <2>2, <2>3, StillMatches DEF IInv
  <2>6. \A k \in Job, w \in Worker : row'[k].worker = w =>
            row[k].worker = w /\ row'[k].lease = row[k].lease
    BY <2>2, <2>3
  <2>7. HoldersRun'
    BY <1>2, <2>1, <2>6, StillHolders DEF IInv
  <2>. QED
    BY <1>1, <1>2, <2>1, <2>4, <2>5, <2>7, Keeps
<1>5. ASSUME UNCHANGED row PROVE RowsMoveOn /\ RowsAreFreed'
  BY <1>5 DEF RowsMoveOn, RowsAreFreed, IInv
<1>6. ASSUME NEW w \in Worker, Shutdown(w) PROVE IInv'
  <2>1. UNCHANGED <<row, docs, proc, web, faults>> /\ stop \subseteq stop'
    BY <1>6 DEF Shutdown
  <2>2. HoldersRun' /\ PayloadMatchesDocument'
    BY <1>2, <2>1, StillHolders, StillMatches DEF IInv
  <2>. QED
    BY <1>1, <1>2, <1>5, <2>1, <2>2, Keeps
<1>7. ASSUME NEW w \in Worker, Crash(w) PROVE IInv'
  <2>1. /\ UNCHANGED <<row, docs, stop, web, faults>>
        /\ proc'[w] = At("crashed") /\ \A v \in Worker \ {w} : proc'[v] = proc[v]
    BY <1>7 DEF Crash, IInv, TypeOK
  <2>2. proc'[w].pc = "crashed"
    BY <2>1 DEF At
  <2>3. HoldersRun' /\ PayloadMatchesDocument'
    BY <1>2, <2>1, <2>2, StillHolders, StillMatches DEF IInv
  <2>. QED
    BY <1>1, <1>2, <1>5, <2>1, <2>3, IdleRemembers, Keeps
<1>. QED
  BY <1>3, <1>4, <1>6, <1>7

-----------------------------------------------------------------------------
(* The theorems.                                                           *)

\* The inductive invariant holds in every reachable state.
THEOREM Invariant == Spec => []IInv
<1>1. Init => IInv
  <2>. SUFFICES ASSUME Init PROVE IInv
    OBVIOUS
  <2>1. TypeOK
    <3>1. row \in [Job -> Row]
      BY IngestionAssumption DEF Init, Absent, Row, Status
    <3>2. proc \in [Worker -> Proc]
      BY IngestionAssumption DEF Init, At, Proc
    <3>3. web \in [Handler -> WebType]
      BY DEF Init, NoRequest, WebType
    <3>. QED
      BY <3>1, <3>2, <3>3, IngestionAssumption DEF Init, TypeOK, WebType
  <2>2. RowsAreFreed
    BY DEF Init, Absent, RowsAreFreed
  <2>3. RequestsRemember
    BY DEF Init, NoRequest, RequestsRemember
  <2>4. WorkersRemember /\ ResultsHaveCause
    BY DEF Init, At, Busy, WorkersRemember, Remembers, ResultsHaveCause, HasCause
  <2>5. HoldersRun
    BY IngestionAssumption DEF Init, Absent, HoldersRun
  <2>6. NoDuplicateDocument
    BY IngestionAssumption DEF Init, NoDuplicateDocument, Live
  <2>7. PayloadMatchesDocument
    BY DEF Init, Absent, PayloadMatchesDocument
  <2>. QED
    BY <2>1, <2>2, <2>3, <2>4, <2>5, <2>6, <2>7 DEF IInv
<1>2. IInv /\ [Next]_vars => IInv'
  <2>. SUFFICES ASSUME IInv, [Next]_vars PROVE IInv'
    OBVIOUS
  <2>1. CASE \E w \in Worker : \/ Start(w) \/ PeriodicRecovery(w) \/ Stop(w)
                               \/ \E j \in Job : Claim(w, j) \/ ClaimUnheard(w, j)
    BY <2>1, LoopKeeps
  <2>2. CASE \E w \in Worker : Index(w) \/ Heartbeat(w) \/ Conclude(w) \/ JobTimeout(w)
    BY <2>2, IndexKeeps, HeartbeatKeeps, ConcludeKeeps
  <2>3. CASE \E w \in Worker : Shutdown(w) \/ Crash(w)
    BY <2>3, RestKeeps
  <2>4. CASE \E j \in Job : \/ \E c \in Content : Upload(j, c)
                            \/ LeaseRunsOut(j) \/ Stall(j) \/ BackoffEnds(j)
    BY <2>4, RestKeeps, WebKeeps
  <2>5. CASE \/ \E h \in Handler : \/ FindActiveReindexJob(h)
                                   \/ \E d \in Doc : GetDocumentSource(h, d)
                                   \/ \E j \in Job : CreateReindexJob(h, j)
             \/ \E d \in Doc : DeleteDocument(d)
    BY <2>5, WebKeeps
  <2>6. CASE UNCHANGED vars
    <3>1. UNCHANGED <<row, finished, docs, proc, stop, web, faults>>
      BY <2>6 DEF vars
    <3>2. TypeOK'
      BY <2>6, NextTyped DEF IInv
    <3>3. RowsMoveOn /\ RowsAreFreed' /\ NoDuplicateDocument' /\ PayloadMatchesDocument'
          /\ DocsMoveOn
      BY <3>1, StillApart, StillMatches DEF RowsMoveOn, RowsAreFreed, IInv
    <3>4. HoldersRun'
      BY <3>1, <3>3, StillHolders DEF IInv
    <3>. QED
      BY <3>1, <3>2, <3>3, <3>4, Keeps
  <2>. QED
    BY <2>1, <2>2, <2>3, <2>4, <2>5, <2>6 DEF Next
<1>. QED
  BY <1>1, <1>2, PTL DEF Spec

\* Every variable keeps its type: among others, no retry is charged beyond the
\* budget, and what is stored of a file is content.
THEOREM TypeCorrect == Spec => []TypeOK
<1>1. IInv => TypeOK
  BY DEF IInv
<1>. QED
  BY <1>1, Invariant, PTL

\* However often a file is uploaded, retried and taken over: one document for it.
THEOREM OneDocumentPerContent == Spec => []NoDuplicateDocument
<1>1. IInv => NoDuplicateDocument
  BY DEF IInv
<1>. QED
  BY <1>1, Invariant, PTL

\* A job never puts the text of one file under the document of another, whatever
\* was deleted between the statements of the requests that create reindex jobs.
THEOREM PayloadFitsDocument == Spec => []PayloadMatchesDocument
<1>1. IInv => PayloadMatchesDocument
  BY DEF IInv
<1>. QED
  BY <1>1, Invariant, PTL

\* A job cut off by a shutdown or a lost lease is not reported as failed.
THEOREM CancelledIsNotReported == Spec => []CancelIsNoFailure
<1>1. IInv => CancelIsNoFailure
  BY DEF IInv, ResultsHaveCause, HasCause, CancelIsNoFailure
<1>. QED
  BY <1>1, Invariant, PTL

\* A worker that shut down in order has left its name in no row.
THEOREM OrderlyShutdown == Spec => []ShutdownReleases
<1>1. IInv => ShutdownReleases
  <2>. SUFFICES ASSUME IInv, NEW w \in Worker, NEW j \in Job, proc[w].pc = "stopped",
                       Undisturbed, row[j].worker = w
                PROVE  FALSE
    BY DEF ShutdownReleases, Undisturbed
  <2>1. proc[w].job = j
    BY HolderOwns
  <2>2. proc[w].job = NoJob
    BY DEF IInv, WorkersRemember, Remembers, Busy
  <2>. QED
    BY <2>1, <2>2, IngestionAssumption
<1>. QED
  BY <1>1, Invariant, PTL

-----------------------------------------------------------------------------
(* Tickets: what a step does to statuses, retries, names and workers' jobs.*)

\* The statuses and retries of all rows but the one of j stay, and it gets these.
Moved(j, status, retries) ==
    \A k \in Job : /\ row'[k].status = IF k = j THEN status ELSE row[k].status
                   /\ row'[k].retries = IF k = j THEN retries ELSE row[k].retries

StatusesKept ==
    \A k \in Job : row'[k].status = row[k].status /\ row'[k].retries = row[k].retries

JobsKept == \A v \in Worker : proc'[v].job = proc[v].job

\* w has this job now.
HasNow(w, j) == \A v \in Worker : proc'[v].job = IF v = w THEN j ELSE proc[v].job

\* No worker's name gets into a row, but for w into that of j.
NamesKept     == \A k \in Job, v \in Worker : row'[k].worker = v => row[k].worker = v
Named(j, w)   ==
    \A k \in Job, v \in Worker : row'[k].worker = v => IF k = j THEN v = w ELSE row[k].worker = v

Idles == StatusesKept /\ JobsKept /\ NamesKept

Submits(j) ==
    /\ row[j].status = "absent" /\ Moved(j, "queued", 0)
    /\ JobsKept /\ NamesKept

Claims(w, j) ==
    /\ row[j].status = "queued" /\ Moved(j, "processing", row[j].retries)
    /\ proc[w].job = NoJob /\ Named(j, w)

Recovers(jobs) ==
    /\ \A j \in jobs : row[j].status = "processing"
    /\ \A k \in Job : /\ row'[k].status = IF k \in jobs THEN "queued" ELSE row[k].status
                      /\ row'[k].retries = row[k].retries
    /\ JobsKept /\ NamesKept

Leaves(w) == HasNow(w, NoJob) /\ NamesKept

\* The end of a job, a retry or a release.
Concludes(w, j, status, retries) ==
    /\ proc[w].job = j /\ row[j].worker = w /\ row[j].status = "processing"
    /\ Moved(j, status, retries) /\ Leaves(w)
    /\ \/ status \in Terminal \cup {"queued"} /\ retries = row[j].retries
       \/ status = "queued" /\ retries = row[j].retries + 1 /\ row[j].retries < MaxRetries

Effect ==
    \/ Idles
    \/ \E j \in Job : Submits(j)
    \/ \E w \in Worker, j \in Job : Claims(w, j) /\ (HasNow(w, j) \/ JobsKept)
    \/ \E jobs \in SUBSET Job : Recovers(jobs)
    \/ \E w \in Worker : StatusesKept /\ Leaves(w)
    \/ \E w \in Worker, j \in Job, status \in Status, retries \in Nat :
          Concludes(w, j, status, retries)

\* A statement that writes one row.
LEMMA OneRow ==
    ASSUME TypeOK, NEW j \in Job, NEW r, row' = [row EXCEPT ![j] = r]
    PROVE  /\ Moved(j, r.status, r.retries)
           /\ r.worker \in {row[j].worker, NoWorker} => NamesKept
           /\ \A w \in Worker : r.worker = w => Named(j, w)
           /\ r.status = row[j].status /\ r.retries = row[j].retries => StatusesKept
<1>1. \A k \in Job : row'[k] = IF k = j THEN r ELSE row[k]
  BY DEF TypeOK
<1>. QED
  BY <1>1, IngestionAssumption DEF Moved, NamesKept, Named, StatusesKept

\* A step that writes no row.
LEMMA SameRows ==
    ASSUME UNCHANGED row
    PROVE  StatusesKept /\ NamesKept
BY DEF StatusesKept, NamesKept

\* A goroutine goes on with its job, or returns to its loop.
LEMMA SameJobs ==
    ASSUME UNCHANGED proc \/ \E w \in Worker : /\ \A v \in Worker \ {w} : proc'[v] = proc[v]
                                               /\ proc'[w].job = proc[w].job
    PROVE  JobsKept
BY DEF JobsKept

\* A goroutine goes back to its loop, or ends, without a job.
LEMMA OneReturns ==
    ASSUME TypeOK, NEW w \in Worker, NEW pc, proc' = [proc EXCEPT ![w] = At(pc)]
    PROVE  /\ HasNow(w, NoJob)
           /\ proc[w].job = NoJob => JobsKept
BY DEF TypeOK, HasNow, JobsKept, At

\* A request accepts a job, or the rows keep statuses, retries and names.
LEMMA WebEffect ==
    ASSUME IInv, \/ \E j \in Job, c \in Content : Upload(j, c)
                 \/ \E h \in Handler : \/ FindActiveReindexJob(h)
                                       \/ \E d \in Doc : GetDocumentSource(h, d)
                                       \/ \E j \in Job : CreateReindexJob(h, j)
                 \/ \E d \in Doc : DeleteDocument(d)
    PROVE  Effect
<1>0. TypeOK
  BY DEF IInv
<1>1. ASSUME UNCHANGED row, UNCHANGED proc PROVE Effect
  BY <1>1, SameRows, SameJobs DEF Effect, Idles
<1>2. ASSUME NEW j \in Job, NEW r, Insert(j, r), UNCHANGED proc,
             r.status = "queued", r.retries = 0, r.worker = NoWorker
      PROVE  Effect
  <2>1. Submits(j)
    BY <1>0, <1>2, OneRow, SameJobs DEF Insert, Submits
  <2>. QED
    BY <2>1 DEF Effect
<1>3. ASSUME NEW j \in Job, NEW c \in Content, Upload(j, c) PROVE Effect
  BY <1>2, <1>3 DEF Upload, Absent
<1>4. ASSUME NEW h \in Handler, NEW j \in Job, CreateReindexJob(h, j) PROVE Effect
  <2>1. CASE Live(web[h].doc)
    BY <1>2, <1>4, <2>1 DEF CreateReindexJob, Absent
  <2>2. CASE ~Live(web[h].doc)
    BY <1>1, <1>4, <2>2 DEF CreateReindexJob
  <2>. QED
    BY <2>1, <2>2
<1>5. ASSUME NEW d \in Doc, DeleteDocument(d) PROVE Effect
  <2>1. \A k \in Job : row[k] \in Row
    BY <1>0 DEF TypeOK
  <2>2. \A k \in Job : row'[k].status = row[k].status /\ row'[k].retries = row[k].retries
                       /\ row'[k].worker = row[k].worker
    BY <1>5, <2>1 DEF DeleteDocument, Row
  <2>3. StatusesKept /\ NamesKept
    BY <2>2 DEF StatusesKept, NamesKept
  <2>. QED
    BY <1>5, <2>3, SameJobs DEF DeleteDocument, Effect, Idles
<1>. QED
  BY <1>1, <1>3, <1>4, <1>5 DEF FindActiveReindexJob, GetDocumentSource

\* Recovery returns jobs to the queue and takes the names out of them.
LEMMA RecoveryEffect ==
    ASSUME IInv, RecoverExpired, JobsKept
    PROVE  Effect
<1>. DEFINE jobs == {j \in Job : Expired(j)}
<1>1. \A k \in Job : row[k] \in Row /\ (k \in jobs => row[k].status = "processing")
  BY DEF IInv, TypeOK, Expired
<1>2. \A k \in Job : row'[k] = IF k \in jobs THEN Freed(k, "queued") ELSE row[k]
  BY DEF RecoverExpired
<1>3. \A k \in Job : /\ Freed(k, "queued").status = "queued"
                     /\ Freed(k, "queued").retries = row[k].retries
                     /\ Freed(k, "queued").worker = NoWorker
  BY <1>1 DEF Freed, Row
<1>. HIDE DEF jobs
<1>4. NamesKept
  BY <1>2, <1>3, IngestionAssumption DEF NamesKept
<1>5. jobs \in SUBSET Job
  BY DEF jobs
<1>6. Recovers(jobs)
  BY <1>1, <1>2, <1>3, <1>4, <1>5 DEF Recovers
<1>. QED
  BY <1>5, <1>6 DEF Effect

\* The loop of a worker claims a job, recovers expired ones or has none.
LEMMA LoopEffect ==
    ASSUME IInv, NEW w \in Worker,
           \/ Start(w) \/ PeriodicRecovery(w) \/ Stop(w)
           \/ \E j \in Job : Claim(w, j) \/ ClaimUnheard(w, j)
    PROVE  Effect
<1>0. TypeOK /\ (proc[w].pc \in Busy <=> proc[w].job # NoJob)
  BY DEF IInv, WorkersRemember, Remembers
<1>1. CASE Start(w)
  BY <1>0, <1>1, OneReturns, RecoveryEffect DEF Start, Busy
<1>2. CASE PeriodicRecovery(w)
  BY <1>2, SameJobs, RecoveryEffect DEF PeriodicRecovery
<1>3. CASE Stop(w)
  BY <1>0, <1>3, OneReturns, SameRows DEF Stop, Busy, Effect, Idles
<1>4. ASSUME NEW j \in Job, MarkClaimed(w, j) PROVE Claims(w, j)
  <2>. DEFINE r == [row[j] EXCEPT !.status = "processing", !.worker = w, !.lease = "live"]
  <2>1. row' = [row EXCEPT ![j] = r] /\ row[j].status = "queued" /\ proc[w].pc = "poll"
    BY <1>4 DEF MarkClaimed, Polls
  <2>2. r.status = "processing" /\ r.worker = w /\ r.retries = row[j].retries
    <3>1. row[j] \in Row
      BY <1>0 DEF TypeOK
    <3>. QED
      BY <3>1 DEF Row
  <2>. HIDE DEF r
  <2>3. Moved(j, "processing", row[j].retries) /\ Named(j, w)
    BY <1>0, <2>1, <2>2, OneRow
  <2>. QED
    BY <1>0, <2>1, <2>3 DEF Claims, Busy
<1>5. ASSUME NEW j \in Job, Claim(w, j) PROVE Effect
  <2>1. HasNow(w, j)
    BY <1>0, <1>5 DEF Claim, HasNow, TypeOK, At
  <2>. QED
    BY <1>4, <1>5, <2>1 DEF Claim, Effect
<1>6. ASSUME NEW j \in Job, ClaimUnheard(w, j) PROVE Effect
  <2>1. JobsKept
    BY <1>6, SameJobs DEF ClaimUnheard
  <2>. QED
    BY <1>4, <1>6, <2>1 DEF ClaimUnheard, Effect
<1>. QED
  BY <1>1, <1>2, <1>3, <1>5, <1>6

\* index(), the heartbeat and Join go on with the job.
LEMMA GoesOn ==
    ASSUME TypeOK, UNCHANGED row, NEW w \in Worker, \E q : /\ proc' = [proc EXCEPT ![w] = q]
                                                          /\ q.job = proc[w].job
    PROVE  Effect
<1>1. JobsKept
  BY SameJobs DEF TypeOK
<1>. QED
  BY <1>1, SameRows DEF Effect, Idles

\* Steps within process() touch no row, and the worker keeps its job.
LEMMA IndexEffect ==
    ASSUME IInv, NEW w \in Worker, Index(w) \/ Heartbeat(w) \/ Join(w) \/ JobTimeout(w)
    PROVE  Effect
<1>0. TypeOK /\ proc[w] \in Proc
  BY DEF IInv, TypeOK
<1>1. UNCHANGED row
  BY DEF Index, Heartbeat, Read, Build, CallFails, ReplaceDocumentChunks, CreateDocument,
         HeartbeatStops, HeartbeatLosesLease, HeartbeatFails, HeartbeatEnds, Join, JobTimeout
<1>2. ASSUME NEW result, NEW d, Returns(w, result, d) PROVE Effect
  <2>. DEFINE q == [proc[w] EXCEPT !.pc = "join", !.result = result, !.doc = d]
  <2>1. proc' = [proc EXCEPT ![w] = q]
    BY <1>2 DEF Returns
  <2>2. q.job = proc[w].job
    BY <1>0 DEF Proc
  <2>. QED
    BY <1>0, <1>1, <2>1, <2>2, GoesOn
<1>3. ASSUME NEW result, Fails(w, result) PROVE Effect
  BY <1>2, <1>3 DEF Fails
<1>4. ASSUME NEW pc, GoTo(w, pc) PROVE Effect
  <2>. DEFINE q == [proc[w] EXCEPT !.pc = pc]
  <2>1. proc' = [proc EXCEPT ![w] = q]
    BY <1>4 DEF GoTo
  <2>2. q.job = proc[w].job
    BY <1>0 DEF Proc
  <2>. QED
    BY <1>0, <1>1, <2>1, <2>2, GoesOn
<1>5. ASSUME NEW hb, HeartbeatEnds(w, hb) PROVE Effect
  <2>. DEFINE ctx == IF hb = "lost" /\ ~CtxDone(w) THEN "cancelled" ELSE proc[w].ctx
              q == [proc[w] EXCEPT !.hb = hb, !.ctx = ctx]
  <2>1. proc' = [proc EXCEPT ![w] = q]
    BY <1>5 DEF HeartbeatEnds
  <2>. HIDE DEF ctx
  <2>2. q.job = proc[w].job
    BY <1>0 DEF Proc
  <2>. QED
    BY <1>0, <1>1, <2>1, <2>2, GoesOn
<1>6. ASSUME JobTimeout(w) PROVE Effect
  <2>. DEFINE q == [proc[w] EXCEPT !.ctx = "timeout"]
  <2>1. proc' = [proc EXCEPT ![w] = q]
    BY <1>6 DEF JobTimeout
  <2>2. q.job = proc[w].job
    BY <1>0 DEF Proc
  <2>. QED
    BY <1>0, <1>1, <2>1, <2>2, GoesOn
<1>7. ASSUME Read(w) PROVE Effect
  BY <1>2, <1>3, <1>4, <1>7 DEF Read
<1>8. ASSUME \/ Build(w) \/ CallFails(w) \/ ReplaceDocumentChunks(w)
             \/ \E d \in Doc : CreateDocument(w, d)
      PROVE  Effect
  BY <1>2, <1>3, <1>4, <1>8 DEF Build, CallFails, ReplaceDocumentChunks, CreateDocument
<1>9. ASSUME Heartbeat(w) PROVE Effect
  BY <1>5, <1>9 DEF Heartbeat, HeartbeatStops, HeartbeatLosesLease, HeartbeatFails
<1>10. ASSUME Join(w) PROVE Effect
  BY <1>4, <1>10 DEF Join
<1>. QED
  BY <1>6, <1>7, <1>8, <1>9, <1>10 DEF Index

\* process() ends: the worker leaves, and with its name in the row, and only
\* then, it decides what becomes of the job.
LEMMA ConcludeEffect ==
    ASSUME IInv, NEW w \in Worker,
           ReleaseIngestionJob(w) \/ CompleteIngestionJob(w) \/ FailIngestionJob(w) \/ StatusLost(w)
    PROVE  Effect
<1>. DEFINE j == proc[w].job
<1>0. TypeOK /\ proc[w].pc \in {"release", "complete", "report"} /\ Return(w)
  BY DEF IInv, ReleaseIngestionJob, CompleteIngestionJob, FailIngestionJob, StatusLost
<1>1. j \in Job /\ row[j] \in Row /\ (row[j].worker = w => row[j].retries = proc[w].retries)
  BY <1>0, BusyHasJob DEF IInv, Busy, TypeOK
<1>2. HasNow(w, NoJob)
  BY <1>0, OneReturns DEF Return
<1>3. ASSUME UNCHANGED row PROVE Effect
  BY <1>2, <1>3, SameRows DEF Effect, Leaves
<1>. HIDE DEF j
<1>4. ASSUME NEW r, row' = [row EXCEPT ![j] = r], IsMine(w, j), r.worker = NoWorker,
             \/ r.status \in Terminal \cup {"queued"} /\ r.retries = row[j].retries
             \/ r.status = "queued" /\ r.retries = row[j].retries + 1 /\ row[j].retries < MaxRetries
      PROVE  Effect
  <2>1. Moved(j, r.status, r.retries) /\ NamesKept
    BY <1>0, <1>1, <1>4, OneRow
  <2>2. Concludes(w, j, r.status, r.retries)
    BY <1>2, <1>4, <2>1 DEF Concludes, Leaves, IsMine, j
  <2>3. r.status \in Status /\ r.retries \in Nat
    BY <1>1, <1>4, IngestionAssumption DEF Status, Terminal, Row
  <2>. QED
    BY <1>1, <2>2, <2>3 DEF Effect
<1>5. ASSUME NEW s PROVE /\ Freed(j, s).status = s /\ Freed(j, s).worker = NoWorker
                         /\ Freed(j, s).retries = row[j].retries
  BY <1>1 DEF Freed, Row
<1>6. CASE ReleaseIngestionJob(w)
  <2>1. CASE IsMine(w, j)
    <3>1. row' = [row EXCEPT ![j] = Freed(j, "queued")]
      BY <1>6, <2>1 DEF ReleaseIngestionJob, j
    <3>. QED
      BY <1>4, <1>5, <2>1, <3>1
  <2>2. CASE ~IsMine(w, j)
    BY <1>3, <1>6, <2>2 DEF ReleaseIngestionJob, j
  <2>. QED
    BY <2>1, <2>2
<1>7. CASE CompleteIngestionJob(w)
  <2>1. CASE OwnsLease(w, j) /\ Live(proc[w].doc)
    <3>. DEFINE r == [Freed(j, "completed") EXCEPT !.doc = proc[w].doc]
    <3>1. row' = [row EXCEPT ![j] = r]
      BY <1>7, <2>1 DEF CompleteIngestionJob, j
    <3>2. r.status = "completed" /\ r.worker = NoWorker /\ r.retries = row[j].retries
      BY <1>1 DEF Freed, Row
    <3>. HIDE DEF r
    <3>. QED
      BY <1>4, <2>1, <3>1, <3>2 DEF OwnsLease, Terminal
  <2>2. CASE ~(OwnsLease(w, j) /\ Live(proc[w].doc))
    BY <1>3, <1>7, <2>2 DEF CompleteIngestionJob, j
  <2>. QED
    BY <2>1, <2>2
<1>8. CASE FailIngestionJob(w)
  <2>. DEFINE retry == proc[w].result = "transient" /\ RetryLeft(w)
  <2>1. CASE ~OwnsLease(w, j)
    BY <1>3, <1>8, <2>1 DEF FailIngestionJob, j
  <2>2. CASE OwnsLease(w, j) /\ retry
    <3>. DEFINE r == [Freed(j, "queued") EXCEPT !.due = FALSE, !.retries = @ + 1]
    <3>1. row' = [row EXCEPT ![j] = r]
      BY <1>8, <2>2 DEF FailIngestionJob, j
    <3>2. r.status = "queued" /\ r.worker = NoWorker /\ r.retries = row[j].retries + 1
      BY <1>1 DEF Freed, Row
    <3>3. row[j].retries < MaxRetries /\ IsMine(w, j)
      BY <1>1, <2>2 DEF RetryLeft, OwnsLease, IsMine
    <3>. HIDE DEF r
    <3>. QED
      BY <1>4, <3>1, <3>2, <3>3
  <2>3. CASE OwnsLease(w, j) /\ ~retry
    <3>1. row' = [row EXCEPT ![j] = Freed(j, "failed")]
      BY <1>8, <2>3 DEF FailIngestionJob, j
    <3>. QED
      BY <1>4, <1>5, <2>3, <3>1 DEF OwnsLease, Terminal
  <2>. QED
    BY <2>1, <2>2, <2>3
<1>9. CASE StatusLost(w)
  BY <1>3, <1>9 DEF StatusLost
<1>. QED
  BY <1>6, <1>7, <1>8, <1>9

\* Clocks leave the rows as they are to the contract; a crash forgets a job.
LEMMA RestEffect ==
    ASSUME IInv, \/ \E j \in Job : LeaseRunsOut(j) \/ Stall(j) \/ BackoffEnds(j)
                 \/ \E w \in Worker : Shutdown(w) \/ Crash(w)
    PROVE  Effect
<1>0. TypeOK
  BY DEF IInv
<1>1. ASSUME NEW j \in Job, LeaseRunsOut(j) \/ Stall(j) \/ BackoffEnds(j) PROVE Effect
  <2>1. row[j] \in Row
    BY <1>0 DEF TypeOK
  <2>2. PICK r : /\ row' = [row EXCEPT ![j] = r]
                 /\ r.status = row[j].status /\ r.retries = row[j].retries /\ r.worker = row[j].worker
    <3>. DEFINE e == [row[j] EXCEPT !.lease = "expired"]
                b == [row[j] EXCEPT !.due = TRUE]
    <3>1. row' = [row EXCEPT ![j] = e] \/ row' = [row EXCEPT ![j] = b]
      BY <1>1 DEF LeaseRunsOut, Stall, BackoffEnds
    <3>2. /\ e.status = row[j].status /\ e.retries = row[j].retries /\ e.worker = row[j].worker
          /\ b.status = row[j].status /\ b.retries = row[j].retries /\ b.worker = row[j].worker
      BY <2>1 DEF Row
    <3>. HIDE DEF e, b
    <3>. QED
      BY <3>1, <3>2
  <2>3. StatusesKept /\ NamesKept
    BY <1>0, <2>2, OneRow
  <2>4. JobsKept
    BY <1>1, SameJobs DEF LeaseRunsOut, Stall, BackoffEnds
  <2>. QED
    BY <2>3, <2>4 DEF Effect, Idles
<1>2. ASSUME NEW w \in Worker, Shutdown(w) PROVE Effect
  BY <1>2, SameRows, SameJobs DEF Shutdown, Effect, Idles
<1>3. ASSUME NEW w \in Worker, Crash(w) PROVE Effect
  BY <1>0, <1>3, SameRows, OneReturns DEF Crash, Effect, Leaves
<1>. QED
  BY <1>1, <1>2, <1>3

\* Every step of Ingestion has one of the effects.
LEMMA NextEffect ==
    ASSUME IInv, [Next]_vars
    PROVE  Effect
<1>1. CASE Next
  BY <1>1, WebEffect, LoopEffect, IndexEffect, ConcludeEffect, RestEffect DEF Next, Conclude
<1>2. CASE UNCHANGED vars
  BY <1>2, SameRows, SameJobs DEF vars, Effect, Idles
<1>. QED
  BY <1>1, <1>2

-----------------------------------------------------------------------------
(* The contract of the queue.                                              *)

HeldOK ==
    /\ tickets \in [Job -> Nat]
    /\ held \in [Worker -> Nat]
    /\ \A w \in Worker : proc[w].job = NoJob => held[w] = 0
    /\ \A j \in Job : row[j].status = "absent" => row[j].retries = 0
    /\ FencedByName

\* What the contract sees of the rows.
LEMMA SeenMoved ==
    ASSUME NEW j \in Job, NEW status, NEW retries, Moved(j, status, retries)
    PROVE  /\ phaseBar' = [phaseBar EXCEPT ![j] = PhaseOf(status)]
           /\ budgetBar' = [budgetBar EXCEPT ![j] = MaxRetries - retries]
<1>1. \A k \in Job : /\ row'[k].status = IF k = j THEN status ELSE row[k].status
                     /\ row'[k].retries = IF k = j THEN retries ELSE row[k].retries
  BY DEF Moved
<1>2. \A k \in Job : PhaseOf(row'[k].status) = IF k = j THEN PhaseOf(status) ELSE PhaseOf(row[k].status)
  BY <1>1
<1>3. phaseBar' = [phaseBar EXCEPT ![j] = PhaseOf(status)]
  <2>1. phaseBar' = [k \in Job |-> PhaseOf(row'[k].status)]
    BY DEF phaseBar, PhaseOf
  <2>. QED
    BY <1>2, <2>1 DEF phaseBar
<1>4. budgetBar' = [budgetBar EXCEPT ![j] = MaxRetries - retries]
  BY <1>1 DEF budgetBar
<1>. QED
  BY <1>3, <1>4

\* A step that leaves statuses and retries is not seen in the rows.
LEMMA SeenKept ==
    ASSUME StatusesKept
    PROVE  UNCHANGED <<phaseBar, budgetBar>>
<1>1. \A k \in Job : PhaseOf(row'[k].status) = PhaseOf(row[k].status)
  BY DEF StatusesKept
<1>2. phaseBar' = [k \in Job |-> PhaseOf(row'[k].status)]
  BY DEF phaseBar, PhaseOf
<1>. QED
  BY <1>1, <1>2 DEF StatusesKept, phaseBar, budgetBar

\* A step that is no claim, and what the contract sees of the workers.
Unclaimed ==
    /\ \A j \in Job : row'[j].status = "processing" => row[j].status = "processing"
    /\ \A j \in Job : row'[j].status = "absent" =>
          row[j].status = "absent" /\ row'[j].retries = row[j].retries
    /\ NamesKept

\* A step that claims nothing gives out no ticket, and workers keep theirs or
\* lose them with the job.
LEMMA SeenUnclaimed ==
    ASSUME HeldOK, Recorded, Unclaimed,
           \A w \in Worker : proc'[w].job \in {proc[w].job, NoJob}
    PROVE  /\ HeldOK' /\ UNCHANGED tickets
           /\ JobsKept => UNCHANGED holdsBar
           /\ \A w \in Worker : HasNow(w, NoJob) =>
                 holdsBar' = [holdsBar EXCEPT ![w] = Contract!NoTicket]
<1>1. tickets' = tickets
  BY DEF HeldOK, Recorded, Unclaimed
<1>2. held' = [w \in Worker |-> IF proc'[w].job = NoJob THEN 0 ELSE held[w]]
  BY DEF HeldOK, Recorded
<1>3. HeldOK'
  <2>1. held' \in [Worker -> Nat] /\ \A w \in Worker : proc'[w].job = NoJob => held'[w] = 0
    BY <1>2 DEF HeldOK
  <2>2. \A j \in Job : row'[j].status = "absent" => row'[j].retries = 0
    BY DEF HeldOK, Unclaimed
  <2>3. ASSUME NEW w \in Worker, NEW j \in Job, row'[j].worker = w, proc'[w].job = j
        PROVE  held'[w] = tickets'[j]
    <3>1. j # NoJob
      BY IngestionAssumption
    <3>2. row[j].worker = w /\ proc[w].job = j
      BY <2>3, <3>1 DEF Unclaimed, NamesKept
    <3>. QED
      BY <1>1, <1>2, <2>3, <3>1, <3>2 DEF HeldOK, FencedByName
  <2>. QED
    BY <1>1, <2>1, <2>2, <2>3 DEF HeldOK, FencedByName
<1>4. holdsBar' = [w \in Worker |-> [job |-> proc'[w].job, ticket |-> held'[w]]]
  BY DEF holdsBar
<1>5. ASSUME JobsKept PROVE UNCHANGED holdsBar
  BY <1>2, <1>4, <1>5 DEF JobsKept, holdsBar, HeldOK
<1>6. ASSUME NEW w \in Worker, HasNow(w, NoJob)
      PROVE  holdsBar' = [holdsBar EXCEPT ![w] = Contract!NoTicket]
  <2>1. ASSUME NEW v \in Worker
        PROVE  [job |-> proc'[v].job, ticket |-> held'[v]]
                  = IF v = w THEN Contract!NoTicket ELSE holdsBar[v]
    BY <1>2, <1>6 DEF HasNow, holdsBar, HeldOK, Contract!NoTicket
  <2>. QED
    BY <1>4, <2>1 DEF holdsBar
<1>. QED
  BY <1>1, <1>3, <1>5, <1>6

\* A claim gives out a new ticket, which its worker holds if it hears of it.
LEMMA SeenClaim ==
    ASSUME TypeOK, HeldOK, Recorded, NEW w \in Worker, NEW j \in Job, Claims(w, j),
           HasNow(w, j) \/ JobsKept
    PROVE  /\ HeldOK'
           /\ tickets' = [tickets EXCEPT ![j] = @ + 1]
           /\ HasNow(w, j) => holdsBar' = [holdsBar EXCEPT ![w] = [job |-> j, ticket |-> tickets[j] + 1]]
           /\ JobsKept => UNCHANGED holdsBar
           /\ holdsBar[w] = Contract!NoTicket
<1>0. j # NoJob /\ tickets[j] \in Nat
  BY IngestionAssumption DEF HeldOK
<1>1. tickets' = [tickets EXCEPT ![j] = @ + 1]
  <2>1. \A k \in Job : (IF row[k].status # "processing" /\ row'[k].status = "processing"
                        THEN tickets[k] + 1 ELSE tickets[k])
                       = IF k = j THEN tickets[j] + 1 ELSE tickets[k]
    BY DEF Claims, Moved
  <2>. QED
    BY <2>1 DEF Recorded, HeldOK
<1>2. tickets' \in [Job -> Nat]
  BY <1>0, <1>1 DEF HeldOK
<1>3. ASSUME NEW v \in Worker
      PROVE  /\ held'[v] = IF proc'[v].job = NoJob THEN 0
                           ELSE IF proc[v].job = NoJob THEN tickets'[proc'[v].job] ELSE held[v]
             /\ v # w => proc'[v].job = proc[v].job
  BY DEF Recorded, HasNow, JobsKept
<1>4. ASSUME NEW v \in Worker, proc'[v].job = proc[v].job PROVE held'[v] = held[v]
  BY <1>3, <1>4 DEF HeldOK
<1>5. ASSUME HasNow(w, j) PROVE proc'[w].job = j /\ held'[w] = tickets[j] + 1
  <2>1. proc'[w].job = j /\ proc[w].job = NoJob
    BY <1>5 DEF HasNow, Claims
  <2>2. held'[w] = tickets'[j]
    BY <1>0, <1>3, <2>1
  <2>. QED
    BY <1>0, <1>1, <2>1, <2>2 DEF HeldOK
<1>6. HeldOK'
  <2>1. held' \in [Worker -> Nat]
    <3>1. ASSUME NEW v \in Worker PROVE held'[v] \in Nat
      <4>1. CASE HasNow(w, j) /\ v = w
        BY <1>0, <1>5, <4>1
      <4>2. CASE ~(HasNow(w, j) /\ v = w)
        BY <1>4, <4>2 DEF HasNow, JobsKept, HeldOK
      <4>. QED
        BY <4>1, <4>2
    <3>2. held' = [v \in Worker |-> held'[v]]
      BY DEF Recorded
    <3>. QED
      BY <3>1, <3>2
  <2>2. \A v \in Worker : proc'[v].job = NoJob => held'[v] = 0
    BY <1>3
  <2>3. \A k \in Job : row'[k].status = "absent" => row'[k].retries = 0
    BY DEF Claims, Moved, HeldOK
  <2>4. ASSUME NEW v \in Worker, NEW k \in Job, row'[k].worker = v, proc'[v].job = k
        PROVE  held'[v] = tickets'[k]
    <3>1. k # NoJob
      BY IngestionAssumption
    <3>2. CASE k = j
      <4>1. v = w
        BY <2>4, <3>2 DEF Claims, Named
      <4>2. HasNow(w, j)
        BY <2>4, <3>1, <4>1 DEF Claims, JobsKept
      <4>. QED
        BY <1>1, <1>5, <3>2, <4>1, <4>2 DEF HeldOK
    <3>3. CASE k # j
      <4>1. row[k].worker = v
        BY <2>4, <3>3 DEF Claims, Named
      <4>2. proc'[v].job = proc[v].job
        BY <1>5, <1>3, <2>4, <3>3 DEF JobsKept
      <4>3. held'[v] = held[v] /\ held[v] = tickets[k]
        BY <1>4, <2>4, <4>1, <4>2 DEF HeldOK, FencedByName
      <4>. QED
        BY <1>1, <3>3, <4>3 DEF HeldOK
    <3>. QED
      BY <3>2, <3>3
  <2>. QED
    BY <1>2, <2>1, <2>2, <2>3, <2>4 DEF HeldOK, FencedByName
<1>7. holdsBar' = [v \in Worker |-> [job |-> proc'[v].job, ticket |-> held'[v]]]
  BY DEF holdsBar
<1>8. ASSUME HasNow(w, j)
      PROVE  holdsBar' = [holdsBar EXCEPT ![w] = [job |-> j, ticket |-> tickets[j] + 1]]
  <2>1. ASSUME NEW v \in Worker
        PROVE  [job |-> proc'[v].job, ticket |-> held'[v]]
                  = IF v = w THEN [job |-> j, ticket |-> tickets[j] + 1] ELSE holdsBar[v]
    <3>1. CASE v = w
      BY <1>5, <1>8, <3>1
    <3>2. CASE v # w
      BY <1>3, <1>4, <3>2 DEF holdsBar
    <3>. QED
      BY <3>1, <3>2
  <2>. QED
    BY <1>7, <2>1 DEF holdsBar
<1>9. ASSUME JobsKept PROVE UNCHANGED holdsBar
  <2>1. ASSUME NEW v \in Worker PROVE proc'[v].job = proc[v].job /\ held'[v] = held[v]
    BY <1>4, <1>9 DEF JobsKept
  <2>. QED
    BY <1>7, <2>1 DEF holdsBar
<1>10. holdsBar[w] = Contract!NoTicket
  BY DEF holdsBar, HeldOK, Claims, Contract!NoTicket
<1>. QED
  BY <1>1, <1>6, <1>8, <1>9, <1>10

\* Every effect is a step of the contract, or the contract does not see it.
LEMMA EffectKept ==
    ASSUME IInv, HeldOK, Effect, Recorded
    PROVE  HeldOK' /\ (Contract!ContractNext \/ UNCHANGED Contract!contractVars)
<1>0. TypeOK /\ MaxRetries \in Nat /\ \A j \in Job : row[j] \in Row /\ row[j].retries \in Nat
  BY IngestionAssumption DEF IInv, TypeOK, Row
<1>1. CASE Idles
  <2>1. Unclaimed /\ \A w \in Worker : proc'[w].job \in {proc[w].job, NoJob}
    BY <1>1 DEF Idles, StatusesKept, Unclaimed, JobsKept
  <2>. QED
    BY <1>1, <2>1, SeenUnclaimed, SeenKept DEF Idles, Contract!contractVars
<1>2. ASSUME NEW j \in Job, Submits(j)
      PROVE  HeldOK' /\ (Contract!ContractNext \/ UNCHANGED Contract!contractVars)
  <2>1. Unclaimed /\ \A w \in Worker : proc'[w].job \in {proc[w].job, NoJob}
    BY <1>2 DEF Submits, Moved, Unclaimed, JobsKept
  <2>2. HeldOK' /\ UNCHANGED <<tickets, holdsBar>>
    BY <1>2, <2>1, SeenUnclaimed DEF Submits
  <2>3. /\ phaseBar' = [phaseBar EXCEPT ![j] = PhaseOf("queued")]
        /\ budgetBar' = [budgetBar EXCEPT ![j] = MaxRetries - 0]
    BY <1>2, SeenMoved DEF Submits
  <2>4. PhaseOf("queued") = "waiting" /\ PhaseOf("absent") = "absent"
    BY DEF PhaseOf
  <2>5. phaseBar[j] = "absent" /\ row[j].retries = 0
    BY <1>2, <2>4 DEF Submits, phaseBar, HeldOK
  <2>6. UNCHANGED budgetBar
    BY <2>3, <2>5 DEF budgetBar
  <2>7. Contract!Accept(j)
    BY <2>2, <2>3, <2>4, <2>5, <2>6 DEF Contract!Accept
  <2>. QED
    BY <2>2, <2>7 DEF Contract!ContractNext
<1>3. ASSUME NEW w \in Worker, NEW j \in Job, Claims(w, j), HasNow(w, j) \/ JobsKept
      PROVE  HeldOK' /\ (Contract!ContractNext \/ UNCHANGED Contract!contractVars)
  <2>1. /\ HeldOK'
        /\ tickets' = [tickets EXCEPT ![j] = @ + 1]
        /\ HasNow(w, j) => holdsBar' = [holdsBar EXCEPT ![w] = [job |-> j, ticket |-> tickets[j] + 1]]
        /\ JobsKept => UNCHANGED holdsBar
        /\ holdsBar[w] = Contract!NoTicket
    BY <1>0, <1>3, SeenClaim
  <2>2. /\ phaseBar' = [phaseBar EXCEPT ![j] = PhaseOf("processing")]
        /\ budgetBar' = [budgetBar EXCEPT ![j] = MaxRetries - row[j].retries]
    BY <1>3, SeenMoved DEF Claims
  <2>3. PhaseOf("queued") = "waiting" /\ PhaseOf("processing") = "granted"
    BY DEF PhaseOf
  <2>4. phaseBar[j] = "waiting"
    BY <1>3, <2>3 DEF Claims, phaseBar
  <2>5. UNCHANGED budgetBar
    BY <2>2 DEF budgetBar
  <2>6. CASE HasNow(w, j)
    <3>1. Contract!Grant(w, j)
      BY <2>1, <2>2, <2>3, <2>4, <2>5, <2>6 DEF Contract!Grant
    <3>. QED
      BY <2>1, <3>1 DEF Contract!ContractNext
  <2>7. CASE JobsKept
    <3>1. Contract!GrantUnheard(j)
      BY <2>1, <2>2, <2>3, <2>4, <2>5, <2>7 DEF Contract!GrantUnheard
    <3>. QED
      BY <2>1, <3>1 DEF Contract!ContractNext
  <2>. QED
    BY <1>3, <2>6, <2>7
<1>4. ASSUME NEW jobs \in SUBSET Job, Recovers(jobs)
      PROVE  HeldOK' /\ (Contract!ContractNext \/ UNCHANGED Contract!contractVars)
  <2>1. Unclaimed /\ \A w \in Worker : proc'[w].job \in {proc[w].job, NoJob}
    BY <1>4 DEF Recovers, Unclaimed, JobsKept
  <2>2. HeldOK' /\ UNCHANGED <<tickets, holdsBar>>
    BY <1>4, <2>1, SeenUnclaimed DEF Recovers
  <2>3. PhaseOf("queued") = "waiting" /\ PhaseOf("processing") = "granted"
    BY DEF PhaseOf
  <2>4. \A j \in jobs : phaseBar[j] = "granted"
    BY <1>4, <2>3 DEF Recovers, phaseBar
  <2>5. phaseBar' = [k \in Job |-> IF k \in jobs THEN "waiting" ELSE phaseBar[k]]
    <3>1. phaseBar' = [k \in Job |-> PhaseOf(row'[k].status)]
      BY DEF phaseBar, PhaseOf
    <3>2. \A k \in Job : PhaseOf(row'[k].status)
                         = IF k \in jobs THEN "waiting" ELSE phaseBar[k]
      BY <1>4, <2>3 DEF Recovers, phaseBar
    <3>. QED
      BY <3>1, <3>2
  <2>6. UNCHANGED budgetBar
    BY <1>4 DEF Recovers, budgetBar
  <2>7. Contract!Revoke(jobs)
    BY <2>2, <2>4, <2>5, <2>6 DEF Contract!Revoke
  <2>. QED
    BY <2>2, <2>7 DEF Contract!ContractNext
<1>5. ASSUME NEW w \in Worker, StatusesKept, Leaves(w)
      PROVE  HeldOK' /\ (Contract!ContractNext \/ UNCHANGED Contract!contractVars)
  <2>1. Unclaimed /\ \A v \in Worker : proc'[v].job \in {proc[v].job, NoJob}
    BY <1>5 DEF Leaves, StatusesKept, Unclaimed, HasNow
  <2>2. /\ HeldOK' /\ UNCHANGED tickets
        /\ holdsBar' = [holdsBar EXCEPT ![w] = Contract!NoTicket]
    BY <1>5, <2>1, SeenUnclaimed DEF Leaves
  <2>3. Contract!Forget(w)
    BY <1>5, <2>2, SeenKept DEF Contract!Forget
  <2>. QED
    BY <2>2, <2>3 DEF Contract!ContractNext
<1>6. ASSUME NEW w \in Worker, NEW j \in Job, NEW status \in Status, NEW retries \in Nat,
             Concludes(w, j, status, retries)
      PROVE  HeldOK' /\ (Contract!ContractNext \/ UNCHANGED Contract!contractVars)
  <2>1. Unclaimed /\ \A v \in Worker : proc'[v].job \in {proc[v].job, NoJob}
    BY <1>6 DEF Concludes, Leaves, Moved, Unclaimed, HasNow, Terminal
  <2>2. /\ HeldOK' /\ UNCHANGED tickets
        /\ holdsBar' = [holdsBar EXCEPT ![w] = Contract!NoTicket]
    BY <1>6, <2>1, SeenUnclaimed DEF Concludes, Leaves
  <2>3. /\ phaseBar' = [phaseBar EXCEPT ![j] = PhaseOf(status)]
        /\ budgetBar' = [budgetBar EXCEPT ![j] = MaxRetries - retries]
    BY <1>6, SeenMoved DEF Concludes
  <2>4. /\ PhaseOf("queued") = "waiting" /\ PhaseOf("processing") = "granted"
        /\ PhaseOf("completed") = "completed" /\ PhaseOf("failed") = "failed"
    BY DEF PhaseOf
  <2>5. Contract!Current(w, j)
    <3>1. held[w] = tickets[j] /\ proc[w].job = j
      BY <1>6 DEF Concludes, HeldOK, FencedByName
    <3>2. phaseBar[j] = "granted"
      BY <1>6, <2>4 DEF Concludes, phaseBar
    <3>. QED
      BY <3>1, <3>2 DEF Contract!Current, holdsBar
  <2>6. CASE retries = row[j].retries
    <3>1. UNCHANGED budgetBar
      BY <2>3, <2>6 DEF budgetBar
    <3>2. CASE status \in Terminal
      <4>1. PhaseOf(status) = status /\ status \in Contract!Terminal
        BY <2>4, <3>2 DEF Terminal, Contract!Terminal
      <4>2. Contract!Settle(w, j)
        BY <2>2, <2>3, <2>5, <3>1, <4>1 DEF Contract!Settle
      <4>. QED
        BY <2>2, <4>2 DEF Contract!ContractNext
    <3>3. CASE status = "queued"
      <4>1. Contract!GiveBack(w, j)
        BY <2>2, <2>3, <2>4, <2>5, <3>1, <3>3 DEF Contract!GiveBack
      <4>. QED
        BY <2>2, <4>1 DEF Contract!ContractNext
    <3>. QED
      BY <1>6, <3>2, <3>3 DEF Concludes
  <2>7. CASE status = "queued" /\ retries = row[j].retries + 1 /\ row[j].retries < MaxRetries
    <3>1. budgetBar[j] = MaxRetries - row[j].retries
      BY DEF budgetBar
    <3>2. budgetBar[j] > 0 /\ MaxRetries - retries = budgetBar[j] - 1
      BY <1>0, <2>7, <3>1
    <3>3. Contract!Retry(w, j)
      BY <2>2, <2>3, <2>4, <2>5, <2>7, <3>2 DEF Contract!Retry
    <3>. QED
      BY <2>2, <3>3 DEF Contract!ContractNext
  <2>. QED
    BY <1>6, <2>6, <2>7 DEF Concludes
<1>. QED
  BY <1>1, <1>2, <1>3, <1>4, <1>5, <1>6 DEF Effect

\* At first no ticket is out.
LEMMA TicketsStart ==
    ASSUME TicketInit
    PROVE  HeldOK /\ Contract!ContractInit
<1>1. Init /\ tickets = [j \in Job |-> 0] /\ held = [w \in Worker |-> 0]
  BY DEF TicketInit
<1>2. \A j \in Job : /\ row[j].status = "absent" /\ row[j].retries = 0 /\ row[j].worker = NoWorker
  BY <1>1 DEF Init, Absent
<1>3. \A w \in Worker : proc[w].job = NoJob
  BY <1>1 DEF Init, At
<1>4. HeldOK
  BY <1>1, <1>2, <1>3, IngestionAssumption DEF HeldOK, FencedByName
<1>5. PhaseOf("absent") = "absent" /\ MaxRetries - 0 = MaxRetries
  BY IngestionAssumption DEF PhaseOf
<1>. QED
  BY <1>1, <1>2, <1>3, <1>4, <1>5
     DEF Contract!ContractInit, Contract!NoTicket, phaseBar, budgetBar, holdsBar

\* A step of Ingestion is a step of the contract or a stutter.
LEMMA TicketStep ==
    ASSUME IInv, HeldOK, [Next /\ Recorded]_ticketVars
    PROVE  HeldOK' /\ [Contract!ContractNext]_(Contract!contractVars)
<1>1. CASE Next /\ Recorded
  <2>1. Effect
    BY <1>1, NextEffect
  <2>. QED
    BY <1>1, <2>1, EffectKept
<1>2. CASE UNCHANGED ticketVars
  <2>1. UNCHANGED <<row, proc, tickets, held>>
    BY <1>2 DEF ticketVars, vars
  <2>2. HeldOK'
    BY <2>1 DEF HeldOK, FencedByName
  <2>3. StatusesKept
    BY <2>1 DEF StatusesKept
  <2>4. UNCHANGED <<phaseBar, budgetBar>>
    BY <2>3, SeenKept
  <2>5. UNCHANGED holdsBar
    BY <2>1 DEF holdsBar
  <2>. QED
    BY <2>1, <2>2, <2>4, <2>5 DEF Contract!contractVars
<1>. QED
  BY <1>1, <1>2

\* The history variables add nothing to the behaviours of Ingestion.
LEMMA TicketsObserve == TicketSpec => Spec
<1>1. TicketInit => Init
  BY DEF TicketInit
<1>2. [Next /\ Recorded]_ticketVars => [Next]_vars
  BY DEF ticketVars
<1>. QED
  BY <1>1, <1>2, PTL DEF TicketSpec, Spec

\* A worker that a row names works on the newest claim of its job.
THEOREM NamesFence == TicketSpec => []FencedByName
<1>1. HeldOK => FencedByName
  BY DEF HeldOK
<1>. QED
  BY <1>1, TicketsObserve, Invariant, TicketsStart, TicketStep, PTL DEF TicketSpec

\* Handlers, goroutines, heartbeats, shutdowns and crashes together keep the
\* contract of the queue, although the statements compare the name of a worker
\* and not the number of its claim.
THEOREM Implementation == TicketSpec => ImplementsContract
BY TicketsObserve, Invariant, TicketsStart, TicketStep, PTL
   DEF TicketSpec, ImplementsContract, Contract!ContractSpec
=============================================================================
