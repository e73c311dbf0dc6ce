# MiniRAG in TLA+

Models, checks and proofs of MiniRAG (the Go service under `src/`): a RAG
server whose documents are indexed by workers that take their jobs from a
table of PostgreSQL.  Line numbers are those of `src/`.

## 1. Inventory

| Part | State | Operations | Talks to |
|---|---|---|---|
| Durable queue (`internal/store/store.go:266-455`) | rows of `ingestion_jobs`: status, worker_id, lease_until, next_attempt_at, attempts, retry_count, payload, document_id | insert, claim (one transaction), renew, complete, fail/retry, release, recover | called by handlers and workers; the database's clock decides leases |
| Ingestion worker (`internal/rag/worker.go`) | context, running job, heartbeat goroutine | Start, loop, process, index, heartbeat, release | queue, indexing service |
| HTTP handlers (`internal/web/server.go`) | none between requests; a reindex is three statements | upload, delete, reindex, job, query, stream, readiness | queue, documents, service |
| Indexing service (`internal/rag/service.go:78-228`) | none; a read, an embedding call, a write | IndexDocument, ReindexDocument, ReindexStoredChunks | chunker, embedder, documents |
| Document store (`store.go:102-264`) | `documents` (UNIQUE checksum), `chunks` (cascade), foreign key of jobs (set null) | find by checksum, create, replace chunks, list, delete | |
| Chunker (`internal/rag/chunker.go`) | pure | parse Markdown/plain, ChunkBlocks, chunkText | |
| Retrieval (`service.go:320-548`, `store.go:457-640`) | none; two searches, each of what the database holds by then | prepareQuery, fuseRRF, rerank, selectDiverse, context budget | embedder, reranker, chunks |
| Streaming (`service.go:259-318`, `web/server.go:289-343`, `provider/bailian.go`) | tokens sent so far, the request's context, the connection | Stream, SSE events | chat service, browser |
| Server lifecycle (`cmd/minirag/main.go`, `server.go`, `worker.go:83-118`) | signal context, listener, open requests, running flag and done channel, connection pool | start, shutdown, exit | worker, HTTP |
| Evaluation baseline (`internal/evaluation/evaluation.go:228-477`, `cmd/minirag/eval.go`) | a JSON file of the best report per mode | load, validate, compare, merge, save | |
| Providers (`internal/provider`) | none | Embed, Complete, Stream, Rerank, health checks | Ollama, Bailian |
| Evaluation metrics and judge (`evaluation.go`) | none | run cases, score hits and answers | providers, store |
| Configuration, observability, web page, scripts | | | |

What is hard here:

* **Interleaving.** Any number of workers share a table.  The claim is one
  transaction of several round trips; everything else is one statement, and
  between two statements of a worker or a handler anything may happen.
* **Leases.** A worker that stalls loses its lease to recovery, and its late
  statements are told from those of the new worker by name only.
* **Failure.** Crash, SIGTERM, job timeout, a statement whose reply is lost:
  each at every point of a job, with the heartbeat running beside it.
* **Idempotence.** Jobs run at least once; a document must be created once.
* **Deletions and reindexing** copy and clear references between two tables.
* **Two snapshots in one question.** The vector and the lexical search are two
  statements; a reindex in between changes the identifiers of the same texts.
* **Streams.** The model may be silent for ever, the client may leave, and a
  write that failed is noticed one event later.
* **Stopping.** A signal, a second one, a listener that fails, open requests
  and a running job, each at any moment; the exit code must tell the truth.
* **The line automaton** of fences and headings, which nest and end in the
  middle of a file.
* **Long sequences**: the baseline file is a fold over every past run, and may
  be damaged by one that was killed.
* **Boundaries** in the chunk window arithmetic.

What makes each part correct: a claim is exclusive and stable until it
commits, an old attempt cannot touch a row, a live lease protects its job, the
retry budget is exact (queue); a cancelled call is not a failure, an orderly
shutdown keeps no job, every accepted job ends (worker); one document per
content, no text under a foreign document (documents and reindex); no readable
rune is lost and the loop ends (chunker); the baseline is the best of all runs,
the gate reports exactly what is worse and a damaged file is refused
(baseline); every line stands in one block, under its headings (parser); fusion
is what the store's own hybrid search does, sources do not repeat, are not left
out without a reason and have the numbers of the prompt (retrieval); *done* only
after a whole answer, one conclusion for each client, no model stream without a
client (streaming); exit code 0 means clean, no job is left behind and a stop
ends (lifecycle).  `PROJECT.json` lists
the hazards at their lines with the property that watches each.

## 2. Modules

| Module | Models | Checked by |
|---|---|---|
| `QueueContract` | abstract: a job is granted to one worker at a time with a new ticket; only the newest ticket decides | refinements from `JobQueue` and `Ingestion` |
| `JobQueue` | the statements of the queue with the database's clock and open claim transactions | `MCJobQueue`, `JobQueueProofs` |
| `Ingestion` | handlers, workers with both goroutines, documents, crash and shutdown, composed over the same rows | `MCIngestion`, `IngestionProofs` |
| `IngestionTickets` | `Ingestion` with its claims counted in history variables, and its map to `QueueContract` | `IngestionProofs` |
| `DocumentStore` | the tables `documents` and `chunks` under concurrent transactions, statement by statement | `MCDocumentStore`, `DocumentStoreProofs` |
| `Chunker` | `chunkText`, `findBoundary` | `MCChunker`, `ChunkerProofs` |
| `MarkdownBlocks` | the parsers of Markdown and plain text, `ChunkBlocks` | `MCMarkdownBlocks`, `MarkdownBlocksProofs` |
| `Retrieval` | a question from its embedding to its prompt and citations | `MCRetrieval`, `AnswerProofs` |
| `ChatStream` | a streamed answer between the model's event stream and the client's | `MCChatStream`, `AnswerProofs` |
| `ServerLifecycle` | the process from its start to its exit code | `MCServerLifecycle`, `ServerLifecycleProofs` |
| `Baseline` | `eval --baseline`, with `--update-baseline` and `--fail-on-regression` | `MCBaseline`, `BaselineProofs` |

A definition marked "faulty variant" belongs to no specification: it is what a
plausible bug would make of the definition after it, and the properties are
known to be violated with it.  Every module states one `TypeOK`; the runs of
`JobQueue`, `Ingestion` and `DocumentStore` check it, and it is proved for
these, `Baseline`, `Chunker`, `ServerLifecycle` and `Retrieval` (there
`RetrievalTypeOK`); the invariants of `ChatStream` and `MarkdownBlocks` begin with
types without bounds.  The modules meet where the code does: `Ingestion` composes the
queue's rows with documents and handlers, `DocumentStore` opens up its document
steps, `MarkdownBlocks` takes what `Chunker` does as a free number of pieces,
`Retrieval` takes its chunks as `DocumentStore` shows them to a reader,
`ChatStream` begins where `Retrieval` ends, and the worker and the requests of
`ServerLifecycle` are those of `Ingestion` and `ChatStream`, reduced to whether
they are busy.

### JobQueue

`row[j]` is the row, `now` the clock of the database, `claim[w]` the claim
transaction `w` has open (when it began, which row it locked), `run[w]` the
copy of the row `process()` works on.  In PostgreSQL `now()` is the beginning
of the transaction, so `ClaimBegin` fixes the time that `ClaimSelect` compares
and `ClaimCommit` writes; other transactions see the row unchanged until the
commit but skip it, because it is locked.  `ClaimCommit(w, FALSE)` is a commit
whose reply never arrives.  All other statements touch a row once and are
atomic: under READ COMMITTED an `UPDATE` that waited for a lock evaluates its
`WHERE` clause again.  `AbandonRun` is a crash, a failed final statement or one
that matched no row.  Worker names are never reused, as `newID` makes them;
a restarted process is another member of `Worker`.

The refinement maps `attempts` to tickets.  The code has no ticket in its
`WHERE` clauses, only `worker_id`; that a name is enough holds because a
worker claims nothing while it runs a job, which `ClaimerIsIdle` states.

### Ingestion

Time is reduced to what the `WHERE` clauses read (`lease` live or expired,
`due`), so that the rest can be there: `proc[w]` is the position of the
processing goroutine (`read`, `build`, `write` inside `index()`; `join` while
it waits for the heartbeat; then one of `release`, `complete`, `report`), its
context (`ctx`) and the state of the heartbeat goroutine (`hb`); `web[h]` is a
reindex request between `GetDocumentSource`, `FindActiveReindexJob` and the
`INSERT`; `docs[d]` is the content of a document.  Parsing, chunking and
embedding are one step with a free outcome.  `finished` is the order of the
completed jobs by `updated_at`, which `GetDocumentSource` sorts by.  `faults`
counts database errors, lost replies and stalls; it bounds them.

`IngestionTickets` is not code: it counts the claims of each job, and notes which
of them each worker works on, in two history variables no action reads, so that
`Ingestion` can be compared with `QueueContract`.  Neither a row of `Ingestion` nor
a statement has such a number.

### DocumentStore

`Ingestion` takes `CreateDocument`, `ReplaceDocumentChunks` and
`DeleteDocument` as one step each; this module shows what they are made of.
`chunks` holds row versions: `ins` and `del` name the open transactions that
inserted and deleted a row, so that `Committed(d)` is what any other statement
reads.  `client[c]` is a transaction between two statements; `WaitsFor(c)` is
the set of transactions that its next statement is blocked by, from the two
unique indexes, the row locks of the two `DELETE`s and the `FOR KEY SHARE` lock
of the foreign key.  A `DELETE` is two steps, since its snapshot is older than
the rows it finds after waiting.  `Deadlock` ends one of two transactions that
wait for each other; that two are enough, and no longer cycle occurs, is part
of what `EveryTransactionEnds` checks with three clients.  `Interrupt` is a job
timeout, a shutdown or a broken connection at any point.  A client begins any
operation after any other, which includes every retry.  Two reindex jobs of one
document at once are possible: the handler's check and its `INSERT` are two
statements, and a worker whose lease ran out may still write.

### Chunker

Runes are positions; of a rune it matters whether it ends a sentence and
whether `TrimSpace` removes it.  One step is one iteration of the loop.  The
constant `ScanDivisor` is the 100 of `findBoundary`; the run uses 4: on
texts this short the quotient would always be 0, and with 4 it is 1 on the
longer ones, less than an overlap of two runes.  A scan that did not stop at
half a chunk could then cut at the same sentence twice, which is the case
`ChunksAdvance` is about.

### Baseline

A report has one metric per combination of flags in `benchmarkMetrics`
(`lowerIsBetter`, `zeroIsValid`); the code treats metrics with equal flags
alike and independently.  `record` is a history variable: the best each metric
ever had in the runs merged since the file was created, per settings.
`outcome.worse` is computed from it, `outcome.regressions` from the file, as
the code does.

`SaveBaseline` writes in place: `KilledWhileSaving` leaves a file that does not
decode, which every later command refuses; only `RemoveBaseline`, by hand, ends
that.

### MarkdownBlocks

A line is what `markdownFence`, `markdownHeading` and `TrimSpace` make of it.
`fence`, `path`, `current` and `blocks` are the variables of
`ParseMarkdownBlocks`; `IsBlank`, `IsHeading`, `Opens`, `InFence` and `IsText` are
the branches of its loop, `LastBlock` what follows the loop.  In `InFence` the
code tests the prefix of a line only: a marker followed by anything closes the
fence.  `ChunkGroup` is one iteration of `ChunkBlocks`.  Three consequences of
the code are visible in the model and no property objects to them: sections
with equal heading paths that follow each other are one group, a heading
without text beneath leaves no trace but in paths, and the heading context that
is written before a chunk comes on top of `CHUNK_SIZE`.

### Retrieval

`stage` follows `prepareQuery`: `Embed`, `VectorSearch`, `LexicalSearch` with
`fuseRRF`, then `SelectFused`, `Rerank` or `RerankFails`, with
`PrepareGenerationContext` in the same step, since nothing is read after the
searches.  Chunks have identifiers that change with each generation of a
document, in an order the code does not control, so three generations are
tried: below, equal to and above the old one.  Reciprocal ranks are integers over
a common denominator, the constant `CommonMultiple`, which makes ties exact; that
it is one is assumed of it, and TLC evaluates that.  `Change` happens between the
two searches only; a change before them is another initial state.  `read` and
`ranking` are history variables.  The reranker returns one result per text, as
the client checks, with any valid index; it may name a candidate twice.

Seen on the way: `RERANK_MAX_PER_DOC` above 2 has no effect on an answer, for
`prepareQuery` cites at most two chunks of a document; both generations of a
document compete for its quota; with no candidates a reranker always "fails",
and the answer has `rerank_fallback`.

### ChatStream

`wire` holds the lines of the model that `BailianChat.Stream` has not read, `pc`
the position of the handler from the request to its return.  A write to a
client that left may vanish or break the connection; `WriteSucceeds` and
`WriteFails` share the case in which the event is lost, because `Flush` reports no
error: an event that still fits the buffer is taken for sent.  `late` is the
`WriteTimeout` of 120 seconds, after which no event arrives.  `NoticeDisconnect`
is the background read of the HTTP server.

### ServerLifecycle

`main` follows `main` and `httpServer`, `worker` the goroutine of the loop,
`listener` and `errCh` the goroutine of `ListenAndServe`.  The deferred function of
the loop is two steps, `LeaveLoop` and `CloseDone`, because it first clears
`running` and then closes `done`.  `Exits` is `os.Exit` or the return of `main`:
everything stops where it is, open requests are cut; after `os.Exit` the
deferred `Close` of the pool does not run.  `Terminate` is SIGINT or SIGTERM, at
any moment, as often as one likes, before `NotifyContext` and after `stop` too;
`HangUp` is SIGHUP, which nobody registers.

## 3. Runs

| Run | Shows | Bounds |
|---|---|---|
| `job_queue` | exclusive, stable claims; fencing by name; exact retry budget; leases protect; refinement of `QueueContract` | 2 jobs, 2 workers, lease 1, one delay of 1, clock from 0 to 4, 2 claims per job |
| `ingestion` | one document per content, never another's text; cancelled calls are not failures; shutdown releases | 3 jobs, 2 contents, 2 documents, 2 workers (one mortal), one reindex request at a time, 1 deletion |
| `source` | finding (violation) | 2 jobs, 1 document |
| `live` | every accepted job ends, every shutdown ends | 1 job, 2 workers (one mortal), 1 retry, 1 fault, 1 deletion |
| `document_store` | readers see whole documents; only a deletion makes a job fail for good; every transaction ends | 3 clients, 4 transactions, 2 document ids of one file, up to 2 chunks |
| `chunker` | nothing lost, sizes, order, progress | all texts to 6 runes, sizes 1 to 5, overlaps -1 to 5 |
| `markdown_blocks` | each line in one block, under its headings; chunks follow the blocks | all files to 5 lines of 9 kinds, both formats, 1 or 2 pieces per group |
| `retrieval` | fusion equals the store's hybrid search; citations differ, have the numbers of the prompt, and miss nothing without a reason | 3 texts in 2 documents, one text in both, scores 0 and 1, `top_k` 2 and 3, 2 candidates, 2 per document, room for 2 in the prompt, with and without reranker, 1 change |
| `chat_stream` | done only after a whole answer; each client learns the end; a client that leaves stops the model | 3 deltas, 3 lines in flight |
| `server_lifecycle` | exit 0 is clean; jobs are released; a stop ends | 3 requests |
| `baseline` | best scores kept; the gate is exact; damage is reported | 2 modes, 2 settings, scores and latencies 0 to 2, tolerance 50% |
| `latency` | finding (violation) | as `baseline` |

Why these suffice to show the interesting cases.  With two workers a job can
be stalled, recovered, claimed by the other and then hit by the late statement
of the first, and the clock allows a lease to end twice.  The statements look
at one row at a time except for the order of the claim, for which two jobs are
enough.  In `ingestion` two jobs of one file can both pass the checksum test
before either writes, a worker can die or lose its lease with the document
created but the job not completed, and the third job is the reindex request whose
source changes under it.  In `document_store` four transactions are a
creation and any three that overlap afterwards, for instance two replacements
and a deletion; with two chunks a transaction can be caught between them and
sets of different size can meet.  In `markdown_blocks` five lines hold a heading, a fence with a line in
it, its end and what follows; the headings have two titles at level 1 and skip
from 1 to 3.  In `retrieval` three hits are enough for a repetition, a third
of one document and one that does not fit, in each order, and two scores for
ties and none.  In `chat_stream` three deltas are a beginning, a middle and an
end, and the window lets the model be ahead of the handler by as much as it
sends.  Requests do not act on each other: with three, each may be in another
state.  In `baseline` the tolerance of 50% separates
"worse" from "worse beyond the tolerance" with three values.

Symmetry is used over jobs and workers in `job_queue`, over jobs, documents and
contents in `ingestion` and over modes in the two runs of `Baseline`, where only
invariants and action properties are checked; the runs with liveness have none.
Deadlock is checked for `job_queue` and `Baseline` only: all other systems stop
when their work is done or a bound is used up.

**Fairness.** In `live` the goroutines of a worker run (weak fairness of its
steps); every call inside `index()` returns, which the job's timeout ensures;
the clock passes leases and delays; one process stays up, is started and
polls.  Nothing is assumed of the web handlers, of faults, crashes, shutdowns
or of the mortal worker being started.  Faults and deletions are bounded: with
a database that always fails no job can end.  In `document_store` a statement
whose locks are free returns, and PostgreSQL resolves a deadlock; nobody needs
to begin or to interrupt a transaction.  In `chat_stream` the handler takes its own steps, and the
HTTP server notices that a client left; the embedder, the searches and the
model need not answer, for their clients have no timeout: they return when the
context is cancelled.  In `server_lifecycle` `main` and the loop run, whose calls
have deadlines or end with the context; no request need end, no signal need
come and the listener need neither open nor fail.

## 4. Proofs

`JobQueueProofs` proves, for any number of jobs and workers, any lease and any
list of delays, every property of the run `job_queue`.  The argument:

1. `IInv` is `TypeOK`, `ClaimIsStable`, `ClaimerIsIdle`, `FencedByName`,
   `OneRunPerAttempt` and `RetryBudget`.  Only `ClaimerIsIdle` is not itself a
   property: without it a worker that claims a job while it runs an older
   attempt of it would carry a stale copy under its own name, and
   `FencedByName` would not be inductive.
2. `ClaimStableStep`: a locked row is queued, and every other statement needs
   a processing row or an unlocked one.
3. `FencedStep`, `OneRunStep`: `w`'s name enters a row only together with `w`'s
   copy of it, and `attempts` grows with every claim.
4. `RetryBudgetStep`: by fencing, the copy `process()` decides on is the row.
5. `LeaseProtectsStep`, `NoEarlyRunStep`: the two action properties, one case
   per statement.
6. `ContractStep`: with fencing every statement that matches is made with the
   newest ticket, so each step is a step of `QueueContract` or none.

The bounds `MaxTime` and `MaxAttempts` are constants of the module; the proofs
hold for every value of them.

`ChunkerProofs` proves, for texts, sizes and overlaps of any length, that
nothing is lost, that chunks are bounded and advance, and that every iteration
moves on.  The strengthening is `NoWayBack`: the last window ended at a
sentence, or none is left within reach before its end; since the window is cut
at the *last* sentence within reach, a later window cannot end earlier even
when it starts a whole overlap back.  `CoveredTo(end)` is the loop invariant
behind `NothingLost`.

`ServerLifecycleProofs` proves `ZeroMeansClean` and `JobsAreReleased` for any number
of requests.  There are two invariants, each inductive by itself with `TypeOK`:

1. `LoopInv`: a job is owned only by a busy loop (`OwnerIsBusy`), `done` is the
   last thing the loop does (`DoneIsLast`), and `main` passes `Wait` and closes the
   pool only after it (`LoopIsWaitedFor`).  It does not mention requests.
2. `ServerInv`: `httpServer` returns without an error only when the listener is
   closed and no request is open (`NoErrorNoRequest`).  The channel can hold
   `ErrServerClosed` only after `Shutdown` (`NotYetClosed`), without which
   `ServerStops` would return no error with requests open.

Exit code 0 needs both: the pool closed, which the first gives, and no error.

`IngestionProofs` proves every safety property of the run `ingestion`, for any
number of jobs, workers, requests and documents, any retry budget, and any
number of faults and deletions.  None of them is inductive, `TypeOK` included:
that no retry is counted beyond the budget depends on the copy of the row a
worker holds.  `IInv` adds what each party still remembers:

1. `RowsAreFreed`: a name and a lease are in a row only while it is processing;
   a row that leaves that state gives up both.
2. `RequestsRemember`, `WorkersRemember`: documents are never reborn, so what a
   reindex request read before its next statement, and what `index()` found, is
   still so or the document is gone.  This carries `PayloadMatchesDocument` over
   the `INSERT` of a reindex job and the completion of an upload.
   (`NoDuplicateDocument` needs less: the unique checksum, and that a document
   without content has none of the contents.)
3. `ResultsHaveCause`: a context is cancelled by a lost heartbeat or the
   shutdown only, and a heartbeat does not outlive `process()`, which waits for
   it.  `CancelIsNoFailure` follows.
4. `HoldersRun`: while no statement has failed and no document was deleted, the
   worker a live row names runs that job.  It is what `ShutdownReleases` needs, and
   false without its hypothesis: a lost reply leaves a name behind.

`DocumentStoreProofs` proves `TypeOK`, `ReadersSeeWholeDocuments` and
`OnlyDeletionIsFatal` for any number of clients, documents, chunks and
transactions.  The rows are versions, so the argument is about who may see
and lock them:

1. `RowFits`, `TransactionFits`: a version that is not committed belongs to an
   open transaction on its document, and is deleted by nobody.
2. `RowsAreUnique`: two writes of a document meet at chunk 0, which every write
   has and inserts first, in the unique index.  The second waits there for the
   first, and fails if that one commits, unless it has deleted that chunk itself,
   and then it has deleted the whole write: a snapshot of committed rows
   holds whole writes only (`SnapshotFits`).
3. `RowsAgree`: the committed rows of a document are all of one write, and all
   deleted by the same transaction or by none.  A commit or a rollback
   therefore shows or hides them together (`CommittedWhole`, `InsertedWhole`).
4. `DeletionIsWhole`: a transaction that deletes a document has its chunks in
   its snapshot, and none is added while it holds the lock of the document.

The same module proves, under `TicketSpec`, that `Ingestion` implements
`QueueContract` (`Implementation`): with handlers, heartbeats, shutdowns, crashes
and lost replies around the statements, only the worker of a job's newest claim
settles it, retries it or gives it back.

1. `NextEffect`: every one of the steps of `Next` does one of six things to
   statuses, retries, names and the workers' jobs (`Effect`): nothing, a
   submission, a claim that is heard of or not, a recovery, a worker that leaves
   its job, or one that concludes it with its name in the row.  This uses `IInv`:
   a worker's copy of the retries is that of the row while its name is there.
2. `HeldOK`, over the history variables: `FencedByName`, and that an idle worker
   holds no claim.  `SeenClaim` is the step that could break it: a worker's name
   enters a row only by a claim, and only an idle worker claims, so that the name
   comes with the newest number or, if the reply is lost, with no job at all.
3. `EffectKept`: each effect keeps `HeldOK` and is an action of the contract or
   not visible to it.

No run of the project checks this refinement.  Before it was proved TLC found
it to hold with 2 jobs, 2 workers (one mortal), 1 document, 1 retry and 1
fault; the run `job_queue` checks the one of `JobQueue`.

`AnswerProofs` has two halves.  The first proves every property of the run
`retrieval`, and `RetrievalTypeOK`, for any texts, scores, limits, answers of the
reranker and number of changes between the searches.

1. `Recursion`, `Induct`: a function defined step by step exists and has its
   steps, and what holds from step to step holds to the end, with sets in the
   place of predicates.  `Ranks`, `ListFacts`: in a finite order the numbers of
   members below run from 0 up, so `Ordered` lists each member once, in order.
2. `Chooses`: `selectDiverse`, `RankedBy` and `PrepareGenerationContext` each keep
   the members of a sequence at some set of positions, in order
   (`DiverseChooses`, `RankedChooses`, `ContextChooses`).
   Each selection is greedy, and `DiverseIsRoomy` shows that the first is `Roomy`,
   which is defined without a loop; `PreparedDiffer` and `PreparedCrowded` say
   what the context keeps and why it leaves out the rest.
3. `Fuses`, `HybridFuses`: the fusion in the service and the outer join of the
   store combine the same hits (`CombinedJoined`, `OuterCombined`) and sort them by
   the same order, so they return the same list.  `FusedFresh`: fused hits are
   different chunks, sorted, with ranks in range.
4. `RetrievalInv` carries this through the stages.  The properties alone are not
   inductive: `Select` must know that the candidates are sorted and different
   (`FusedBefore`), for the context sorts the hits again and the argument needs
   that to change nothing (`SortedStays`); and that is so because the
   vector hits are the search of the chunks in `read`, which later changes to the
   database do not touch (`Searched`).  TLC checked `RetrievalInv` in the instance
   of the run before it was proved.

The second half proves `DoneIsComplete` and `ClientLearns` of `ChatStream` for answers of any
length and any number of lines under way.  `ReadSoFar` is the strengthening:
there is a number k so that the client of an intact connection has the first k
tokens and the wire has the others, in order, with the end of the stream behind them
(`WireHolds`).  Reading the end then means that k is all that was produced.
`NothingFinal` says that nothing conclusive is written before the handler
returns; with `Causes` (a connection breaks only for a client that left or a
deadline that passed) it gives the one conclusion of each client that stays.

`BaselineProofs` proves `TypeOK`, `KeepsBestScores`, `GateIsExact` and the action
property `DamageIsReported` for all modes, settings, scores and tolerances.
`FileStands` compares the file with the history of the merged runs: equal
scores and failures, and a latency that one of the runs had.  The finding
`latency` is why it can say no more of latencies, and why the gate is exact for
scores and failures but for latencies only in one direction: none is reported
that is not worse, some that are may be missed.

`MarkdownBlocksProofs` proves all four properties of the run `markdown_blocks`
for files of any length.  `IInv` is the state of the automaton told from the
lines read so far: `OpenBlock` (what lies behind an open fence or in an open
paragraph), `BlocksInOrder`, `OnlyBlankOutside`, `BlockIsWhole` for each block from
the moment it is closed, `PathStands` (the stack of headings is what the headings above
make of it, `PathOf`) with `BlocksFiled`, and `ChunksSoFar` for `ChunkBlocks`.  TLC
checked `IInv` with files of up to 5 lines before it was proved.
`FiledWhereItStands` needs most of the work: cutting and padding the
stack at a heading must equal taking, for each level, the last heading at or
above it, for headings that skip levels both ways.  That a set of line numbers has a least and a greatest member
is taken from the well-foundedness of the natural numbers.

Assumptions: those that the modules declare (`QueueAssumption`,
`IngestionAssumption`, `DocumentStoreAssumption`, `ChunkerAssumption`,
`BaselineAssumption`, `MarkdownAssumption`, `RetrievalAssumption`), evaluated by TLC in the runs: natural numbers, distinct null
values, in `DocumentStore` at least one document id, in `MarkdownBlocks` that a fence has a marker,
as every result of `markdownFence` (`chunker.go:201`) that is one has, in `Retrieval`
finitely many texts, scores and values of `top_k`.
`ServerLifecycleProofs` and the second half of `AnswerProofs` use none.  The bounds that keep
TLC's state spaces finite (clock, attempts, writes, faults, deletions, lines) are
constants or guards, and the proofs hold for every value of them.

Liveness is outside the prover's reach; that the loop of `chunkText` ends
follows from `Progress`, which is proved: every iteration begins later than
the one before, in a text of finite length.

Only model-checked: all liveness (`AcceptedJobsEnd`, `ShutdownEnds`,
`EveryTransactionEnds`, `DisconnectStopsModel`, `StopEnds`).  Every other property
of a passing run is a theorem.

## 5. Findings

* **`source`** `GetDocumentSource` (`store.go:306`) returns the payload of the
  job that completed last.  A reindex requested while the first upload of a
  document had created it but was not yet marked completed carries an empty
  payload; once it completes, every later reindex finds that empty payload and
  only re-embeds stored chunks, although `README.md:195` says the document is
  rebuilt when the original upload exists.  It does, in the upload's row.
* **`latency`** `MergeBaseline` (`evaluation.go:390`) replaces the best latency
  by the 0 of a run that measured nothing, and that 0 by whatever comes next,
  against its own comment (`evaluation.go:374`) and `README.md:275`.

Seen while reading, part of the models, and allowed by their properties:

* `provider/bailian.go:95`: a stream that ends without `[DONE]` after some text
  passes for a complete answer; `README.md:143` sends the citations when the model's
  output is complete, and does not say how that is known.
* `cmd/minirag/main.go:84`: SIGHUP is not among the signals, so that closing the
  terminal, which `README.md:98` calls graceful, kills the process.
* `provider/ollama.go:37`: an answer that breaks off, or is longer than 4 MiB, is
  an error of decoding, which is permanent, while `README.md:209` promises a retry
  for errors of the network.
* `evaluation.go:601`: a run of cases without an answer only reports latencies of
  0, although such cases take part in the latencies (`README.md:271`); `latency`
  starts from such a run, or from one in which every case failed.

## 6. Not modelled

* What chunk rows contain, and with it which of two rebuilds of a document
  wins: no text of the repository says which should.
* The weighted search, which only the evaluation uses, the ranking functions of
  PostgreSQL, which are free scores, and pdftotext, which is external.
* Evaluation metrics and the judge: floating-point formulas over recorded hits and
  answers, without state; their reports are the inputs of `Baseline`.
* `Embed`, `Complete` and the health checks are calls that succeed, fail for a
  while or fail for good.
* The readiness probe and the handlers that only read; configuration, whose
  numbers are constants here; observability, the web page and the scripts have
  no control the properties depend on.
* SQL beyond what the statements use: one PostgreSQL at READ COMMITTED, its
  clock monotonic.

## 7. Plan

Done: `QueueContract`, implemented by `JobQueue` and by `Ingestion`;
`DocumentStore`, `Chunker`, `MarkdownBlocks`, `Retrieval`, `ChatStream`,
`ServerLifecycle` and `Baseline`, each with proofs of its safety.

Left: a refinement from `DocumentStore` to the document steps of `Ingestion`,
which take one transaction for one step; the weighted search.
